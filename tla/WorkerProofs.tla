----------------------------- MODULE WorkerProofs -----------------------------
(***************************************************************************)
(* Theorems about the worker process.  Deployment: the start of the API and *)
(* the worker on any database and release, and the worker's threads on any  *)
(* cameras.  EnrollmentCache: whatever the order of uploads, erasures,      *)
(* sweeps and frames of one of its cameras, no stored row names an erased   *)
(* person, and no event names one its window was not recognised as.        *)
(* RuleEngine: whatever the rules, the ids they share and the labels that   *)
(* its tracks change, the events of a rule which has its memory for itself  *)
(* are what the frames show, and it reports each stay and crowd, once.      *)
(***************************************************************************)
EXTENDS Deployment, EnrollmentCache, RuleEngine, FiniteSetTheorems, NaturalsInduction,
        WellFoundedInduction, TLAPS

-----------------------------------------------------------------------------
(* The worker. *)

\* A record thread runs beside a frame loop that has begun, and a segment is
\* being written only while its thread waits for it.
ThreadInv ==
    /\ loop \in [Followed -> Loops] /\ recorder \in [Followed -> Recorders]
    /\ ffmpeg \subseteq Followed
    /\ \A c \in Followed :
          /\ loop[c] \in {"none", "loading"} => recorder[c] = "none"
          /\ c \in ffmpeg => recorder[c] = "waiting"
          /\ proc = "down" => loop[c] = "none"
    /\ \A c \in ffmpeg : c \in late \/ ~Ended(c)

LEMMA InitWorker == Init => ThreadInv
BY DEF Init, ThreadInv, Loops, Recorders

LEMMA StartKeepsThreads == ThreadInv /\ Start => ThreadInv'
<1> SUFFICES ASSUME ThreadInv, Start PROVE ThreadInv'  OBVIOUS
<1>1. \A c \in Followed : recorder[c] = "none" /\ c \notin ffmpeg
    BY DEF ThreadInv, Start
<1>2. loop' \in [Followed -> {"loading", "none"}]  BY DEF Start
<1> QED BY <1>1, <1>2 DEF ThreadInv, Start, left, Loops

\* Every thread's step, and the end of the process.
LEMMA ThreadsKeep == ThreadInv /\ Threads => ThreadInv'
<1> SUFFICES ASSUME ThreadInv, Threads PROVE ThreadInv'  OBVIOUS
<1> USE DEF ThreadInv, Loops, Recorders, Ended
<1>1. ASSUME NEW c \in Followed, FrameLoop(c) PROVE ThreadInv'
    <2>1. CASE StartCamera(c)  BY <2>1 DEF StartCamera, left
    <2>2. CASE DetectorFails(c)  BY <2>2 DEF DetectorFails, left
    <2>3. CASE StopAll(c)  BY <2>3 DEF StopAll, left
    <2>4. CASE SourceFails(c) \/ Reconnect(c) \/ GatewayReturns(c) \/ FrameWhileStopped(c)
        BY <2>4 DEF SourceFails, Reconnect, GatewayReturns, FrameWhileStopped, Move, left
    <2> QED BY <1>1, <2>1, <2>2, <2>3, <2>4 DEF FrameLoop
<1>2. ASSUME NEW c \in Followed, RecordThread(c) PROVE ThreadInv'
    <2>1. CASE CheckStop(c)  BY <2>1 DEF CheckStop, left
    <2>2. CASE Launch(c)  BY <2>2 DEF Launch
    <2>3. CASE LaunchFails(c)  BY <2>3 DEF LaunchFails, left
    <2>4. CASE SegmentDone(c)  BY <2>4 DEF SegmentDone, left
    <2> QED BY <1>2, <2>1, <2>2, <2>3, <2>4 DEF RecordThread
<1>3. ASSUME NEW c \in Followed, SegmentEnds(c) \/ OrphanEnds(c) PROVE ThreadInv'
    BY <1>3 DEF SegmentEnds, OrphanEnds, threads, left
<1>4. CASE \E b \in Background : BackgroundEnds(b)  BY <1>4 DEF BackgroundEnds, left
<1> QED BY <1>1, <1>2, <1>3, <1>4 DEF Threads

LEMMA StepWorker == ThreadInv /\ [DeploymentNext]_Vars => ThreadInv'
<1> SUFFICES ASSUME ThreadInv, [DeploymentNext]_Vars PROVE ThreadInv'  OBVIOUS
<1>1. CASE UNCHANGED vars  BY <1>1 DEF vars, threads, left, ThreadInv, Ended
<1>2. CASE Edits
    <2>1. UNCHANGED <<proc, loop, recorder, ffmpeg, late>>
        BY <1>2 DEF Edits, CreateCameras, UpdateCamera, Write, DeleteCamera, threads, left
    <2> QED BY <2>1 DEF ThreadInv, Ended
<1>3. CASE Start  BY <1>3, StartKeepsThreads
<1>4. CASE Dies  BY <1>4 DEF ThreadInv, Dies, Loops, Recorders
<1>5. CASE Sigterm \/ CtrlC  BY <1>5 DEF ThreadInv, Sigterm, CtrlC, threads, left, Ended
<1>6. CASE Threads  BY <1>6, ThreadsKeep
<1> QED BY <1>1, <1>2, <1>3, <1>4, <1>5, <1>6
    DEF DeploymentNext, Boots, MainStarts, WorkerEnds, Exit, Killed, ApiEnds, Handlers, Vars

-----------------------------------------------------------------------------
(* The start. *)

\* How far a process is bounds what the database lacks.
ProgressInv ==
    /\ boot = [p \in Process |-> boot[p]]
    /\ columns \subseteq All
    /\ \A p \in Process :
          /\ boot[p].pc \in {"column", "reading", "seeding", "up"} => tables
          /\ boot[p].pc = "column" =>
                /\ boot[p].n \in Nat \ {0}
                /\ \A i \in DOMAIN Columns : i < boot[p].n => Columns[i] \in columns
          /\ boot[p].pc \in {"reading", "seeding", "up"} => columns = All

\* What seed is going to write either fits the rows there are, or the other
\* process was first and they are what this release wants.
GrantsInv ==
    \A p \in Process :
        /\ At(p, "seeding") =>
              /\ boot[p].add \subseteq Grants /\ boot[p].drop \intersect Grants = {}
              /\ \/ grants = Grants
                 \/ boot[p].add = Grants \ grants /\ boot[p].drop = grants \ Grants
        /\ At(p, "up") => grants = Grants

\* A process that makes no account has seen one, and only operators remove them.
AccountsInv ==
    \A p \in Process :
        /\ At(p, "seeding") => boot[p].accounts \in {{}, {"bootstrap"}}
        /\ (At(p, "seeding") /\ boot[p].accounts = {}) \/ At(p, "up") => users # {} \/ emptied

BootInv == ProgressInv /\ GrantsInv /\ AccountsInv

\* The sequence of columns has the indices it should have.
LEMMA ColumnIndices == DOMAIN Columns = 1..Len(Columns) /\ Len(Columns) \in Nat
BY BootstrapAssumption

LEMMA InitBoot == BootInit => BootInv
<1> SUFFICES ASSUME BootInit PROVE BootInv  OBVIOUS
<1>1. boot = [p \in Process |-> Down] /\ \A p \in Process : boot[p].pc = "down"
    BY DEF BootInit, Down
<1>2. columns \subseteq All  BY DEF BootInit
<1> QED BY <1>1, <1>2 DEF BootInv, ProgressInv, GrantsInv, AccountsInv, At

\* A process whose state does not matter to the invariant: it is down or checking.
LEMMA RestartKeeps ==
    ASSUME BootInv, NEW p \in Process, NEW state, state.pc \in {"down", "checking", "creating"},
           Go(p, state), UNCHANGED <<database, emptied>>
    PROVE  BootInv'
<1>1. /\ boot' = [q \in Process |-> boot'[q]]
      /\ boot'[p] = state
      /\ \A q \in Process \ {p} : boot'[q] = boot[q]
    BY DEF BootInv, ProgressInv, Go
<1> QED BY <1>1 DEF BootInv, ProgressInv, GrantsInv, AccountsInv, At, database

LEMMA StepBoot ==
    ASSUME BootInv, NEW p \in Process, BootStep(p) PROVE BootInv'
<1> USE DEF BootInv, ProgressInv, GrantsInv, AccountsInv, At
<1>0. \A state : Go(p, state) =>
         /\ boot' = [q \in Process |-> boot'[q]]
         /\ boot'[p] = state
         /\ \A q \in Process \ {p} : boot'[q] = boot[q]
    BY DEF Go
<1>1. CASE build(p)
    <2> DEFINE state == [pc |-> "checking"]
    <2>1. Go(p, state) /\ UNCHANGED <<database, emptied>> /\ state.pc = "checking"
        BY ONLY <1>1 DEF build, operated
    <2> QED BY <2>1, RestartKeeps
<1>2. CASE CheckTables(p)
    <2>1. CASE ~tables
        <3> DEFINE state == [pc |-> "creating"]
        <3>1. Go(p, state) /\ UNCHANGED <<database, emptied>> /\ state.pc = "creating"
            BY ONLY <1>2, <2>1 DEF CheckTables, operated
        <3> QED BY <3>1, RestartKeeps
    <2>2. CASE tables
        <3> DEFINE state == [pc |-> "column", n |-> 1]
        <3>1. Go(p, state) /\ UNCHANGED <<tables, columns, grants, users, emptied>>
            BY ONLY <1>2, <2>2 DEF CheckTables, database, operated
        <3>2. boot'[p] = state /\ \A q \in Process \ {p} : boot'[q] = boot[q]
            BY <1>0, <3>1
        <3>3. state.pc = "column" /\ state.n = 1 /\ \A i \in DOMAIN Columns : ~(i < 1)
            BY ColumnIndices
        <3> HIDE DEF state
        <3> QED BY <1>0, <2>2, <3>1, <3>2, <3>3
    <2> QED BY <2>1, <2>2
<1>3. CASE CreateTables(p)
    <2>1. CASE tables
        <3>1. Go(p, Down) /\ UNCHANGED <<database, emptied>> /\ Down.pc = "down"
            BY ONLY <1>3, <2>1 DEF CreateTables, database, operated, Down
        <3> QED BY <3>1, RestartKeeps
    <2>2. CASE ~tables
        <3> DEFINE state == [pc |-> "column", n |-> 1]
        <3>1. Go(p, state) /\ tables' = TRUE /\ columns' = All /\ UNCHANGED <<grants, users, emptied>>
            BY ONLY <1>3, <2>2 DEF CreateTables, operated
        <3>2. boot'[p] = state /\ \A q \in Process \ {p} : boot'[q] = boot[q]
            BY <1>0, <3>1
        <3>3. state.pc = "column" /\ state.n = 1 /\ \A i \in DOMAIN Columns : ~(i < 1)
            BY ColumnIndices
        <3>4. \A i \in DOMAIN Columns : Columns[i] \in All  BY DEF All
        <3> HIDE DEF state
        <3> QED BY <1>0, <2>2, <3>1, <3>2, <3>3, <3>4
    <2> QED BY <2>1, <2>2
<1>4. CASE EnsureColumn(p)
    <2> DEFINE n == boot[p].n
    <2>1. tables /\ n \in Nat \ {0} /\ \A i \in DOMAIN Columns : i < n => Columns[i] \in columns
        BY <1>4 DEF EnsureColumn
    <2>2. UNCHANGED <<tables, grants, users, emptied>>  BY <1>4 DEF EnsureColumn, operated
    <2>3. CASE n > Len(Columns)
        <3> DEFINE state == [pc |-> "reading"]
        <3>1. Go(p, state) /\ UNCHANGED columns  BY <1>4, <2>3 DEF EnsureColumn
        <3>2. boot'[p] = state /\ \A q \in Process \ {p} : boot'[q] = boot[q]
            BY <1>0, <3>1
        <3>3. columns = All  BY <2>1, <2>3, ColumnIndices DEF All
        <3>4. state.pc = "reading"  OBVIOUS
        <3> HIDE DEF state, n
        <3> QED BY <1>0, <2>1, <2>2, <3>1, <3>2, <3>3, <3>4
    <2>4. CASE ~(n > Len(Columns))
        <3> DEFINE state == [pc |-> "column", n |-> n + 1]
        <3>1. Go(p, state) /\ columns' = columns \union {Columns[n]}
            BY <1>4, <2>4 DEF EnsureColumn, AddColumn
        <3>2. boot'[p] = state /\ \A q \in Process \ {p} : boot'[q] = boot[q]
            BY <1>0, <3>1
        <3>3. n \in DOMAIN Columns  BY <2>1, <2>4, ColumnIndices
        <3>4. columns \subseteq columns' /\ columns' \subseteq All  BY <3>1, <3>3 DEF All
        <3>5. /\ state.pc = "column" /\ state.n \in Nat \ {0}
              /\ \A i \in DOMAIN Columns : i < state.n => Columns[i] \in columns'
            BY <2>1, <3>1, ColumnIndices
        <3> HIDE DEF state, n
        <3> QED BY <1>0, <2>1, <2>2, <3>1, <3>2, <3>4, <3>5
    <2> QED BY <2>3, <2>4
<1>5. CASE SeedReads(p)
    <2> DEFINE state == [pc |-> "seeding", add |-> Grants \ grants, drop |-> grants \ Grants,
                         accounts |-> IF users = {} THEN {"bootstrap"} ELSE {}]
    <2>1. Go(p, state) /\ UNCHANGED <<tables, columns, grants, users, emptied>> /\ At(p, "reading")
        BY <1>5 DEF SeedReads, database, operated
    <2>2. boot'[p] = state /\ \A q \in Process \ {p} : boot'[q] = boot[q]
        BY <1>0, <2>1
    <2>3. /\ state.pc = "seeding" /\ state.add = Grants \ grants /\ state.drop = grants \ Grants
          /\ state.accounts \in {{}, {"bootstrap"}}
          /\ state.accounts = {} => users # {}
        OBVIOUS
    <2> HIDE DEF state
    <2> QED BY <1>0, <2>1, <2>2, <2>3
<1>6. CASE SeedCommits(p)
    <2> DEFINE s == boot[p]
    <2>1. CASE Conflict(s)
        <3>1. Go(p, Down) /\ UNCHANGED <<database, emptied>> /\ Down.pc = "down"
            BY ONLY <1>6, <2>1 DEF SeedCommits, database, Down
        <3> QED BY <3>1, RestartKeeps
    <2>2. CASE ~Conflict(s)
        <3> DEFINE state == [pc |-> "up"]
        <3>1. /\ Go(p, state) /\ UNCHANGED <<tables, columns>>
              /\ grants' = (grants \ s.drop) \union s.add
              /\ users' = users \union s.accounts
              /\ emptied' = (emptied /\ s.accounts = {})
            BY ONLY <1>6, <2>2 DEF SeedCommits
        <3>2. boot'[p] = state /\ \A q \in Process \ {p} : boot'[q] = boot[q]
            BY <1>0, <3>1
        <3>3. grants' = Grants
            <4>1. /\ s.add \intersect grants = {} /\ s.drop \subseteq grants
                  /\ s.add \subseteq Grants /\ s.drop \intersect Grants = {}
                BY <1>6, <2>2 DEF Conflict, SeedCommits
            <4>2. CASE grants = Grants  BY <3>1, <4>1, <4>2
            <4>3. CASE s.add = Grants \ grants /\ s.drop = grants \ Grants  BY <3>1, <4>3
            <4> QED BY <1>6, <4>2, <4>3 DEF SeedCommits
        <3>4. users' # {} \/ emptied'  BY <1>6, <3>1 DEF SeedCommits
        <3>5. state.pc = "up" /\ tables /\ columns = All  BY <1>6 DEF SeedCommits
        <3> HIDE DEF state
        <3> QED BY <1>0, <3>1, <3>2, <3>3, <3>4, <3>5
    <2> QED BY <2>1, <2>2
<1> QED BY <1>1, <1>2, <1>3, <1>4, <1>5, <1>6 DEF BootStep

LEMMA KeepsBoot == BootInv /\ [DeploymentNext]_Vars => BootInv'
<1> SUFFICES ASSUME BootInv, [DeploymentNext]_Vars PROVE BootInv'  OBVIOUS
<1>1. CASE UNCHANGED bootVars
    BY <1>1 DEF bootVars, database, operated, BootInv, ProgressInv, GrantsInv, AccountsInv, At
<1>2. ASSUME NEW p \in Process, Boots(p) PROVE BootInv'  BY <1>2, StepBoot DEF Boots
<1>3. ASSUME NEW p \in Process, ProcessEnds(p) PROVE BootInv'
    <2>1. Go(p, Down) /\ UNCHANGED <<database, emptied>> /\ Down.pc = "down"
        BY <1>3 DEF ProcessEnds, operated, Down
    <2> QED BY <2>1, RestartKeeps
<1>4. ASSUME NEW u \in Account, create_user(u) \/ delete_user(u) PROVE BootInv'
    <2>1. UNCHANGED <<tables, columns, grants, boot>>  BY <1>4 DEF create_user, delete_user
    <2>2. users # {} \/ emptied => users' # {} \/ emptied'
        BY <1>4 DEF create_user, delete_user
    <2> QED BY <2>1, <2>2 DEF BootInv, ProgressInv, GrantsInv, AccountsInv, At
<1>5. "worker" \in Process /\ "api" \in Process  BY DEF Process
<1> QED BY <1>1, <1>2, <1>3, <1>4, <1>5
    DEF DeploymentNext, MainStarts, WorkerEnds, ApiEnds, Handlers, Vars

\* An ffmpeg becomes an orphan only when the process ends while it writes.
LEMMA OrphanStep ==
    ThreadInv /\ [DeploymentNext]_Vars => [\A c \in orphans' \ orphans : c \in late \/ ~Ended(c)]_vars
<1> SUFFICES ASSUME ThreadInv, DeploymentNext
             PROVE  \A c \in orphans' \ orphans : c \in late \/ ~Ended(c)
    BY DEF Vars, vars
<1>1. CASE UNCHANGED vars  BY <1>1 DEF vars, left
<1>2. CASE Dies  BY <1>2 DEF Dies, ThreadInv, ThreadInv
<1>3. CASE Start \/ Sigterm \/ CtrlC \/ Edits
    BY <1>3 DEF Start, Sigterm, CtrlC, Edits, CreateCameras, UpdateCamera, Write, DeleteCamera, left
<1>4. CASE Threads
    BY <1>4 DEF Threads, FrameLoop, StartCamera, DetectorFails, SourceFails, Reconnect,
                GatewayReturns, FrameWhileStopped, Move, StopAll, RecordThread, CheckStop,
                Launch, LaunchFails, SegmentDone, SegmentEnds, OrphanEnds, BackgroundEnds, left
<1> QED BY <1>1, <1>2, <1>3, <1>4
    DEF DeploymentNext, Boots, MainStarts, WorkerEnds, Exit, Killed, ApiEnds, Handlers

-----------------------------------------------------------------------------
(* Types *)

LEMMA EditsTyped == TypeOK /\ Edits => TypeOK'
<1> SUFFICES ASSUME TypeOK, Edits PROVE TypeOK'  OBVIOUS
<1> USE WorkerAssumption
<1>0. edits \in Nat /\ MaxEdits \in Nat  BY DEF TypeOK
<1>1. ASSUME NEW C \in SUBSET Camera, C \intersect deleted = {}, Write(C) PROVE TypeOK'
    <2>1. edits' = edits + 1 /\ edits < MaxEdits  BY <1>1 DEF Write
    <2>2. DOMAIN rows' = DOMAIN rows \union C
          /\ \A c \in DOMAIN rows' : rows'[c] = IF c \in C THEN edits' ELSE rows[c]
        BY <1>1 DEF Write
    <2>3. edits' \in CameraRow /\ edits' \in 0..MaxEdits
        BY <1>0, <2>1 DEF CameraRow, TypeOK
    <2>4. \A c \in DOMAIN rows' : rows'[c] \in CameraRow  BY <2>2, <2>3 DEF TypeOK
    <2>5. UNCHANGED <<deleted, proc, lives, stop, copy, loop, recorder, ffmpeg, background,
                      orphans, late>>
        BY <1>1 DEF Write, threads, left
    <2>6. DOMAIN rows' \subseteq Camera /\ deleted' \subseteq Camera \ DOMAIN rows'
        BY <1>1, <2>2, <2>5 DEF TypeOK
    <2> QED BY <2>3, <2>4, <2>5, <2>6 DEF TypeOK
<1>2. CASE \E C \in SUBSET Camera : CreateCameras(C)  BY <1>1, <1>2 DEF CreateCameras
<1>3. ASSUME NEW c \in Camera, UpdateCamera(c) PROVE TypeOK'
    <2>1. {c} \in SUBSET Camera /\ {c} \intersect deleted = {} /\ Write({c})
        BY <1>3 DEF UpdateCamera, TypeOK
    <2> QED BY <1>1, <2>1
<1>4. ASSUME NEW c \in Camera, DeleteCamera(c) PROVE TypeOK'
    <2>1. /\ DOMAIN rows' = DOMAIN rows \ {c} /\ deleted' = deleted \union {c}
          /\ \A d \in DOMAIN rows' : rows'[d] = rows[d]
        BY <1>4 DEF DeleteCamera
    <2>2. /\ DOMAIN rows' \subseteq Camera /\ deleted' \subseteq Camera \ DOMAIN rows'
          /\ \A d \in DOMAIN rows' : rows'[d] \in CameraRow
        BY <2>1 DEF TypeOK
    <2> QED BY <1>4, <2>2 DEF DeleteCamera, threads, left, TypeOK
<1> QED BY <1>2, <1>3, <1>4 DEF Edits

LEMMA ThreadsTyped == TypeOK /\ Threads => TypeOK'
<1> SUFFICES ASSUME TypeOK, Threads PROVE TypeOK'  OBVIOUS
<1>1. UNCHANGED <<table, proc, lives, stop, copy>>
    BY DEF Threads, FrameLoop, StartCamera, DetectorFails, SourceFails, Reconnect,
           GatewayReturns, FrameWhileStopped, Move, StopAll, RecordThread, CheckStop,
           Launch, LaunchFails, SegmentDone, SegmentEnds, OrphanEnds, BackgroundEnds
<1>2. loop' \in [Followed -> Loops] /\ recorder' \in [Followed -> Recorders]
    BY DEF Threads, FrameLoop, StartCamera, DetectorFails, SourceFails, Reconnect,
           GatewayReturns, FrameWhileStopped, Move, StopAll, RecordThread, CheckStop,
           Launch, LaunchFails, SegmentDone, SegmentEnds, OrphanEnds, BackgroundEnds,
           threads, TypeOK, Loops, Recorders
<1>3. /\ ffmpeg' \subseteq Followed /\ background' \subseteq Background
      /\ orphans' \subseteq Followed /\ late' \subseteq Followed
    BY DEF Threads, FrameLoop, StartCamera, DetectorFails, SourceFails, Reconnect,
           GatewayReturns, FrameWhileStopped, Move, StopAll, RecordThread, CheckStop,
           Launch, LaunchFails, SegmentDone, SegmentEnds, OrphanEnds, BackgroundEnds,
           threads, left, TypeOK
<1> QED BY <1>1, <1>2, <1>3 DEF table, TypeOK

LEMMA StepWorkerTyped == TypeOK /\ [DeploymentNext]_Vars => TypeOK'
<1> SUFFICES ASSUME TypeOK, [DeploymentNext]_Vars PROVE TypeOK'  OBVIOUS
<1>1. CASE UNCHANGED vars  BY <1>1 DEF vars, table, threads, left, TypeOK
<1>2. CASE Start
    <2>1. lives' \in 0..MaxLives
        BY <1>2, WorkerAssumption DEF Start, table, TypeOK
    <2>2. loop' \in [Followed -> Loops]  BY <1>2 DEF Start, Loops
    <2> QED BY <1>2, <2>1, <2>2 DEF Start, table, left, TypeOK
<1>3. CASE Dies
    <2>1. loop' \in [Followed -> Loops] /\ recorder' \in [Followed -> Recorders]
        BY <1>3 DEF Dies, Loops, Recorders
    <2> QED BY <1>3, <2>1 DEF Dies, table, TypeOK
<1>4. CASE Sigterm \/ CtrlC  BY <1>4 DEF Sigterm, CtrlC, table, threads, left, TypeOK
<1> QED BY <1>1, <1>2, <1>3, <1>4, EditsTyped, ThreadsTyped
    DEF DeploymentNext, Boots, MainStarts, WorkerEnds, Exit, Killed, ApiEnds, Handlers, Vars

\* The rows of permissions are those of this release or the one before it.
LEMMA StepBootTyped == BootTypeOK /\ BootInv /\ [DeploymentNext]_Vars => BootTypeOK'
<1> SUFFICES ASSUME BootTypeOK, BootInv, [DeploymentNext]_Vars PROVE BootTypeOK'  OBVIOUS
<1>0. columns' \subseteq All  BY KeepsBoot DEF BootInv, ProgressInv
<1>1. CASE UNCHANGED bootVars  BY <1>0, <1>1 DEF bootVars, database, operated, BootTypeOK
<1>2. ASSUME NEW p \in Process, NEW state, Go(p, state),
             state.pc \in {"down", "checking", "creating", "column", "reading", "seeding", "up"}
      PROVE  \A q \in Process :
                boot'[q].pc \in {"down", "checking", "creating", "column", "reading", "seeding", "up"}
    <2>1. boot = [q \in Process |-> boot[q]]  BY DEF BootInv, ProgressInv
    <2>2. boot'[p] = state /\ \A q \in Process \ {p} : boot'[q] = boot[q]
        BY <1>2, <2>1 DEF Go
    <2> QED BY <1>2, <2>2 DEF BootTypeOK
<1>3. ASSUME NEW p \in Process, BootStep(p) PROVE BootTypeOK'
    <2>1. PICK state : /\ Go(p, state)
                       /\ state.pc \in {"down", "checking", "creating", "column", "reading", "seeding", "up"}
        BY <1>3 DEF BootStep, build, CheckTables, CreateTables, EnsureColumn, SeedReads, SeedCommits, Down
    <2>2. tables' \in BOOLEAN
        BY <1>3 DEF BootStep, build, CheckTables, CreateTables, EnsureColumn, SeedReads, SeedCommits,
                    database, BootTypeOK
    <2>3. grants' \subseteq RolePermission /\ users' \subseteq Account
        <3>1. CASE UNCHANGED <<grants, users>>  BY <3>1 DEF BootTypeOK
        <3>2. CASE SeedCommits(p)
            <4>1. boot[p].add \subseteq Grants /\ boot[p].accounts \in {{}, {"bootstrap"}}
                BY <3>2 DEF SeedCommits, BootInv, GrantsInv, AccountsInv, At
            <4>2. \/ UNCHANGED <<grants, users>>
                  \/ /\ grants' = (grants \ boot[p].drop) \union boot[p].add
                     /\ users' = users \union boot[p].accounts
                BY <3>2 DEF SeedCommits
            <4> QED BY <4>1, <4>2, BootstrapAssumption DEF BootTypeOK, RolePermission
        <3> QED BY <1>3, <3>1, <3>2
            DEF BootStep, build, CheckTables, CreateTables, EnsureColumn, SeedReads, database
    <2> QED BY <1>0, <1>2, <2>1, <2>2, <2>3 DEF BootTypeOK
<1>4. ASSUME NEW p \in Process, ProcessEnds(p) PROVE BootTypeOK'
    <2>1. Down.pc = "down"  BY DEF Down
    <2>2. \A q \in Process :
             boot'[q].pc \in {"down", "checking", "creating", "column", "reading", "seeding", "up"}
        BY <1>2, <1>4, <2>1 DEF ProcessEnds
    <2> QED BY <1>0, <1>4, <2>2 DEF ProcessEnds, database, BootTypeOK
<1>5. ASSUME NEW u \in Account, create_user(u) \/ delete_user(u) PROVE BootTypeOK'
    BY <1>0, <1>5 DEF create_user, delete_user, BootTypeOK
<1>6. "worker" \in Process /\ "api" \in Process  BY DEF Process
<1> QED BY <1>1, <1>3, <1>4, <1>5, <1>6
    DEF DeploymentNext, Boots, MainStarts, WorkerEnds, ApiEnds, Handlers, Vars

LEMMA InitTyped == DeploymentInit => TypeOK /\ BootTypeOK
<1> SUFFICES ASSUME DeploymentInit PROVE TypeOK /\ BootTypeOK  OBVIOUS
<1>1. DOMAIN rows = {} /\ DOMAIN copy = {}  BY DEF DeploymentInit, Init
<1>2. TypeOK
    <2>1. 0 \in 0..MaxEdits /\ 0 \in 0..MaxLives /\ 0 \in 0..0  BY WorkerAssumption
    <2>2. loop \in [Followed -> Loops] /\ recorder \in [Followed -> Recorders]
        BY DEF DeploymentInit, Init, Loops, Recorders
    <2> QED BY <1>1, <2>1, <2>2 DEF DeploymentInit, Init, TypeOK
<1>3. \A p \in Process : boot[p].pc = "down"  BY DEF DeploymentInit, BootInit, Down
<1>4. /\ tables \in BOOLEAN /\ columns \subseteq All
      /\ grants \subseteq RolePermission /\ users \subseteq Account
    BY DEF DeploymentInit, BootInit, RolePermission
<1>5. BootTypeOK  BY <1>3, <1>4 DEF BootTypeOK
<1> QED BY <1>2, <1>5

-----------------------------------------------------------------------------
(* Stopping *)

\* How many steps a record thread can still take once the event is set.
StepsLeft(c) ==
    CASE recorder[c] = "launching" -> 3
      [] recorder[c] = "waiting"   -> 2
      [] recorder[c] = "checking"  -> 1
      [] recorder[c] = "none"      -> IF loop[c] = "loading" THEN 2 ELSE 0
      [] recorder[c] = "done"      -> 0

\* While the event stays set, in a process that has not ended, no background
\* thread and no frame loop comes back, every step of a record thread is one of
\* the few it has left, and the only segment launched is that of a thread that
\* had looked at the event before.
Winding ==
    /\ background' \subseteq background
    /\ \A c \in Followed :
          /\ Ended(c) => Ended(c)'
          /\ StepsLeft(c)' <= StepsLeft(c)
          /\ recorder'[c] # recorder[c] => StepsLeft(c)' < StepsLeft(c)
          /\ c \in ffmpeg' \ ffmpeg => recorder[c] = "launching" /\ recorder'[c] = "waiting"

\* A step of one camera's threads leaves the other cameras' alone.
Lone(c) ==
    /\ background' = background
    /\ \A d \in Followed \ {c} :
          loop'[d] = loop[d] /\ recorder'[d] = recorder[d] /\ (d \in ffmpeg' <=> d \in ffmpeg)

LEMMA LoneWinds ==
    ASSUME ThreadInv, NEW c \in Followed, Lone(c),
           Ended(c) => Ended(c)',
           StepsLeft(c)' <= StepsLeft(c),
           recorder'[c] # recorder[c] => StepsLeft(c)' < StepsLeft(c),
           c \in ffmpeg' \ ffmpeg => recorder[c] = "launching" /\ recorder'[c] = "waiting"
    PROVE  Winding
<1>1. ASSUME NEW d \in Followed, loop'[d] = loop[d], recorder'[d] = recorder[d]
      PROVE  StepsLeft(d)' = StepsLeft(d) /\ StepsLeft(d) \in Int /\ (Ended(d) => Ended(d)')
    BY <1>1 DEF StepsLeft, Ended, ThreadInv, Recorders
<1>2. ASSUME NEW d \in Followed PROVE /\ Ended(d) => Ended(d)'
                                      /\ StepsLeft(d)' <= StepsLeft(d)
                                      /\ recorder'[d] # recorder[d] => StepsLeft(d)' < StepsLeft(d)
                                      /\ d \in ffmpeg' \ ffmpeg =>
                                            recorder[d] = "launching" /\ recorder'[d] = "waiting"
    <2>1. CASE d = c  BY <2>1
    <2>2. CASE d # c
        <3>1. /\ loop'[d] = loop[d] /\ recorder'[d] = recorder[d]
              /\ d \in ffmpeg' <=> d \in ffmpeg
            BY <2>2 DEF Lone
        <3>2. StepsLeft(d)' = StepsLeft(d) /\ StepsLeft(d) \in Int /\ (Ended(d) => Ended(d)')
            BY <1>1, <3>1
        <3> QED BY <3>1, <3>2
    <2> QED BY <2>1, <2>2
<1> QED BY <1>2 DEF Winding, Lone

LEMMA StopStep == ThreadInv /\ [DeploymentNext]_Vars => (stop /\ stop' => Winding)
<1> SUFFICES ASSUME ThreadInv, [DeploymentNext]_Vars, stop, stop' PROVE Winding
    OBVIOUS
<1>0. ThreadInv /\ \A c \in Followed : recorder[c] \in Recorders /\ StepsLeft(c) \in Int
    BY DEF ThreadInv, ThreadInv, StepsLeft, Recorders
<1>1. CASE UNCHANGED <<loop, recorder, ffmpeg, background>>
    <2>1. \A c \in Followed : StepsLeft(c)' = StepsLeft(c) /\ (Ended(c) => Ended(c)')
        BY <1>1 DEF Ended, StepsLeft
    <2> QED BY <1>0, <1>1, <2>1 DEF Winding
<1>2. ASSUME NEW c \in Followed, FrameLoop(c) PROVE Winding
    <2> USE <1>0 DEF ThreadInv, Loops, Recorders
    <2>1. CASE StartCamera(c)
        <3>1. Lone(c)  BY <2>1 DEF Lone, StartCamera
        <3>2. /\ loop[c] = "loading" /\ loop'[c] = "reading" /\ recorder[c] = "none"
              /\ recorder'[c] \in {"none", "checking"} /\ ffmpeg' = ffmpeg
            BY <2>1 DEF StartCamera
        <3>3. StepsLeft(c) = 2 /\ StepsLeft(c)' \in {0, 1} /\ ~Ended(c)
            BY <3>2 DEF StepsLeft, Ended
        <3> QED BY <3>1, <3>2, <3>3, LoneWinds
    <2>2. CASE FrameLoop(c) /\ ~StartCamera(c)
        <3>1. Lone(c) /\ recorder' = recorder /\ ffmpeg' \subseteq ffmpeg
            BY <2>2 DEF Lone, FrameLoop, DetectorFails, SourceFails, Reconnect, GatewayReturns,
                        FrameWhileStopped, Move, StopAll
        <3>2. loop[c] \notin {"none", "done"} /\ loop'[c] # "loading"
            BY <2>2 DEF FrameLoop, DetectorFails, SourceFails, Reconnect, GatewayReturns,
                        FrameWhileStopped, Move, StopAll
        <3>3. StepsLeft(c)' <= StepsLeft(c)  BY <3>1, <3>2 DEF StepsLeft
        <3> QED BY <3>1, <3>2, <3>3, LoneWinds DEF Ended
    <2> QED BY <1>2, <2>1, <2>2
<1>3. ASSUME NEW c \in Followed, RecordThread(c) PROVE Winding
    <2>1. Lone(c) /\ loop' = loop /\ recorder[c] \in {"checking", "launching", "waiting"}
        BY <1>0, <1>3 DEF Lone, RecordThread, CheckStop, Launch, LaunchFails, SegmentDone, ThreadInv
    <2>2. \/ recorder[c] = "checking" /\ recorder'[c] = "done" /\ ffmpeg' = ffmpeg
          \/ recorder[c] = "launching" /\ recorder'[c] = "waiting"
          \/ recorder[c] = "launching" /\ recorder'[c] = "checking" /\ ffmpeg' = ffmpeg
          \/ recorder[c] = "waiting" /\ recorder'[c] = "checking" /\ ffmpeg' = ffmpeg
        BY <1>0, <1>3 DEF RecordThread, CheckStop, Launch, LaunchFails, SegmentDone, ThreadInv
    <2>3. StepsLeft(c)' < StepsLeft(c) /\ StepsLeft(c) \in Int /\ StepsLeft(c)' \in Int
        BY <2>2 DEF StepsLeft
    <2>4. Ended(c) => Ended(c)'  BY <2>1 DEF Ended
    <2> QED BY <1>0, <2>1, <2>2, <2>3, <2>4, LoneWinds
<1>4. ASSUME NEW c \in Followed, SegmentEnds(c) \/ OrphanEnds(c) PROVE Winding
    <2>1. UNCHANGED <<loop, recorder, background>> /\ ffmpeg' \subseteq ffmpeg
        BY <1>4 DEF SegmentEnds, OrphanEnds, threads
    <2>2. \A d \in Followed : StepsLeft(d)' = StepsLeft(d) /\ (Ended(d) => Ended(d)')
        BY <2>1 DEF Ended, StepsLeft
    <2> QED BY <1>0, <2>1, <2>2 DEF Winding
<1>5. ASSUME NEW b \in Background, BackgroundEnds(b) PROVE Winding
    <2>1. UNCHANGED <<loop, recorder, ffmpeg>> /\ background' \subseteq background
        BY <1>5 DEF BackgroundEnds
    <2>2. \A c \in Followed : StepsLeft(c)' = StepsLeft(c) /\ (Ended(c) => Ended(c)')
        BY <2>1 DEF Ended, StepsLeft
    <2> QED BY <1>0, <2>1, <2>2 DEF Winding
<1>6. CASE Edits \/ Sigterm \/ CtrlC \/ UNCHANGED vars
    BY <1>1, <1>6 DEF Edits, CreateCameras, UpdateCamera, Write, DeleteCamera, Sigterm, CtrlC, vars, threads
<1>7. ~Start /\ ~Dies
    BY DEF Start, Dies
<1> QED BY <1>2, <1>3, <1>4, <1>5, <1>6, <1>7
    DEF DeploymentNext, Boots, MainStarts, WorkerEnds, Exit, Killed, ApiEnds, Handlers, Threads, Vars

-----------------------------------------------------------------------------
(* The theorems *)

\* Both invariants hold of every deployment.
THEOREM DeploymentInductive == DeploymentSpec => [](ThreadInv /\ BootInv)
<1>1. DeploymentInit => ThreadInv /\ BootInv  BY InitWorker, InitBoot DEF DeploymentInit
<1>2. ThreadInv /\ BootInv /\ [DeploymentNext]_Vars => (ThreadInv /\ BootInv)'
    BY StepWorker, KeepsBoot
<1> QED BY <1>1, <1>2, PTL DEF DeploymentSpec

\* Every reachable state of the two processes and their database is well typed.
THEOREM DeploymentTypeCorrect == DeploymentSpec => [](TypeOK /\ BootTypeOK)
<1>1. TypeOK /\ BootTypeOK /\ (ThreadInv /\ BootInv) /\ [DeploymentNext]_Vars => (TypeOK /\ BootTypeOK)'
    BY StepWorkerTyped, StepBootTyped
<1> QED BY InitTyped, <1>1, DeploymentInductive, PTL DEF DeploymentSpec

\* A recording outlives its worker only where the process ended before the
\* camera's frame loop, or its segment was launched after that loop's stop_all.
THEOREM OrphansOnlyByRace == DeploymentSpec => OrphanOnlyByRace
BY DeploymentInductive, OrphanStep, PTL DEF DeploymentSpec, OrphanOnlyByRace

\* The safety half of StopReachesAll: once the event is set, what has ended stays
\* ended, a record thread has at most three steps left and launches at most one
\* segment more (main.py 429-452, 485-489).
THEOREM StopIsFinal == DeploymentSpec => [][stop /\ stop' => Winding]_Vars
BY DeploymentInductive, StopStep, PTL DEF DeploymentSpec

\* So a worker that is quiet after a stop stays quiet until its process ends.
THEOREM QuietForGood == DeploymentSpec => [][stop /\ stop' /\ Quiet => Quiet']_Vars
<1>1. ThreadInv /\ [DeploymentNext]_Vars => (stop /\ stop' /\ Quiet => Quiet')
    <2> SUFFICES ASSUME ThreadInv, [DeploymentNext]_Vars, stop, stop', Quiet PROVE Quiet'
        OBVIOUS
    <2>1. Winding /\ ThreadInv'  BY StopStep, StepWorker
    <2>2. ASSUME NEW c \in Followed
          PROVE  Ended(c)' /\ recorder'[c] \in {"none", "done"} /\ c \notin ffmpeg'
        <3>1. StepsLeft(c) = 0 /\ recorder[c] \in {"none", "done"}
            BY DEF Quiet, Ended, StepsLeft
        <3>2. recorder'[c] \in Recorders  BY <2>1 DEF ThreadInv, ThreadInv
        <3>3. StepsLeft(c)' \in Nat  BY <3>2 DEF StepsLeft, Recorders
        <3>4. recorder'[c] = recorder[c]  BY <2>1, <3>1, <3>3 DEF Winding
        <3> QED BY <2>1, <3>1, <3>4 DEF Winding, Quiet
    <2> QED BY <2>1, <2>2 DEF Winding, Quiet
<1> QED BY <1>1, DeploymentInductive, PTL DEF DeploymentSpec

\* Whoever is up has a complete database under it: all tables and columns,
\* exactly this release's permissions, and an account unless operators removed
\* them all.  Two processes may have built it at once.
THEOREM UpIsComplete == DeploymentSpec => []UpComplete
<1>1. BootInv => UpComplete
    BY DEF BootInv, ProgressInv, GrantsInv, AccountsInv, UpComplete, Complete, At
<1> QED BY <1>1, DeploymentInductive, PTL

-----------------------------------------------------------------------------
(* Enrollment: the persons and what one camera copies of them. *)

\* Windows carry their own recognitions only.
Recorded ==
    \A t \in DOMAIN active :
        active[t].recognition # Nobody => <<t, active[t].recognition>> \in matched

EnrollmentInv == EnrollmentTypeOK /\ NothingNamesErased /\ EventsNameWhoWasSeen /\ Recorded

LEMMA EnrollmentConstants ==
    /\ Nobody \notin Person
    /\ Ttl \in Nat \ {0} /\ Interval \in Nat \ {0} /\ MergeGap \in Nat \ {0}
    /\ MaxEmbeddings \in Nat /\ MaxTracks \in Nat
BY EnrollmentAssumption

LEMMA InitEnrollmentInv == EnrollmentInit => EnrollmentInv
<1> SUFFICES ASSUME EnrollmentInit PROVE EnrollmentInv  OBVIOUS
<1>1. DOMAIN active = {}  BY DEF EnrollmentInit
<1>2. EnrollmentTypeOK
    <2>1. nextId \in 1..(MaxEmbeddings + 1) /\ age \in 0..(Ttl + 1) /\ tracks \in 0..MaxTracks
        BY EnrollmentConstants DEF EnrollmentInit
    <2>2. DOMAIN active \subseteq 1..tracks /\ \A t \in DOMAIN active : active[t] \in Window
        BY <1>1
    <2> QED BY <2>1, <2>2 DEF EnrollmentInit, EnrollmentTypeOK, Names
<1> QED BY <1>1, <1>2 DEF EnrollmentInit, EnrollmentInv, NothingNamesErased, EventsNameWhoWasSeen, Recorded

-----------------------------------------------------------------------------
(* A frame *)

\* The tracks a frame opens and sees, and its windows.
Opened(n) == (tracks + 1)..(tracks + n)
InFrame(n, again) == again \union Opened(n)
Windows(tick, n, again, who) == Seen(tick, InFrame(n, again), Opened(n), who)

\* What the windows of a frame are: typed, and each recognised as before, as
\* nobody when it is new, or as what this frame's recognition says.
LEMMA SeenWindows ==
    ASSUME EnrollmentTypeOK, NEW tick \in 0..1, NEW n \in 0..1, NEW again \in SUBSET DOMAIN active,
           NEW who, \A t \in DOMAIN who : who[t] \in Names
    PROVE  /\ DOMAIN Windows(tick, n, again, who) = DOMAIN active \union Opened(n)
           /\ \A t \in DOMAIN Windows(tick, n, again, who) :
                 LET w == Windows(tick, n, again, who)[t]
                 IN  /\ w \in Window
                     /\ t \in DOMAIN who => w.recognition = who[t]
                     /\ t \notin DOMAIN who /\ t \in Opened(n) => w.recognition = Nobody
                     /\ t \notin DOMAIN who /\ t \notin Opened(n) =>
                           w.recognition = active[t].recognition
<1> DEFINE a == Windows(tick, n, again, who)
           opened == Opened(n)
           seen == InFrame(n, again)
<1>0. a = Seen(tick, seen, opened, who)  BY DEF Windows
<1> HIDE DEF a, opened, seen
<1>1. DOMAIN a = DOMAIN active \union opened  BY <1>0 DEF Seen
<1>2. NewWindow \in Window /\ NewWindow.recognition = Nobody
    BY EnrollmentConstants DEF NewWindow, Window, Names
<1>3. ASSUME NEW w \in Window
      PROVE  Aged(w, tick) \in Window /\ Aged(w, tick).recognition = w.recognition
    BY <1>3, EnrollmentConstants DEF Aged, Window, AtMost
<1>4. ASSUME NEW w \in Window
      PROVE  [w EXCEPT !.unseen = 0] \in Window /\ [w EXCEPT !.unseen = 0].recognition = w.recognition
    BY <1>4, EnrollmentConstants DEF Window
<1>5. ASSUME NEW w \in Window, NEW person \in Names
      PROVE  Recognised(w, person) \in Window /\ Recognised(w, person).recognition = person
    BY <1>5, EnrollmentConstants DEF Recognised, Window
<1>6. ASSUME NEW t \in DOMAIN a
      PROVE  /\ a[t] \in Window
             /\ t \in DOMAIN who => a[t].recognition = who[t]
             /\ t \notin DOMAIN who /\ t \in opened => a[t].recognition = Nobody
             /\ t \notin DOMAIN who /\ t \notin opened =>
                   a[t].recognition = active[t].recognition
    <2> DEFINE w == IF t \in opened THEN NewWindow ELSE Aged(active[t], tick)
               v == IF t \in seen THEN [w EXCEPT !.unseen = 0] ELSE w
    <2>1. a[t] = IF t \in DOMAIN who THEN Recognised(v, who[t]) ELSE v
        BY <1>0, <1>1 DEF Seen
    <2>2. /\ w \in Window
          /\ w.recognition = IF t \in opened THEN Nobody ELSE active[t].recognition
        BY <1>1, <1>2, <1>3 DEF EnrollmentTypeOK
    <2> HIDE DEF w
    <2>3. v \in Window /\ v.recognition = w.recognition  BY <1>4, <2>2
    <2> HIDE DEF v
    <2> QED BY <1>5, <2>1, <2>2, <2>3
<1> QED BY <1>1, <1>6 DEF a, opened

\* The copy never holds anything but rows there were.
LEMMA RefreshTyped ==
    ASSUME EnrollmentTypeOK, NEW tick \in 0..1, Refresh(tick), UNCHANGED <<embeddings, nextId>>
    PROVE  /\ enrolled' \subseteq Embedding /\ newer' \subseteq embeddings
           /\ marked' \in BOOLEAN /\ age' \in 0..(Ttl + 1)
           /\ Known \subseteq Person
<1>1. age' \in 0..(Ttl + 1)  BY EnrollmentConstants DEF Refresh, AgeAfter, EnrollmentTypeOK
<1>2. /\ enrolled' \subseteq Embedding /\ newer' \subseteq embeddings /\ marked' \in BOOLEAN
    BY DEF Refresh, EnrollmentTypeOK
<1>3. Known \subseteq Person  BY <1>2 DEF Known, Embedding
<1> QED BY <1>1, <1>2, <1>3

LEMMA FrameKeeps == ASSUME EnrollmentInv, NEW tick \in 0..1, Frame(tick) PROVE EnrollmentInv'
<1>1. PICK n \in 0..1, again \in SUBSET DOMAIN active :
        LET opened == (tracks + 1)..(tracks + n)
            seen   == again \union opened
        IN  /\ tracks + n <= MaxTracks
            /\ Refresh(tick)
            /\ \E who \in [Due(tick, seen) -> Known \union {Nobody}] :
                 LET a == Seen(tick, seen, opened, who)
                 IN  /\ \/ Commit(a, Stale(a, seen))
                        \/ FinalizeRaises(a, Stale(a, seen))
                        \/ UpsertRaises(a, Stale(a, seen))
                     /\ matched' = matched \union {<<t, who[t]>> : t \in {u \in DOMAIN who : who[u] # Nobody}}
            /\ tracks' = tracks + n
            /\ thisSecond' = IF tick = 0 THEN thisSecond ELSE {}
            /\ UNCHANGED <<persons, erased, embeddings, nextId, upload>>
    BY DEF Frame
<1> DEFINE opened == Opened(n)
           seen   == InFrame(n, again)
<1>2. PICK who \in [Due(tick, seen) -> Known \union {Nobody}] :
        LET a == Seen(tick, seen, opened, who)
        IN  /\ \/ Commit(a, Stale(a, seen))
               \/ FinalizeRaises(a, Stale(a, seen))
               \/ UpsertRaises(a, Stale(a, seen))
            /\ matched' = matched \union {<<t, who[t]>> : t \in {u \in DOMAIN who : who[u] # Nobody}}
    BY <1>1 DEF Opened, InFrame
<1> DEFINE a == Windows(tick, n, again, who)
           stale == Stale(a, seen)
<1>t. EnrollmentTypeOK /\ NothingNamesErased /\ EventsNameWhoWasSeen /\ Recorded  BY DEF EnrollmentInv
<1>3. /\ tracks' = tracks + n /\ tracks' \in 0..MaxTracks /\ tracks \in 0..MaxTracks
      /\ opened \subseteq 1..tracks' /\ 1..tracks \subseteq 1..tracks'
    BY <1>1, <1>t, EnrollmentConstants DEF EnrollmentTypeOK, Opened
<1>4. /\ UNCHANGED <<persons, erased, embeddings, nextId, upload>>
      /\ thisSecond' \subseteq embeddings
    BY <1>1, <1>t DEF EnrollmentTypeOK
<1>5. /\ enrolled' \subseteq Embedding /\ newer' \subseteq embeddings
      /\ marked' \in BOOLEAN /\ age' \in 0..(Ttl + 1) /\ Known \subseteq Person
    BY <1>1, <1>t, RefreshTyped
<1>6. /\ DOMAIN who = Due(tick, seen) /\ DOMAIN who \subseteq seen
      /\ \A t \in DOMAIN who : who[t] \in Names
    BY <1>2, <1>5 DEF Due, Names, InFrame
<1>7. /\ DOMAIN a = DOMAIN active \union opened
      /\ \A t \in DOMAIN a :
            /\ a[t] \in Window
            /\ t \in DOMAIN who => a[t].recognition = who[t]
            /\ t \notin DOMAIN who /\ t \in opened => a[t].recognition = Nobody
            /\ t \notin DOMAIN who /\ t \notin opened =>
                  a[t].recognition = active[t].recognition
    <2>1. \A t \in DOMAIN who : who[t] \in Names  BY <1>6
    <2>2. DOMAIN Windows(tick, n, again, who) = DOMAIN active \union Opened(n)
        BY ONLY <1>t, <2>1, SeenWindows, tick \in 0..1, n \in 0..1, again \in SUBSET DOMAIN active
    <2>3. \A t \in DOMAIN Windows(tick, n, again, who) : Windows(tick, n, again, who)[t] \in Window
        BY <1>t, <2>1, SeenWindows
    <2> QED BY <1>t, <2>1, <2>2, <2>3, SeenWindows
<1>8. /\ matched' = matched \union {<<t, who[t]>> : t \in {u \in DOMAIN who : who[u] # Nobody}}
      /\ \/ Commit(a, stale)
         \/ FinalizeRaises(a, stale)
         \/ UpsertRaises(a, stale)
    BY <1>2 DEF Windows
<1>9. DOMAIN a \subseteq 1..tracks' /\ stale \subseteq DOMAIN a
    BY <1>3, <1>7, <1>t DEF EnrollmentTypeOK, Stale
<1>10. DOMAIN who \subseteq 1..tracks'  BY <1>3, <1>6, <1>t DEF EnrollmentTypeOK, InFrame
<1>11. \A t \in DOMAIN a : a[t] \in Window  BY <1>7
<1>12. \A t \in DOMAIN a : a[t].recognition # Nobody => <<t, a[t].recognition>> \in matched'
    BY <1>7, <1>8, <1>t DEF Recorded
<1>13. matched \subseteq matched' /\ matched' \subseteq (1..tracks') \X Person
    <2>1. \A t \in DOMAIN who : who[t] # Nobody => <<t, who[t]>> \in (1..tracks') \X Person
        BY <1>6, <1>10 DEF Names
    <2>2. matched \subseteq (1..tracks') \X Person  BY <1>3, <1>t DEF EnrollmentTypeOK
    <2> HIDE DEF a, stale, opened, seen
    <2> QED BY <1>8, <2>1, <2>2
<1> HIDE DEF a, stale, opened, seen
<1>14. PICK gone \in SUBSET DOMAIN a :
         /\ active' = Without(a, gone)
         /\ \/ UNCHANGED events
            \/ events' = events \union EventsOf(a, gone) /\ Unstorable(a) = {}
         /\ lost' \subseteq lost \union gone /\ failing' \in BOOLEAN
    <2>1. CASE Commit(a, stale)  BY <1>9, <1>t, <2>1 DEF Commit
    <2>2. CASE FinalizeRaises(a, stale)
        <3>1. PICK done \in SUBSET (stale \ Unstorable(a)) :
                active' = Without(a, done) /\ lost' = lost \union done
                /\ failing' = TRUE /\ UNCHANGED events
            BY <2>2 DEF FinalizeRaises
        <3> QED BY <1>9, <3>1
    <2>3. CASE UpsertRaises(a, stale)  BY <1>9, <2>3 DEF UpsertRaises
    <2> QED BY <1>8, <2>1, <2>2, <2>3
<1>15. /\ DOMAIN active' \subseteq DOMAIN a
       /\ \A t \in DOMAIN active' : active'[t] = a[t]
    BY <1>14 DEF Without
<1>16. \A e \in events' : \/ e \in events
                          \/ \E t \in DOMAIN a : /\ e = [track |-> t, identity |-> a[t].recognition]
                                                 /\ a[t].recognition \in persons \union {Nobody}
    BY <1>14 DEF EventsOf, Unstorable
<1>17. EnrollmentTypeOK'
    <2>1. DOMAIN active' \subseteq 1..tracks' /\ \A t \in DOMAIN active' : active'[t] \in Window
        BY <1>9, <1>11, <1>15
    <2>2. \A t \in DOMAIN a : a[t].recognition \in Names  BY <1>11 DEF Window
    <2>3. events' \subseteq [track : 1..tracks', identity : Names]
        BY <1>3, <1>9, <1>16, <1>t, <2>2 DEF EnrollmentTypeOK
    <2>4. lost' \subseteq 1..tracks'  BY <1>3, <1>9, <1>14, <1>t DEF EnrollmentTypeOK
    <2> QED BY <1>3, <1>4, <1>5, <1>13, <1>14, <1>t, <2>1, <2>3, <2>4 DEF EnrollmentTypeOK
<1>18. NothingNamesErased'
    BY <1>4, <1>16, <1>t DEF NothingNamesErased
<1>19. EventsNameWhoWasSeen'
    BY <1>12, <1>13, <1>16, <1>t DEF EventsNameWhoWasSeen
<1>20. Recorded'  BY <1>12, <1>15 DEF Recorded
<1> QED BY <1>17, <1>18, <1>19, <1>20 DEF EnrollmentInv

-----------------------------------------------------------------------------
(* The API *)

LEMMA UploadKeeps == EnrollmentInv /\ AddReferenceInsert => EnrollmentInv'
<1> SUFFICES ASSUME EnrollmentInv, AddReferenceInsert PROVE EnrollmentInv'  OBVIOUS
<1> DEFINE row == [id |-> nextId, person |-> upload]
<1>1. /\ upload \in persons /\ nextId <= MaxEmbeddings
      /\ embeddings' = embeddings \union {row} /\ nextId' = nextId + 1
      /\ thisSecond' = thisSecond \union {row}
      /\ newer' \subseteq newer \union {row} /\ upload' = Nobody
      /\ UNCHANGED <<persons, erased, enrolled, marked, age, camera>>
    BY DEF AddReferenceInsert, Insert
<1>2. row \in Embedding /\ row.person = upload
    BY <1>1, EnrollmentConstants DEF EnrollmentInv, EnrollmentTypeOK, Embedding
<1> HIDE DEF row
<1>3. EnrollmentTypeOK'  BY <1>1, <1>2, EnrollmentConstants DEF EnrollmentInv, EnrollmentTypeOK, camera, Names
<1>4. NothingNamesErased'  BY <1>1, <1>2 DEF EnrollmentInv, NothingNamesErased, camera
<1>5. EventsNameWhoWasSeen' /\ Recorded'
    BY <1>1 DEF EnrollmentInv, EventsNameWhoWasSeen, Recorded, camera
<1> QED BY <1>3, <1>4, <1>5 DEF EnrollmentInv

LEMMA DropKeeps ==
    ASSUME EnrollmentInv, NEW gone, Drop(gone), UNCHANGED <<persons, erased, nextId, upload, enrolled, marked, age, camera>>
    PROVE  EnrollmentInv'
<1>1. EnrollmentTypeOK'  BY DEF EnrollmentInv, EnrollmentTypeOK, Drop, camera
<1>2. NothingNamesErased'  BY DEF EnrollmentInv, NothingNamesErased, Drop, camera
<1>3. EventsNameWhoWasSeen' /\ Recorded'  BY DEF EnrollmentInv, EventsNameWhoWasSeen, Recorded, camera
<1> QED BY <1>1, <1>2, <1>3 DEF EnrollmentInv

LEMMA DeleteKeeps == ASSUME EnrollmentInv, NEW p \in Person, DeletePerson(p) PROVE EnrollmentInv'
<1>1. /\ p \in persons /\ persons' = persons \ {p} /\ erased' = erased \union {p}
      /\ embeddings' = embeddings \ {r \in embeddings : r.person = p}
      /\ thisSecond' = thisSecond \ {r \in embeddings : r.person = p}
      /\ newer' = newer \ {r \in embeddings : r.person = p}
      /\ UNCHANGED <<nextId, upload, enrolled, marked, age, active, tracks, lost, failing, matched>>
    BY DEF DeletePerson, Drop
<1>2. \A e \in events' : \E d \in events :
        /\ e.track = d.track /\ e \in [track : 1..tracks, identity : Names]
        /\ (e.identity = d.identity /\ e.identity # p) \/ e.identity = Nobody
    <2> SUFFICES ASSUME NEW d \in events
                 PROVE  LET e == IF d.identity = p THEN [d EXCEPT !.identity = Nobody] ELSE d
                        IN  /\ e.track = d.track /\ e \in [track : 1..tracks, identity : Names]
                            /\ (e.identity = d.identity /\ e.identity # p) \/ e.identity = Nobody
        BY DEF DeletePerson, ClearIdentity
    <2>1. d \in [track : 1..tracks, identity : Names] /\ Nobody \in Names
        BY DEF EnrollmentInv, EnrollmentTypeOK, Names
    <2>2. CASE d.identity = p
        <3>1. /\ [d EXCEPT !.identity = Nobody] \in [track : 1..tracks, identity : Names]
              /\ [d EXCEPT !.identity = Nobody].track = d.track
              /\ [d EXCEPT !.identity = Nobody].identity = Nobody
            BY <2>1
        <3> QED BY <2>2, <3>1
    <2>3. CASE d.identity # p  BY <2>1, <2>3
    <2> QED BY <2>2, <2>3
<1>3. EnrollmentTypeOK'  BY <1>1, <1>2 DEF EnrollmentInv, EnrollmentTypeOK
<1>4. NothingNamesErased'  BY <1>1, <1>2 DEF EnrollmentInv, NothingNamesErased
<1>5. EventsNameWhoWasSeen'  BY <1>1, <1>2 DEF EnrollmentInv, EventsNameWhoWasSeen
<1>6. Recorded'  BY <1>1 DEF EnrollmentInv, Recorded
<1> QED BY <1>3, <1>4, <1>5, <1>6 DEF EnrollmentInv

LEMMA StepEnrollmentInv == EnrollmentInv /\ [EnrollmentNext]_enrollmentVars => EnrollmentInv'
<1> SUFFICES ASSUME EnrollmentInv, [EnrollmentNext]_enrollmentVars PROVE EnrollmentInv'  OBVIOUS
<1> USE DEF EnrollmentInv, EnrollmentTypeOK, NothingNamesErased, EventsNameWhoWasSeen, Recorded
<1>1. CASE UNCHANGED enrollmentVars  BY <1>1 DEF enrollmentVars, store, cache, camera
<1>2. ASSUME NEW p \in Person, CreatePerson(p) PROVE EnrollmentInv'
    BY <1>2 DEF CreatePerson, cache, camera
<1>3. ASSUME NEW p \in Person, AddReferenceRead(p) PROVE EnrollmentInv'
    BY <1>3 DEF AddReferenceRead, store, cache, camera, Names
<1>4. CASE AddReferenceFails  BY <1>4 DEF AddReferenceFails, store, cache, camera, Names
<1> HIDE DEF EnrollmentInv
<1>5. CASE AddReferenceInsert  BY <1>5, UploadKeeps
<1>6. CASE SweepEmbeddings  BY <1>6, DropKeeps DEF SweepEmbeddings
<1>7. ASSUME NEW p \in Person, DeletePerson(p) PROVE EnrollmentInv'  BY <1>7, DeleteKeeps
<1>8. ASSUME NEW tick \in 0..1, Frame(tick) PROVE EnrollmentInv'  BY <1>8, FrameKeeps
<1> QED BY <1>1, <1>2, <1>3, <1>4, <1>5, <1>6, <1>7, <1>8 DEF EnrollmentNext

-----------------------------------------------------------------------------
(* The theorems *)

\* The inductive invariant: types, what is proved below, and that a window
\* is called only what it was recognised as.
THEOREM EnrollmentInductive == EnrollmentSpec => []EnrollmentInv
<1>1. EnrollmentInit => EnrollmentInv  BY InitEnrollmentInv
<1>2. EnrollmentInv /\ [EnrollmentNext]_enrollmentVars => EnrollmentInv'  BY StepEnrollmentInv
<1> QED BY <1>1, <1>2, PTL DEF EnrollmentSpec

\* References, copies, windows and events have the types the code gives them.
THEOREM EnrollmentTypeCorrect == EnrollmentSpec => []EnrollmentTypeOK
<1>1. EnrollmentInv => EnrollmentTypeOK  BY DEF EnrollmentInv
<1> QED BY <1>1, EnrollmentInductive, PTL

\* No reference and no event outlives the person it names, an upload or a
\* frame in progress included.
THEOREM ErasureReachesRows == EnrollmentSpec => []NothingNamesErased
<1>1. EnrollmentInv => NothingNamesErased  BY DEF EnrollmentInv
<1> QED BY <1>1, EnrollmentInductive, PTL

\* An event is never called by a name its own window was not recognised as.
THEOREM NamesAreSeen == EnrollmentSpec => []EventsNameWhoWasSeen
<1>1. EnrollmentInv => EventsNameWhoWasSeen  BY DEF EnrollmentInv
<1> QED BY <1>1, EnrollmentInductive, PTL

\* A deleted person's row does not come back under its id.
Departed == persons \intersect erased = {}

LEMMA StepDeparted == Departed /\ [EnrollmentNext]_enrollmentVars => Departed'
BY DEF Departed, EnrollmentNext, enrollmentVars, store, CreatePerson, AddReferenceRead, DeletePerson,
       AddReferenceInsert, AddReferenceFails, SweepEmbeddings, Frame

\* What a step does to the copy: it stays, or becomes what is stored.
LEMMA CopyMoves ==
    ASSUME [EnrollmentNext]_enrollmentVars
    PROVE  \/ UNCHANGED enrolled /\ newer \intersect embeddings' \subseteq newer'
           \/ enrolled' = embeddings
<1>1. ASSUME NEW tick \in 0..1, Frame(tick)
      PROVE  (UNCHANGED enrolled /\ newer' = newer) \/ enrolled' = embeddings
    <2>1. Refresh(tick)  BY <1>1 DEF Frame
    <2> QED BY <2>1 DEF Refresh
<1>2. CASE AddReferenceInsert  BY <1>2 DEF AddReferenceInsert, Insert
<1>3. CASE SweepEmbeddings  BY <1>3 DEF SweepEmbeddings, Drop
<1>4. ASSUME NEW p \in Person, DeletePerson(p)
      PROVE  UNCHANGED enrolled /\ newer \intersect embeddings' \subseteq newer'
    BY <1>4 DEF DeletePerson, Drop
<1>5. CASE UNCHANGED cache  BY <1>5 DEF cache
<1> QED BY <1>1, <1>2, <1>3, <1>4, <1>5
     DEF EnrollmentNext, enrollmentVars, CreatePerson, AddReferenceRead, AddReferenceFails

\* The safety half of CameraCatchesUp: a reference past the watermark stays
\* past it until the camera has copied it or it is removed, whatever uploads,
\* erasures and sweeps come in between (_refresh_enrolled).
THEOREM NewFacesWait ==
    EnrollmentSpec =>
      [][\A r \in newer \ newer' : r \in enrolled' \/ r \notin embeddings']_enrollmentVars
<1>1. EnrollmentInv /\ [EnrollmentNext]_enrollmentVars
      => [\A r \in newer \ newer' : r \in enrolled' \/ r \notin embeddings']_enrollmentVars
    BY CopyMoves DEF EnrollmentInv, EnrollmentTypeOK
<1> QED BY <1>1, EnrollmentInductive, PTL DEF EnrollmentSpec

\* A camera that has forgotten an erased person never learns that face again: no
\* upload under way and no copy taken later brings it back (persons.py 97-136).
THEOREM ForgottenForGood ==
    EnrollmentSpec => [][\A p \in erased : Copied(p)' => Copied(p)]_enrollmentVars
<1>1. EnrollmentInv /\ Departed /\ [EnrollmentNext]_enrollmentVars
      => [\A p \in erased : Copied(p)' => Copied(p)]_enrollmentVars
    BY CopyMoves DEF Copied, Departed, EnrollmentInv, NothingNamesErased
<1>2. EnrollmentInit => Departed  BY DEF EnrollmentInit, Departed
<1> QED BY <1>1, <1>2, StepDeparted, EnrollmentInductive, PTL DEF EnrollmentSpec

-----------------------------------------------------------------------------
(* The rule engine: types. *)

RuleKinds == {"line_cross", "intrusion", "loitering", "object_left", "crowd"}

LEMMA RuleFacts ==
    /\ \A i \in DOMAIN Rules :
          /\ Rules[i].kind \in RuleKinds /\ Rules[i].limit \in Int /\ Key(Rules[i]) \in Keys
          /\ Rules[i].kind = "crowd" => Rules[i].limit > 0
    /\ None \notin Places /\ None \notin Int
    /\ DOMAIN Rules \subseteq 1..Len(Specs) /\ Len(Specs) \in Nat
<1>1. \A i \in DOMAIN Rules : Rules[i].kind \in RuleKinds
  <2> SUFFICES ASSUME NEW i \in DOMAIN Rules PROVE Rules[i].kind \in RuleKinds
    OBVIOUS
  <2>1. WellFormed(Specs[i]) /\ Rules[i].kind = Specs[i].type
    BY DEF Rules, rule_from_dict
  <2> QED
    BY <2>1 DEF WellFormed, RuleKinds
<1>2. DOMAIN Rules \subseteq DOMAIN Specs
  BY DEF Rules
<1> QED
  BY <1>1, <1>2, RulesAssumption DEF Keys

EventKinds == RuleKinds \union {"object_removed"}

Entry == [since : Int \union {None}, fired : BOOLEAN]
Slots == [Keys -> [since : Int \union {None}, fired : SUBSET RuleKinds]]
TrackMem == [at : Places, of : Slots]
AnalyticEvent ==
    [rule : {Rules[i].id : i \in DOMAIN Rules}, track : Tracks \union {None},
     kind : EventKinds]
FrameRecord == [ts : Times, at : Scenes, out : SUBSET AnalyticEvent]

EngineTypeOK ==
    /\ DOMAIN mem \subseteq Tracks /\ \A t \in DOMAIN mem : mem[t] \in TrackMem
    /\ frames \in Seq(FrameRecord)

LEMMA SceneFacts ==
    ASSUME NEW at \in Scenes
    PROVE  DOMAIN at \subseteq Tracks /\ \A t \in DOMAIN at : at[t].centre \in Places
<1>1. PICK S \in SUBSET Tracks :
         at \in [S -> UNION {Sights[t] : t \in S}] /\ \A t \in S : at[t] \in Sights[t]
  BY DEF Scenes
<1> QED
  BY <1>1 DEF Places

\* What rule i keeps of track t.
Kept(t, i) == Found(Remembered(t).of, Rules[i])

LEMMA SlotsTyped ==
    ASSUME NEW of \in Slots, NEW i \in DOMAIN Rules
    PROVE  Found(of, Rules[i]) \in Entry
<1>1. of[Key(Rules[i])] \in [since : Int \union {None}, fired : SUBSET RuleKinds]
  BY RuleFacts DEF Slots
<1> QED
  BY <1>1 DEF Found, Entry

LEMMA FoundUnset ==
    ASSUME NEW of, NEW r, of[Key(r)].since = None, of[Key(r)].fired = {}
    PROVE  Found(of, r) = Unset
<1>0. r.kind \notin of[Key(r)].fired
  OBVIOUS
<1>1. (r.kind \in of[Key(r)].fired) = FALSE
  BY <1>0
<1> QED
  BY <1>1, Zenon DEF Found, Unset

LEMMA KeptTyped ==
    ASSUME EngineTypeOK, NEW t \in Tracks
    PROVE  /\ Remembered(t).of \in Slots
           /\ \A i \in DOMAIN Rules :
                 Kept(t, i) \in Entry /\ (t \notin DOMAIN mem => Kept(t, i) = Unset)
<1>1. Remembered(t).of \in Slots
  <2>1. CASE t \in DOMAIN mem
    BY <2>1 DEF EngineTypeOK, TrackMem, Remembered
  <2>2. CASE t \notin DOMAIN mem
    BY <2>2 DEF Remembered, Fresh, Slots
  <2> QED
    BY <2>1, <2>2
<1>2. ASSUME NEW i \in DOMAIN Rules, t \notin DOMAIN mem PROVE Kept(t, i) = Unset
  <2>1. Key(Rules[i]) \in Keys
    BY RuleFacts
  <2>2. Remembered(t).of[Key(Rules[i])] = [since |-> None, fired |-> {}]
    BY <1>2, <2>1 DEF Remembered, Fresh
  <2> QED
    BY <2>2, FoundUnset DEF Kept
<1> QED
  BY <1>1, <1>2, SlotsTyped DEF Kept

\* A rule finds what it has written, and what others write elsewhere leaves it.
LEMMA PutFound ==
    ASSUME NEW of \in Slots, NEW i \in DOMAIN Rules, NEW w \in Entry
    PROVE  /\ Put(of, Rules[i], w) \in Slots
           /\ Found(Put(of, Rules[i], w), Rules[i]) = w
           /\ \A j \in DOMAIN Rules : Key(Rules[j]) # Key(Rules[i]) =>
                 Found(Put(of, Rules[i], w), Rules[j]) = Found(of, Rules[j])
<1> DEFINE k == Key(Rules[i])
           others == of[k].fired \ {Rules[i].kind}
           slot == [since |-> w.since,
                    fired |-> IF w.fired THEN others \union {Rules[i].kind} ELSE others]
<1>1. k \in Keys /\ Rules[i].kind \in RuleKinds
  BY RuleFacts
<1>2. Put(of, Rules[i], w) = [of EXCEPT ![k] = slot]
  BY DEF Put
<1>3. of[k].fired \subseteq RuleKinds
  BY <1>1 DEF Slots
<1>4. slot \in [since : Int \union {None}, fired : SUBSET RuleKinds]
  BY <1>1, <1>3 DEF Entry
<1>5. Rules[i].kind \in slot.fired <=> w.fired
  OBVIOUS
<1>6. w = [since |-> w.since, fired |-> w.fired] /\ w.fired \in BOOLEAN
  BY DEF Entry
<1>7. [since |-> slot.since, fired |-> Rules[i].kind \in slot.fired] = w
  BY <1>5, <1>6
<1> HIDE DEF slot, k
<1>8. [of EXCEPT ![k] = slot] \in Slots
  BY <1>1, <1>4 DEF Slots
<1>9. [of EXCEPT ![k] = slot][k] = slot /\ \A l \in Keys : l # k => [of EXCEPT ![k] = slot][l] = of[l]
  BY <1>1 DEF Slots
<1>10. Found([of EXCEPT ![k] = slot], Rules[i]) = w
  BY <1>7, <1>9 DEF Found, k
<1>11. ASSUME NEW j \in DOMAIN Rules, Key(Rules[j]) # k
       PROVE  Found([of EXCEPT ![k] = slot], Rules[j]) = Found(of, Rules[j])
  <2>1. Key(Rules[j]) \in Keys
    BY RuleFacts
  <2>2. [of EXCEPT ![k] = slot][Key(Rules[j])] = of[Key(Rules[j])]
    BY <1>9, <1>11, <2>1
  <2> QED
    BY <2>2 DEF Found
<1> QED
  BY <1>2, <1>8, <1>10, <1>11 DEF k

LEMMA Answers ==
    \A w, e : /\ Silent(w).kept = w /\ Silent(w).out = {}
              /\ Fires(w, e).kept = w /\ Fires(w, e).out = {e}
BY DEF Silent, Fires

\* Inside its zone a rule keeps the time of entry, and fires once.
LEMMA ZoneOutcome ==
    ASSUME NEW r, r.limit \in Int, NEW t, NEW ts \in Int, NEW w \in Entry
    PROVE  /\ InZone(r, t, ts, w).kept \in Entry
           /\ InZone(r, t, ts, w).kept.since = Since(w, ts)
           /\ w.fired \/ ts - Since(w, ts) >= r.limit => InZone(r, t, ts, w).kept.fired = TRUE
           /\ ~(w.fired \/ ts - Since(w, ts) >= r.limit) => InZone(r, t, ts, w).kept.fired = FALSE
           /\ InZone(r, t, ts, w).out =
                 IF ~w.fired /\ ts - Since(w, ts) >= r.limit THEN {Event(r, t, r.kind)} ELSE {}
<1>1. Since(w, ts) \in Int /\ w.fired \in BOOLEAN
  BY DEF Since, Entry
<1>2. CASE ts - Since(w, ts) >= r.limit /\ ~w.fired
  <2>1. InZone(r, t, ts, w) = [kept |-> [since |-> Since(w, ts), fired |-> TRUE],
                               out |-> {Event(r, t, r.kind)}]
    BY <1>2 DEF InZone, Fires
  <2> QED
    BY <1>1, <1>2, <2>1 DEF Entry
<1>3. CASE ~(ts - Since(w, ts) >= r.limit /\ ~w.fired)
  <2>1. InZone(r, t, ts, w) = [kept |-> [w EXCEPT !.since = Since(w, ts)], out |-> {}]
    BY <1>3 DEF InZone, Silent
  <2>2. w = [since |-> w.since, fired |-> w.fired]
    BY DEF Entry
  <2>3. [w EXCEPT !.since = Since(w, ts)] = [since |-> Since(w, ts), fired |-> w.fired]
    BY <2>2
  <2> QED
    BY <1>1, <1>3, <2>1, <2>3 DEF Entry
<1> QED
  BY <1>2, <1>3

\* The types of the events of a rule, none of which a crowd's.
KindsOf(r) == IF r.kind = "object_left" THEN {"object_left", "object_removed"} ELSE {r.kind}
ReportsOf(r, t) == {Event(r, t, kind) : kind \in KindsOf(r)}

LEMMA AppliedTyped ==
    ASSUME NEW t, NEW i \in DOMAIN Rules, NEW s, NEW ts \in Int, NEW of \in Slots
    PROVE  /\ Applied(i, t, s, ts, of).kept \in Entry
           /\ Applied(i, t, s, ts, of).out \subseteq ReportsOf(Rules[i], t)
           /\ Rules[i].kind = "crowd" => Applied(i, t, s, ts, of).out = {}
<1> DEFINE r == Rules[i]
           w == Found(of, r)
           res == Applied(i, t, s, ts, of)
<1>0. w \in Entry /\ r.kind \in RuleKinds /\ r.limit \in Int
  BY SlotsTyped, RuleFacts
<1>1. CASE s.label \notin r.labels \/ r.kind = "crowd"
  <2>1. res = Silent(w)
    BY <1>1 DEF Applied, Eval
  <2>2. res.kept = w /\ res.out = {}
    BY <2>1 DEF Silent
  <2> QED
    BY <1>0, <2>2
<1>2. CASE s.label \in r.labels /\ r.kind = "line_cross"
  <2>1. res = EvalLine(r, t, Remembered(t).at, s.centre, w)
    BY <1>2 DEF Applied, Eval
  <2>2. res = Silent(w) \/ res = Fires([w EXCEPT !.fired = TRUE], Event(r, t, "line_cross"))
    BY <2>1 DEF EvalLine
  <2>3. [w EXCEPT !.fired = TRUE] \in Entry
    BY <1>0 DEF Entry
  <2>4. Event(r, t, "line_cross") \in ReportsOf(r, t)
    BY <1>2 DEF ReportsOf, KindsOf
  <2>5. res.kept \in Entry /\ res.out \subseteq ReportsOf(r, t)
    <3> HIDE DEF res, w, r
    <3> QED
      BY <1>0, <2>2, <2>3, <2>4, Answers
  <2> QED
    BY <1>2, <2>5
<1>3. CASE s.label \in r.labels /\ r.kind \in {"intrusion", "loitering", "object_left"}
  <2>1. \/ res = EvalDwell(r, t, s.centre, ts, w)
        \/ res = EvalLeft(r, t, s, ts, w) /\ r.kind = "object_left"
    BY <1>3 DEF Applied, Eval
  <2>2. \/ res = InZone(r, t, ts, w) \/ res = Silent(Unset)
        \/ /\ res = Fires([w EXCEPT !.fired = FALSE], Event(r, t, "object_removed"))
           /\ r.kind = "object_left"
    BY <2>1 DEF EvalDwell, EvalLeft
  <2>3. [w EXCEPT !.fired = FALSE] \in Entry /\ Unset \in Entry
    BY <1>0 DEF Entry, Unset
  <2>4. CASE res = InZone(r, t, ts, w)
    <3>1. InZone(r, t, ts, w).kept \in Entry
      BY <1>0, ZoneOutcome
    <3>2. InZone(r, t, ts, w).out \subseteq {Event(r, t, r.kind)}
      <4>1. InZone(r, t, ts, w).out =
                IF ~w.fired /\ ts - Since(w, ts) >= r.limit THEN {Event(r, t, r.kind)} ELSE {}
        BY <1>0, ZoneOutcome
      <4> QED
        BY <4>1
    <3>3. Event(r, t, r.kind) \in ReportsOf(r, t)
      BY DEF ReportsOf, KindsOf
    <3> QED
      BY <1>3, <2>4, <3>1, <3>2, <3>3
  <2>5. CASE res # InZone(r, t, ts, w)
    <3>1. r.kind = "object_left" => Event(r, t, "object_removed") \in ReportsOf(r, t)
      BY DEF ReportsOf, KindsOf
    <3>2. res.kept \in Entry /\ res.out \subseteq ReportsOf(r, t)
      <4> HIDE DEF res, w, r
      <4> QED
        BY <2>2, <2>3, <2>5, <3>1, Answers
    <3> QED
      BY <1>3, <3>2
  <2> QED
    BY <2>4, <2>5
<1> QED
  BY <1>0, <1>1, <1>2, <1>3 DEF RuleKinds

-----------------------------------------------------------------------------
(* The rule engine: the loop over the rules. *)

\* The least number principle, from which induction over the rules follows.
LEMMA LeastRule ==
    ASSUME NEW B \in SUBSET Nat, B # {}
    PROVE  \E m \in B : \A n \in B : m <= n
<1>1. IsWellFoundedOn(OpToRel(<, Nat), Nat)
  BY NatLessThanWellFounded
<1>2. PICK m \in B : \A n \in B : ~ (<<n, m>> \in OpToRel(<, Nat))
  BY <1>1, WFMin
<1>3. \A n \in B : <<n, m>> \in OpToRel(<, Nat) <=> n < m
  BY DEF OpToRel
<1>4. \A n \in B : ~(n < m)
  BY <1>2, <1>3, Zenon
<1> QED
  BY <1>4

\* The turns of the loop: done[n] is what the rules up to n have done.
TurnOf(done, n, t, s, ts) ==
    IF n = 0 THEN [of |-> Remembered(t).of, out |-> {}] ELSE Turn(n, t, s, ts, done[n - 1])
Turns(done, t, s, ts) == done = [n \in 0..Len(Specs) |-> TurnOf(done, n, t, s, ts)]

\* The recursion of Loop is well founded: there are turns.
LEMMA TurnsExist ==
    ASSUME NEW t, NEW s, NEW ts
    PROVE  \E done : Turns(done, t, s, ts)
<1> DEFINE Upto(n) == \E f : f = [i \in 0..n |-> TurnOf(f, i, t, s, ts)]
           Bad == {n \in Nat : ~Upto(n)}
<1>1. Upto(0)
  <2> DEFINE f == [i \in 0..0 |-> [of |-> Remembered(t).of, out |-> {}]]
  <2>1. \A i \in 0..0 : TurnOf(f, i, t, s, ts) = [of |-> Remembered(t).of, out |-> {}]
    BY DEF TurnOf
  <2>2. f = [i \in 0..0 |-> TurnOf(f, i, t, s, ts)]
    BY <2>1
  <2> QED
    BY <2>2
<1>2. ASSUME NEW n \in Nat, Upto(n) PROVE Upto(n + 1)
  <2>1. PICK f : f = [i \in 0..n |-> TurnOf(f, i, t, s, ts)]
    BY <1>2
  <2> DEFINE h == [i \in 0 .. n + 1 |-> TurnOf(f, i, t, s, ts)]
  <2>2. \A i \in 0..n : h[i] = f[i]
    <3>1. \A i \in 0..n : i \in 0 .. n + 1
      OBVIOUS
    <3>2. \A i \in 0..n : f[i] = TurnOf(f, i, t, s, ts)
      BY <2>1
    <3> QED
      BY <3>1, <3>2
  <2>3. ASSUME NEW i \in 0 .. n + 1 PROVE TurnOf(h, i, t, s, ts) = TurnOf(f, i, t, s, ts)
    <3>1. CASE i = 0
      BY <3>1 DEF TurnOf
    <3>2. CASE i # 0
      <4>1. i - 1 \in 0..n
        BY <3>2
      <4>2. h[i - 1] = f[i - 1]
        BY <2>2, <4>1
      <4> HIDE DEF h
      <4> QED
        BY <4>2 DEF TurnOf
    <3> QED
      BY <3>1, <3>2
  <2>4. h = [i \in 0 .. n + 1 |-> TurnOf(h, i, t, s, ts)]
    BY <2>3
  <2> QED
    BY <2>4
<1>3. \A n \in Nat : Upto(n)
  <2> HIDE DEF Upto
  <2> SUFFICES ASSUME Bad # {} PROVE FALSE
    OBVIOUS
  <2>1. PICK m \in Bad : \A n \in Bad : m <= n
    BY LeastRule
  <2>2. m # 0 /\ m \in Nat
    BY <1>1
  <2>3. m - 1 \in Nat /\ m - 1 \notin Bad
    BY <2>1, <2>2
  <2>4. Upto((m - 1) + 1)
    BY <1>2, <2>3
  <2>5. (m - 1) + 1 = m
    BY <2>2
  <2> QED
    BY <2>4, <2>5
<1> QED
  BY <1>3, RuleFacts DEF Turns

\* The answer of a rule that has its memory for itself, and what the turns up to
\* the n-th have done: nothing to the memory of a rule whose turn is to come, and
\* what it answered to that of one whose turn is over.
Answer(i, t, s, ts) == Applied(i, t, s, ts, Remembered(t).of)
OwnRule == {i \in DOMAIN Rules : Own(i)}

HasDone(d, n, t, s, ts) ==
    /\ d.of \in Slots
    /\ \A e \in d.out : \E j \in DOMAIN Rules : e \in ReportsOf(Rules[j], t) /\ Rules[j].kind # "crowd"
    /\ \A i \in OwnRule :
          /\ n < i => /\ Found(d.of, Rules[i]) = Kept(t, i)
                      /\ \A e \in ReportsOf(Rules[i], t) : e \notin d.out
          /\ i <= n => /\ Found(d.of, Rules[i]) = Answer(i, t, s, ts).kept
                       /\ \A e \in ReportsOf(Rules[i], t) : e \in d.out <=> e \in Answer(i, t, s, ts).out

\* Two rules that report the same have one key.
LEMMA EventsApart ==
    ASSUME NEW t, NEW i \in DOMAIN Rules, NEW j \in DOMAIN Rules,
           NEW e \in ReportsOf(Rules[i], t), e \in ReportsOf(Rules[j], t)
    PROVE  Key(Rules[i]) = Key(Rules[j])
<1>1. PICK k \in KindsOf(Rules[i]) : e = Event(Rules[i], t, k)
  BY DEF ReportsOf
<1>2. PICK l \in KindsOf(Rules[j]) : e = Event(Rules[j], t, l)
  BY DEF ReportsOf
<1>3. Rules[i].id = Rules[j].id /\ k = l
  BY <1>1, <1>2 DEF Event
<1>4. Rules[i].kind \in RuleKinds /\ Rules[j].kind \in RuleKinds
  BY RuleFacts
<1>5. Rules[i].kind = Rules[j].kind
  BY <1>3, <1>4 DEF KindsOf, RuleKinds
<1> QED
  BY <1>3, <1>5 DEF Key

\* What a rule does depends on what it finds only.
LEMMA SameFound ==
    ASSUME NEW i, NEW t, NEW s, NEW ts, NEW of, NEW of2, Found(of, Rules[i]) = Found(of2, Rules[i])
    PROVE  Applied(i, t, s, ts, of) = Applied(i, t, s, ts, of2)
BY DEF Applied

LEMMA NextTurn ==
    ASSUME NEW t, NEW s, NEW ts \in Int, NEW n \in 1..Len(Specs), NEW d,
           HasDone(d, n - 1, t, s, ts)
    PROVE  HasDone(Turn(n, t, s, ts, d), n, t, s, ts)
<1>0. n \in Nat /\ \A i \in OwnRule : i \in Nat /\ i \in DOMAIN Rules
  BY RuleFacts DEF OwnRule
<1>1. CASE n \notin DOMAIN Rules
  <2>1. Turn(n, t, s, ts, d) = d
    BY <1>1 DEF Turn
  <2>2. \A i \in OwnRule : (n < i <=> n - 1 < i) /\ (i <= n <=> i <= n - 1)
    BY <1>0, <1>1
  <2> QED
    BY <2>1, <2>2 DEF HasDone
<1>2. CASE n \in DOMAIN Rules
  <2> DEFINE res == Applied(n, t, s, ts, d.of)
             e2 == [of |-> Put(d.of, Rules[n], res.kept), out |-> d.out \union res.out]
  <2>1. Turn(n, t, s, ts, d) = e2
    BY <1>2 DEF Turn
  <2>2. d.of \in Slots
    BY DEF HasDone
  <2>3. /\ res.kept \in Entry /\ res.out \subseteq ReportsOf(Rules[n], t)
        /\ Rules[n].kind = "crowd" => res.out = {}
    BY <1>2, <2>2, AppliedTyped
  <2>4. /\ e2.of \in Slots /\ Found(e2.of, Rules[n]) = res.kept
        /\ \A j \in DOMAIN Rules : Key(Rules[j]) # Key(Rules[n]) =>
              Found(e2.of, Rules[j]) = Found(d.of, Rules[j])
    BY <1>2, <2>2, <2>3, PutFound
  <2>5. \A e \in e2.out : e \in d.out \/ e \in res.out
    OBVIOUS
  <2>6. \A e : e \in d.out \/ e \in res.out => e \in e2.out
    OBVIOUS
  <2> HIDE DEF res, e2
  <2>7. \A e \in e2.out : \E j \in DOMAIN Rules : e \in ReportsOf(Rules[j], t) /\ Rules[j].kind # "crowd"
    BY <1>2, <2>3, <2>5 DEF HasDone
  <2>8. ASSUME NEW i \in OwnRule, i # n
        PROVE  /\ Found(e2.of, Rules[i]) = Found(d.of, Rules[i])
               /\ \A e \in ReportsOf(Rules[i], t) : e \in e2.out <=> e \in d.out
    <3>1. Key(Rules[i]) # Key(Rules[n])
      BY <1>0, <1>2, <2>8 DEF OwnRule, Own
    <3>2. \A e \in ReportsOf(Rules[i], t) : e \notin res.out
      BY <1>0, <1>2, <2>3, <3>1, EventsApart
    <3> QED
      BY <1>0, <2>4, <2>5, <2>6, <3>1, <3>2
  <2>9. ASSUME n \in OwnRule
        PROVE  /\ Found(e2.of, Rules[n]) = Answer(n, t, s, ts).kept
               /\ \A e \in ReportsOf(Rules[n], t) : e \in e2.out <=> e \in Answer(n, t, s, ts).out
    <3>1. /\ Found(d.of, Rules[n]) = Kept(t, n)
          /\ \A e \in ReportsOf(Rules[n], t) : e \notin d.out
      BY <1>0, <2>9 DEF HasDone
    <3>2. res = Answer(n, t, s, ts)
      BY <3>1, SameFound DEF res, Answer, Kept
    <3> QED
      BY <2>4, <2>5, <2>6, <3>1, <3>2
  <2>10. ASSUME NEW i \in OwnRule
         PROVE  /\ n < i => /\ Found(e2.of, Rules[i]) = Kept(t, i)
                            /\ \A e \in ReportsOf(Rules[i], t) : e \notin e2.out
                /\ i <= n => /\ Found(e2.of, Rules[i]) = Answer(i, t, s, ts).kept
                             /\ \A e \in ReportsOf(Rules[i], t) :
                                   e \in e2.out <=> e \in Answer(i, t, s, ts).out
    <3>1. CASE i = n
      BY <1>0, <2>9, <3>1
    <3>2. CASE i # n
      <4>1. (n < i => n - 1 < i) /\ (i <= n => i <= n - 1)
        BY <1>0, <3>2
      <4> QED
        BY <2>8, <3>2, <4>1 DEF HasDone
    <3> QED
      BY <3>1, <3>2
  <2> QED
    BY <2>1, <2>4, <2>7, <2>10 DEF HasDone
<1> QED
  BY <1>1, <1>2

LEMMA LoopDone ==
    ASSUME EngineTypeOK, NEW t \in Tracks, NEW s, NEW ts \in Int
    PROVE  HasDone(Loop(t, s, ts), Len(Specs), t, s, ts)
<1> DEFINE done == CHOOSE d : Turns(d, t, s, ts)
           Bad == {n \in 0..Len(Specs) : ~HasDone(done[n], n, t, s, ts)}
<1>1. Turns(done, t, s, ts)
  BY TurnsExist
<1>2. Loop(t, s, ts) = done[Len(Specs)]
  BY Zenon DEF Loop, Turns, TurnOf
<1>3. Len(Specs) \in Nat /\ Bad \in SUBSET Nat
  BY RuleFacts
<1> HIDE DEF done
<1>4. /\ done[0] = [of |-> Remembered(t).of, out |-> {}]
      /\ \A n \in 1..Len(Specs) : done[n] = Turn(n, t, s, ts, done[n - 1])
  <2>1. \A n \in 0..Len(Specs) : done[n] = TurnOf(done, n, t, s, ts)
    BY <1>1 DEF Turns
  <2>2. 0 \in 0..Len(Specs) /\ \A n \in 1..Len(Specs) : n \in 0..Len(Specs) /\ n # 0
    BY <1>3
  <2> QED
    BY <2>1, <2>2 DEF TurnOf
<1>5. HasDone(done[0], 0, t, s, ts)
  <2>1. Remembered(t).of \in Slots
    BY KeptTyped
  <2>2. \A i \in OwnRule : i \in Nat /\ ~(i <= 0)
    BY RuleFacts DEF OwnRule
  <2> QED
    BY <1>4, <2>1, <2>2 DEF HasDone, Kept
<1>6. ASSUME Bad # {} PROVE FALSE
  <2>1. PICK m \in Bad : \A n \in Bad : m <= n
    BY <1>3, <1>6, LeastRule
  <2>2. m \in 0..Len(Specs) /\ m # 0 /\ ~HasDone(done[m], m, t, s, ts)
    BY <1>5, <2>1
  <2>3. m \in 1..Len(Specs) /\ m - 1 \in 0..Len(Specs) /\ ~(m <= m - 1)
    BY <1>3, <2>2
  <2>4. HasDone(done[m - 1], m - 1, t, s, ts)
    BY <2>1, <2>3
  <2> QED
    BY <1>4, <2>2, <2>3, <2>4, NextTurn
<1>7. HasDone(done[Len(Specs)], Len(Specs), t, s, ts)
  <2>1. Len(Specs) \in 0..Len(Specs)
    BY <1>3
  <2> QED
    BY <1>6, <2>1
<1> QED
  BY <1>2, <1>7

-----------------------------------------------------------------------------
(* The rule engine: the history of the frames. *)

\* A frame with time ts is appended as the last of n + 1.
Appended(n, ts) ==
    /\ n \in Nat /\ ts \in Times
    /\ DOMAIN frames = 1..n /\ DOMAIN frames' = 1..(n + 1)
    /\ \A k \in 1..n : frames'[k] = frames[k] /\ frames[k].ts \in Int /\ frames[k].ts <= ts
    /\ frames'[n + 1].ts = ts

\* A blank frame; a frame with tracks.
Blanked(n, ts) ==
    /\ Appended(n, ts) /\ mem' = mem /\ crowded' = crowded
    /\ frames'[n + 1] = [ts |-> ts, at |-> << >>, out |-> {}]

Tracked(n, ts, at) ==
    /\ Appended(n, ts) /\ at \in Scenes /\ DOMAIN at # {}
    /\ mem' = Memory(ts, at) /\ crowded' = CrowdFlags(at)
    /\ frames'[n + 1] = [ts |-> ts, at |-> at, out |-> TrackEvents(ts, at) \union CrowdEvents(at)]

LEMMA OldFrames ==
    ASSUME NEW n, NEW ts, Appended(n, ts), NEW k \in 1..n, NEW t, NEW r
    PROVE  /\ Present(k, t)' <=> Present(k, t)
           /\ Watched(k, t, r)' <=> Watched(k, t, r)
           /\ Blank(k)' <=> Blank(k)
           /\ Inside(k, t, r)' <=> Inside(k, t, r)
           /\ Outside(k, t, r)' <=> Outside(k, t, r)
           /\ \A kind : Fired(k, r, t, kind)' <=> Fired(k, r, t, kind)
<1>1. frames'[k] = frames[k]
  BY DEF Appended
<1> QED
  BY <1>1 DEF Present, Watched, Blank, Inside, Outside, Fired

LEMMA NotBoth == \A k, t, r : Inside(k, t, r) => ~Outside(k, t, r)
BY DEF Inside, Outside, Watched

LEMMA StayedOn ==
    ASSUME NEW n, NEW ts, Appended(n, ts), NEW t, NEW r
    PROVE  /\ \A k, j \in 1..n : Stayed(k, j, t, r)' <=> Stayed(k, j, t, r)
           /\ \A k \in 1..n : Stayed(k, n + 1, t, r)' <=>
                 Stayed(k, n, t, r) /\ ~Outside(n + 1, t, r)'
           /\ Stayed(n + 1, n + 1, t, r)' <=> Inside(n + 1, t, r)'
<1>0. n \in Nat
  BY DEF Appended
<1>1. \A k \in 1..n : (Inside(k, t, r)' <=> Inside(k, t, r)) /\ (Outside(k, t, r)' <=> Outside(k, t, r))
  BY OldFrames
<1>2. ASSUME NEW k \in 1..n, NEW j \in 1..n PROVE Stayed(k, j, t, r)' <=> Stayed(k, j, t, r)
  <2>1. k..j \subseteq 1..n
    BY <1>0
  <2> QED
    BY <1>1, <2>1 DEF Stayed
<1>3. ASSUME NEW k \in 1..n
      PROVE  Stayed(k, n + 1, t, r)' <=> Stayed(k, n, t, r) /\ ~Outside(n + 1, t, r)'
  <2>1. k..(n + 1) = k..n \union {n + 1} /\ k..n \subseteq 1..n
    BY <1>0
  <2> QED
    BY <1>1, <2>1 DEF Stayed
<1>4. (n + 1)..(n + 1) = {n + 1}
  BY <1>0
<1>5. Inside(n + 1, t, r)' => ~Outside(n + 1, t, r)'
  BY DEF Inside, Outside, Watched
<1>6. Stayed(n + 1, n + 1, t, r)' <=> Inside(n + 1, t, r)'
  BY <1>4, <1>5 DEF Stayed
<1> QED
  BY <1>2, <1>3, <1>6

\* Whose the events of a frame with tracks are.
LEMMA NewEvents ==
    ASSUME EngineTypeOK, NEW n, NEW ts, NEW at, Tracked(n, ts, at), NEW i \in OwnRule
    PROVE  /\ Rules[i].kind # "crowd" =>
                 \A t \in Tracks, kind \in KindsOf(Rules[i]) :
                    Fired(n + 1, Rules[i], t, kind)' <=>
                        /\ t \in DOMAIN at
                        /\ Event(Rules[i], t, kind) \in Answer(i, t, at[t], ts).out
           /\ Rules[i].kind = "crowd" =>
                 (Fired(n + 1, Rules[i], None, "crowd")' <=> Full(i, at) /\ ~FlagFound(i, at))
<1> DEFINE r == Rules[i]
<1>0. /\ ts \in Int /\ DOMAIN at \subseteq Tracks
      /\ i \in DOMAIN Rules /\ \A j \in DOMAIN Rules : Key(Rules[j]) = Key(r) => j = i
  <2>1. ts \in Int /\ at \in Scenes
    BY DEF Tracked, Appended, Times
  <2> QED
    BY <2>1, SceneFacts DEF OwnRule, Own
<1>1. \A k, t : Fired(n + 1, r, t, k)' <=>
               Event(r, t, k) \in TrackEvents(ts, at) \union CrowdEvents(at)
  BY DEF Fired, Tracked
<1>2. ASSUME NEW u \in DOMAIN at
      PROVE  /\ \A e \in Loop(u, at[u], ts).out :
                    \E j \in DOMAIN Rules : e \in ReportsOf(Rules[j], u) /\ Rules[j].kind # "crowd"
             /\ \A e \in ReportsOf(r, u) : e \in Loop(u, at[u], ts).out <=> e \in Answer(i, u, at[u], ts).out
  <2>1. HasDone(Loop(u, at[u], ts), Len(Specs), u, at[u], ts)
    BY <1>0, LoopDone
  <2>2. i <= Len(Specs)
    BY <1>0, RuleFacts
  <2> QED
    BY <2>1, <2>2 DEF HasDone
<1>3. ASSUME NEW u \in DOMAIN at, NEW e \in Loop(u, at[u], ts).out PROVE e.kind # "crowd" /\ e.track = u
  <2>1. PICK j \in DOMAIN Rules : e \in ReportsOf(Rules[j], u) /\ Rules[j].kind # "crowd"
    BY <1>2
  <2>2. PICK k \in KindsOf(Rules[j]) : e = Event(Rules[j], u, k)
    BY <2>1 DEF ReportsOf
  <2>3. k # "crowd"
    BY <2>1, <2>2 DEF KindsOf
  <2> QED
    BY <2>2, <2>3 DEF Event
<1>4. ASSUME NEW e \in CrowdEvents(at) PROVE e.kind = "crowd"
  BY DEF CrowdEvents, Event
<1>5. ASSUME r.kind # "crowd", NEW t \in Tracks, NEW kind \in KindsOf(r)
      PROVE  Fired(n + 1, r, t, kind)' <=>
                 t \in DOMAIN at /\ Event(r, t, kind) \in Answer(i, t, at[t], ts).out
  <2> DEFINE e == Event(r, t, kind)
  <2>1. e \in ReportsOf(r, t)
    BY DEF ReportsOf
  <2>2. e.kind # "crowd" /\ e.track = t
    BY <1>5 DEF Event, KindsOf
  <2> HIDE DEF e
  <2>3. e \notin CrowdEvents(at)
    BY <1>4, <2>2
  <2>4. e \in TrackEvents(ts, at) <=> \E u \in DOMAIN at : e \in Loop(u, at[u], ts).out
    BY DEF TrackEvents
  <2>5. e \in TrackEvents(ts, at) <=> t \in DOMAIN at /\ e \in Loop(t, at[t], ts).out
    BY <1>3, <2>2, <2>4
  <2>6. e \in TrackEvents(ts, at) <=> t \in DOMAIN at /\ e \in Answer(i, t, at[t], ts).out
    BY <1>2, <2>1, <2>5
  <2> QED
    BY <1>1, <2>3, <2>6 DEF e
<1>6. ASSUME r.kind = "crowd"
      PROVE  Fired(n + 1, r, None, "crowd")' <=> Full(i, at) /\ ~FlagFound(i, at)
  <2> DEFINE e == Event(r, None, "crowd")
  <2>1. e.kind = "crowd" /\ e.rule = r.id
    BY DEF Event
  <2>2. i \in CrowdRules
    BY <1>0, <1>6 DEF CrowdRules
  <2>3. ASSUME NEW j \in CrowdRules, Rules[j].id = r.id PROVE j = i
    BY <1>0, <1>6, <2>3 DEF CrowdRules, Key
  <2>4. Full(i, at) /\ ~FlagFound(i, at) => e \in CrowdEvents(at)
    BY <2>2 DEF CrowdEvents
  <2>5. ASSUME e \in CrowdEvents(at) PROVE Full(i, at) /\ ~FlagFound(i, at)
    <3>1. PICK j \in CrowdRules : Full(j, at) /\ ~FlagFound(j, at) /\ e = Event(Rules[j], None, "crowd")
      BY <2>5 DEF CrowdEvents
    <3>2. Rules[j].id = r.id
      BY <2>1, <3>1 DEF Event
    <3> QED
      BY <2>3, <3>1, <3>2
  <2> HIDE DEF e
  <2>6. e \notin TrackEvents(ts, at)
    <3>1. SUFFICES ASSUME e \in TrackEvents(ts, at) PROVE FALSE
      OBVIOUS
    <3>2. PICK u \in DOMAIN at : e \in Loop(u, at[u], ts).out
      BY <3>1 DEF TrackEvents
    <3> QED
      BY <1>3, <2>1, <3>2
  <2> QED
    BY <1>1, <2>4, <2>5, <2>6 DEF e
<1> QED
  BY <1>5, <1>6

-----------------------------------------------------------------------------
(* The rule engine: what it remembers of the frames, rule by rule. *)

OfKind(kinds) == {i \in OwnRule : Rules[i].kind \in kinds}
Dwelling == OfKind({"intrusion", "loitering"})
Zoned == OfKind({"intrusion", "loitering", "object_left"})
Last == Len(frames)

ClockInv == \A k \in DOMAIN frames : frames[k].ts <= Now

\* The centre remembered of a track is that of the latest frame with tracks.
SeenInv ==
    \A t \in DOMAIN mem : \E k \in 1..Last :
        /\ Present(k, t) /\ frames[k].at[t].centre = mem[t].at
        /\ \A l \in (k + 1)..Last : Blank(l)

\* The time of entry is that of a frame since which the track has stayed, and
\* of the first one.
SinceInv(i, t) ==
    /\ Kept(t, i).since # None =>
          \E k \in 1..Last : frames[k].ts = Kept(t, i).since /\ Stayed(k, Last, t, Rules[i])
    /\ \A k \in 1..Last :
          Stayed(k, Last, t, Rules[i]) =>
              Kept(t, i).since # None /\ Kept(t, i).since <= frames[k].ts

\* The flag says whether the rule has fired in this stay.
FiredInv(i, t) ==
    /\ Kept(t, i).fired =>
          \E k \in 1..Last : Fired(k, Rules[i], t, Rules[i].kind) /\ Stayed(k, Last, t, Rules[i])
    /\ ~Kept(t, i).fired =>
          \A k \in 1..Last : Fired(k, Rules[i], t, Rules[i].kind) => ~Stayed(k, Last, t, Rules[i])

LEMMA OwnFacts ==
    \A i \in OwnRule : /\ i \in DOMAIN Rules /\ Rules[i].kind \in RuleKinds /\ Rules[i].limit \in Int
                       /\ Rules[i].kind \in KindsOf(Rules[i])
BY RuleFacts DEF OwnRule, KindsOf

LEMMA MemoryKept ==
    ASSUME EngineTypeOK, NEW t \in Tracks, NEW i \in OwnRule, NEW n, NEW ts
    PROVE  /\ Blanked(n, ts) => Kept(t, i)' = Kept(t, i)
           /\ \A at : Tracked(n, ts, at) =>
                 Kept(t, i)' = IF t \in DOMAIN at THEN Answer(i, t, at[t], ts).kept ELSE Unset
<1>1. ASSUME Blanked(n, ts) PROVE Kept(t, i)' = Kept(t, i)
  BY <1>1 DEF Blanked, Kept, Remembered
<1>2. ASSUME NEW at, Tracked(n, ts, at), t \in DOMAIN at
      PROVE  Kept(t, i)' = Answer(i, t, at[t], ts).kept
  <2>1. mem' = Memory(ts, at) /\ ts \in Int
    BY <1>2 DEF Tracked, Appended, Times
  <2>2. t \in DOMAIN mem' /\ mem'[t].of = Loop(t, at[t], ts).of
    BY <1>2, <2>1 DEF Memory
  <2>3. HasDone(Loop(t, at[t], ts), Len(Specs), t, at[t], ts) /\ i <= Len(Specs)
    BY <2>1, LoopDone, OwnFacts, RuleFacts
  <2>4. Found(Loop(t, at[t], ts).of, Rules[i]) = Answer(i, t, at[t], ts).kept
    BY <2>3 DEF HasDone
  <2>5. Kept(t, i)' = Found(mem'[t].of, Rules[i])
    BY <2>2 DEF Kept, Remembered
  <2> QED
    BY <2>2, <2>4, <2>5
<1>3. ASSUME NEW at, Tracked(n, ts, at), t \notin DOMAIN at
      PROVE  Kept(t, i)' = Unset
  <2>1. DOMAIN mem' = DOMAIN at
    BY <1>3 DEF Tracked, Memory
  <2>2. Kept(t, i)' = Found(Fresh.of, Rules[i]) /\ Key(Rules[i]) \in Keys
    BY <1>3, <2>1, OwnFacts, RuleFacts DEF Kept, Remembered
  <2>3. Fresh.of[Key(Rules[i])] = [since |-> None, fired |-> {}]
    BY <2>2 DEF Fresh
  <2> QED
    BY <2>2, <2>3, FoundUnset
<1> QED
  BY <1>1, <1>2, <1>3

LEMMA ZoneApplied ==
    ASSUME EngineTypeOK, NEW i \in Zoned, NEW t \in Tracks,
           NEW s, s.label \in Rules[i].labels, s.centre \in Rules[i].zone, NEW ts \in Int
    PROVE  /\ Answer(i, t, s, ts).kept.since = Since(Kept(t, i), ts)
           /\ Answer(i, t, s, ts).kept.fired <=>
                 Kept(t, i).fired \/ ts - Since(Kept(t, i), ts) >= Rules[i].limit
           /\ Event(Rules[i], t, Rules[i].kind) \in Answer(i, t, s, ts).out <=>
                 ~Kept(t, i).fired /\ ts - Since(Kept(t, i), ts) >= Rules[i].limit
<1> DEFINE r == Rules[i]
           w == Kept(t, i)
           res == Answer(i, t, s, ts)
<1>1. i \in DOMAIN Rules /\ r.kind \in {"intrusion", "loitering", "object_left"}
  BY DEF Zoned, OfKind, OwnRule
<1>2. w \in Entry
  BY <1>1, KeptTyped
<1>3. r.limit \in Int
  BY <1>1, RuleFacts
<1>4. res = InZone(r, t, ts, w)
  BY <1>1 DEF Answer, Applied, Eval, EvalDwell, EvalLeft, Kept
<1> HIDE DEF r, w, res
<1>5. res.kept.since = Since(w, ts)
  <2>1. InZone(r, t, ts, w).kept.since = Since(w, ts)
    BY <1>2, <1>3 DEF InZone, Fires, Silent, Entry
  <2> QED
    BY <1>4, <2>1
<1>6. w.fired \/ ts - Since(w, ts) >= r.limit => res.kept.fired = TRUE
  BY <1>2, <1>3, <1>4, ZoneOutcome
<1>7. ~(w.fired \/ ts - Since(w, ts) >= r.limit) => res.kept.fired = FALSE
  BY <1>2, <1>3, <1>4, ZoneOutcome
<1>8. res.out = IF ~w.fired /\ ts - Since(w, ts) >= r.limit THEN {Event(r, t, r.kind)} ELSE {}
  BY <1>2, <1>3, <1>4, ZoneOutcome
<1>9. Event(r, t, r.kind) \in res.out <=> ~w.fired /\ ts - Since(w, ts) >= r.limit
  BY <1>8
<1> QED
  BY <1>5, <1>6, <1>7, <1>9 DEF r, w, res

\* What a frame does to the memory a zone keeps of a track.
LEMMA ZonedStep ==
    ASSUME EngineTypeOK, NEW n, NEW ts,
           Blanked(n, ts) \/ \E at : Tracked(n, ts, at),
           NEW i \in Zoned, NEW t \in Tracks
    PROVE  \/ /\ ~Inside(n + 1, t, Rules[i])' /\ ~Outside(n + 1, t, Rules[i])'
              /\ Kept(t, i)' = Kept(t, i)
              /\ ~Fired(n + 1, Rules[i], t, Rules[i].kind)'
           \/ /\ ~Inside(n + 1, t, Rules[i])' /\ Outside(n + 1, t, Rules[i])'
              /\ ~Kept(t, i)'.fired /\ (i \in Dwelling => Kept(t, i)'.since = None)
              /\ ~Fired(n + 1, Rules[i], t, Rules[i].kind)'
           \/ /\ Inside(n + 1, t, Rules[i])' /\ ~Outside(n + 1, t, Rules[i])'
              /\ Kept(t, i)'.since = Since(Kept(t, i), ts)
              /\ Kept(t, i)'.fired <=>
                    Kept(t, i).fired \/ ts - Since(Kept(t, i), ts) >= Rules[i].limit
              /\ Fired(n + 1, Rules[i], t, Rules[i].kind)' <=>
                    ~Kept(t, i).fired /\ ts - Since(Kept(t, i), ts) >= Rules[i].limit
<1> DEFINE r == Rules[i]
           w == Kept(t, i)
<1>0. /\ i \in OwnRule /\ r.kind \in {"intrusion", "loitering", "object_left"}
      /\ r.kind \in KindsOf(r) /\ r.kind # "crowd" /\ w \in Entry /\ r.limit \in Int
  <2>1. i \in OwnRule /\ r.kind \in {"intrusion", "loitering", "object_left"}
    BY DEF Zoned, OfKind
  <2> QED
    BY <2>1, OwnFacts, KeptTyped
<1>1. CASE Blanked(n, ts)
  <2>1. Kept(t, i)' = w
    BY <1>0, <1>1, MemoryKept
  <2>2. DOMAIN frames'[n + 1].at = {} /\ frames'[n + 1].out = {}
    BY <1>1 DEF Blanked
  <2> QED
    BY <2>1, <2>2 DEF Blank, Inside, Outside, Watched, Present, Fired
<1>2. ASSUME NEW at, Tracked(n, ts, at), t \notin DOMAIN at
      PROVE  /\ Outside(n + 1, t, r)' /\ ~Inside(n + 1, t, r)'
             /\ ~Kept(t, i)'.fired /\ Kept(t, i)'.since = None /\ ~Fired(n + 1, r, t, r.kind)'
  <2>1. Kept(t, i)' = Unset
    BY <1>0, <1>2, MemoryKept
  <2>2. ~Fired(n + 1, r, t, r.kind)'
    BY <1>0, <1>2, NewEvents
  <2>3. frames'[n + 1].at = at /\ DOMAIN at # {}
    BY <1>2 DEF Tracked
  <2> QED
    BY <1>2, <2>1, <2>2, <2>3 DEF Blank, Inside, Outside, Watched, Present, Unset
<1>3. ASSUME NEW at, Tracked(n, ts, at), t \in DOMAIN at
      PROVE  \/ /\ ~Inside(n + 1, t, r)' /\ Outside(n + 1, t, r)'
                /\ ~Kept(t, i)'.fired /\ (i \in Dwelling => Kept(t, i)'.since = None)
                /\ ~Fired(n + 1, r, t, r.kind)'
             \/ /\ ~Inside(n + 1, t, r)' /\ ~Outside(n + 1, t, r)'
                /\ Kept(t, i)' = w /\ ~Fired(n + 1, r, t, r.kind)'
             \/ /\ Inside(n + 1, t, r)' /\ ~Outside(n + 1, t, r)'
                /\ Kept(t, i)'.since = Since(w, ts)
                /\ Kept(t, i)'.fired <=> w.fired \/ ts - Since(w, ts) >= r.limit
                /\ Fired(n + 1, r, t, r.kind)' <=> ~w.fired /\ ts - Since(w, ts) >= r.limit
  <2> DEFINE res == Answer(i, t, at[t], ts)
  <2>0. ts \in Int
    BY <1>3 DEF Tracked, Appended, Times
  <2>1. Kept(t, i)' = res.kept
    BY <1>0, <1>3, MemoryKept
  <2>2. Fired(n + 1, r, t, r.kind)' <=> Event(r, t, r.kind) \in res.out
    BY <1>0, <1>3, NewEvents
  <2>3. /\ Inside(n + 1, t, r)' <=> at[t].label \in r.labels /\ at[t].centre \in r.zone
        /\ Outside(n + 1, t, r)' <=> at[t].label \in r.labels /\ at[t].centre \notin r.zone
    <3>1. frames'[n + 1].at = at
      BY <1>3 DEF Tracked
    <3> QED
      BY <1>3, <3>1 DEF Blank, Inside, Outside, Watched, Present
  <2>4. CASE at[t].label \notin r.labels
    <3>1. res = Silent(w)
      BY <1>0, <2>4 DEF Answer, Applied, Kept
    <3>2. res.kept = w /\ res.out = {}
      BY <3>1, Answers
    <3> QED
      BY <2>1, <2>2, <2>3, <2>4, <3>1, <3>2
  <2>5. CASE at[t].label \in r.labels /\ at[t].centre \in r.zone
    <3>1. /\ res.kept.since = Since(w, ts)
          /\ res.kept.fired <=> w.fired \/ ts - Since(w, ts) >= r.limit
      BY <2>0, <2>5, ZoneApplied
    <3>2. Event(r, t, r.kind) \in res.out <=> ~w.fired /\ ts - Since(w, ts) >= r.limit
      BY <2>0, <2>5, ZoneApplied
    <3> QED
      BY <2>1, <2>2, <2>3, <2>5, <3>1, <3>2
  <2>6. CASE at[t].label \in r.labels /\ at[t].centre \notin r.zone
    <3>1. CASE r.kind = "object_left" /\ w.fired /\ at[t].label # "person"
      <4>1. res = Fires([w EXCEPT !.fired = FALSE], Event(r, t, "object_removed"))
        BY <2>6, <3>1 DEF Answer, Applied, Eval, EvalLeft, Kept
      <4>2. [w EXCEPT !.fired = FALSE].fired = FALSE
        BY <1>0 DEF Entry
      <4>3. res.kept.fired = FALSE /\ res.out = {Event(r, t, "object_removed")}
        <5> HIDE DEF res, w, r
        <5> QED
          BY <4>1, <4>2, Answers
      <4>4. Event(r, t, r.kind) # Event(r, t, "object_removed") /\ i \notin Dwelling
        BY <3>1 DEF Event, Dwelling, OfKind
      <4> QED
        BY <2>1, <2>2, <2>3, <2>6, <4>3, <4>4
    <3>2. CASE ~(r.kind = "object_left" /\ w.fired /\ at[t].label # "person")
      <4>1. res = Silent(Unset)
        BY <1>0, <2>6, <3>2 DEF Answer, Applied, Eval, EvalDwell, EvalLeft, Kept
      <4>2. res.kept = Unset /\ res.out = {}
        BY <4>1, Answers
      <4> QED
        BY <2>1, <2>2, <2>3, <2>6, <4>2 DEF Unset
    <3> QED
      BY <3>1, <3>2
  <2> QED
    BY <2>4, <2>5, <2>6
<1> QED
  BY <1>1, <1>2, <1>3

-----------------------------------------------------------------------------
(* The rule engine: each part of the invariant over one frame. *)

\* A frame arrives, after all others.
LEMMA EngineStep ==
    ASSUME EngineTypeOK, ClockInv, EngineNext
    PROVE  \E n, ts : /\ n = Last /\ Last' = n + 1
                      /\ ts = Now' /\ frames' \in Seq(FrameRecord)
                      /\ Blanked(n, ts) \/ \E at : Tracked(n, ts, at)
<1>1. PICK ts \in Times :
          /\ Now < ts
          /\ NotEvaluated(ts) \/ \E at \in Scenes : Evaluate(ts, at)
  BY DEF EngineNext
<1> DEFINE n == Len(frames)
<1>2. /\ frames \in Seq(FrameRecord) /\ n \in Nat /\ DOMAIN frames = 1..n
      /\ \A k \in 1..n : frames[k] \in FrameRecord /\ frames[k].ts \in Int
  <2>1. frames \in Seq(FrameRecord) /\ n \in Nat /\ DOMAIN frames = 1..n
    BY DEF EngineTypeOK
  <2>2. \A k \in 1..n : frames[k] \in FrameRecord
    BY <2>1
  <2>3. \A f \in FrameRecord : f.ts \in Int
    BY RulesAssumption DEF FrameRecord, Times
  <2> QED
    BY <2>1, <2>2, <2>3
<1>3. ts \in Int /\ Now \in Int
  <2>1. ts \in Int
    BY RulesAssumption DEF Times
  <2>2. CASE frames = << >>
    BY <2>1, <2>2 DEF Now
  <2>3. CASE frames # << >>
    <3>1. n \in 1..n
      BY <1>2, <2>3
    <3> QED
      BY <1>2, <2>1, <2>3, <3>1 DEF Now
  <2> QED
    BY <2>1, <2>2, <2>3
<1>4. \A k \in 1..n : frames[k].ts <= ts
  BY <1>1, <1>2, <1>3 DEF ClockInv
<1>5. ASSUME NEW f \in FrameRecord, f.ts = ts, frames' = Append(frames, f)
      PROVE  /\ Appended(n, ts) /\ frames'[n + 1] = f /\ Last' = n + 1 /\ ts = Now'
             /\ frames' \in Seq(FrameRecord)
  <2>1. /\ Len(frames') = n + 1 /\ DOMAIN frames' = 1..(n + 1)
        /\ \A k \in 1..n : frames'[k] = frames[k]
        /\ frames'[n + 1] = f /\ frames' \in Seq(FrameRecord)
    BY <1>2, <1>5
  <2>2. frames' # << >>
    BY <1>2, <2>1
  <2> QED
    BY <1>1, <1>2, <1>4, <1>5, <2>1, <2>2 DEF Appended, Last, Now
<1>6. CASE NotEvaluated(ts)
  <2> DEFINE f == [ts |-> ts, at |-> << >>, out |-> {}]
  <2>1. << >> \in Scenes
    <3>1. << >> \in [{} -> UNION {Sights[t] : t \in {}}]
      OBVIOUS
    <3>2. {} \in SUBSET Tracks
      OBVIOUS
    <3> QED
      BY <3>1, <3>2 DEF Scenes
  <2>2. f \in FrameRecord /\ f.ts = ts
    BY <1>1, <2>1 DEF FrameRecord
  <2>3. frames' = Append(frames, f) /\ mem' = mem /\ crowded' = crowded
    BY <1>6 DEF NotEvaluated
  <2> HIDE DEF f
  <2>4. /\ Appended(n, ts) /\ frames'[n + 1] = f /\ Last' = n + 1 /\ ts = Now'
        /\ frames' \in Seq(FrameRecord)
    BY <1>5, <2>2, <2>3
  <2>5. Blanked(n, ts)
    BY <2>3, <2>4 DEF Blanked, f
  <2> QED
    BY <2>2, <2>4, <2>5 DEF Last
<1>7. ASSUME NEW at \in Scenes, Evaluate(ts, at)
      PROVE  /\ Tracked(n, ts, at) /\ Last' = n + 1 /\ ts = Now' /\ frames' \in Seq(FrameRecord)
  <2> DEFINE f == [ts |-> ts, at |-> at, out |-> TrackEvents(ts, at) \union CrowdEvents(at)]
  <2>1. TrackEvents(ts, at) \union CrowdEvents(at) \in SUBSET AnalyticEvent
    <3>1. \A e \in CrowdEvents(at) : e \in AnalyticEvent
      <4>1. ASSUME NEW q \in CrowdRules PROVE Event(Rules[q], None, "crowd") \in AnalyticEvent
        BY DEF CrowdRules, Event, AnalyticEvent, EventKinds, RuleKinds
      <4> QED
        BY <4>1 DEF CrowdEvents
    <3>2. ASSUME NEW t \in DOMAIN at, NEW e \in Loop(t, at[t], ts).out
          PROVE  e \in AnalyticEvent
      <4>1. t \in Tracks
        BY SceneFacts
      <4>2. PICK i \in DOMAIN Rules : e \in ReportsOf(Rules[i], t)
        BY <1>3, <4>1, LoopDone DEF HasDone
      <4>3. PICK kind \in KindsOf(Rules[i]) : e = Event(Rules[i], t, kind)
        BY <4>2 DEF ReportsOf
      <4>4. kind \in EventKinds
        BY RuleFacts DEF KindsOf, EventKinds
      <4> QED
        BY <4>1, <4>3, <4>4 DEF AnalyticEvent, Event
    <3>3. TrackEvents(ts, at) \subseteq AnalyticEvent
      BY <3>2 DEF TrackEvents
    <3> QED
      BY <3>1, <3>3
  <2>2. f \in FrameRecord /\ f.ts = ts
    BY <1>1, <2>1 DEF FrameRecord
  <2>3. frames' = Append(frames, f)
    BY <1>7 DEF Evaluate
  <2> HIDE DEF f
  <2>4. /\ Appended(n, ts) /\ frames'[n + 1] = f /\ Last' = n + 1 /\ ts = Now'
        /\ frames' \in Seq(FrameRecord)
    BY <1>5, <2>2, <2>3
  <2>5. Tracked(n, ts, at)
    BY <1>7, <2>4 DEF Tracked, Evaluate, f
  <2> QED
    BY <2>2, <2>4, <2>5
<1>8. CASE ~NotEvaluated(ts)
  <2>1. PICK at \in Scenes : Evaluate(ts, at)
    BY <1>1, <1>8
  <2> QED
    BY <1>7, <2>1 DEF Last
<1> QED
  BY <1>6, <1>8

LEMMA StepTyped ==
    ASSUME EngineTypeOK, ClockInv, EngineNext
    PROVE  EngineTypeOK' /\ ClockInv'
<1>1. PICK n, ts : /\ n = Last /\ Last' = n + 1
                   /\ ts = Now' /\ frames' \in Seq(FrameRecord)
                   /\ Blanked(n, ts) \/ \E at : Tracked(n, ts, at)
  BY EngineStep
<1>2. Appended(n, ts)
  BY <1>1 DEF Blanked, Tracked
<1>3. \A k \in DOMAIN frames' : frames'[k].ts <= Now'
  <2>1. \A k \in 1..n : frames'[k].ts <= ts
    BY <1>2 DEF Appended
  <2>2. frames'[n + 1].ts = ts /\ DOMAIN frames' = 1..(n + 1) /\ n \in Nat /\ ts \in Int
    BY <1>2, RulesAssumption DEF Appended, Times
  <2> QED
    BY <1>1, <2>1, <2>2
<1>4. CASE Blanked(n, ts)
  BY <1>1, <1>3, <1>4 DEF Blanked, EngineTypeOK, ClockInv
<1>5. ASSUME NEW at, Tracked(n, ts, at) PROVE EngineTypeOK'
  <2>1. mem' = Memory(ts, at) /\ at \in Scenes /\ ts \in Int
    BY <1>5, RulesAssumption DEF Tracked, Appended, Times
  <2>2. DOMAIN mem' = DOMAIN at /\ DOMAIN at \subseteq Tracks
    BY <2>1, SceneFacts DEF Memory
  <2>3. ASSUME NEW t \in DOMAIN at PROVE mem'[t] \in TrackMem
    <3>1. mem'[t] = [at |-> at[t].centre, of |-> Loop(t, at[t], ts).of]
      BY <2>1, <2>3 DEF Memory
    <3>2. at[t].centre \in Places
      BY <2>1, <2>3, SceneFacts
    <3>3. Loop(t, at[t], ts).of \in Slots
      BY <2>1, <2>2, <2>3, LoopDone DEF HasDone
    <3> QED
      BY <3>1, <3>2, <3>3 DEF TrackMem
  <2> QED
    BY <1>1, <2>2, <2>3 DEF EngineTypeOK
<1> QED
  BY <1>1, <1>3, <1>4, <1>5 DEF ClockInv

LEMMA StepSeen ==
    ASSUME EngineTypeOK, SeenInv, NEW n, n = Last, Last' = n + 1, NEW ts,
           Blanked(n, ts) \/ \E at : Tracked(n, ts, at)
    PROVE  SeenInv'
<1>1. Appended(n, ts)
  BY DEF Blanked, Tracked
<1>2. n \in Nat
  BY <1>1 DEF Appended
<1>3. CASE Blanked(n, ts)
  <2> SUFFICES ASSUME NEW t \in DOMAIN mem
               PROVE  \E k \in 1..(n + 1) :
                          /\ Present(k, t)' /\ frames'[k].at[t].centre = mem[t].at
                          /\ \A l \in (k + 1)..(n + 1) : Blank(l)'
    BY <1>3 DEF SeenInv, Blanked
  <2>1. PICK k \in 1..n : /\ Present(k, t) /\ frames[k].at[t].centre = mem[t].at
                          /\ \A l \in (k + 1)..n : Blank(l)
    BY DEF SeenInv
  <2>2. Present(k, t)' /\ frames'[k].at[t].centre = mem[t].at
    BY <1>1, <2>1, OldFrames DEF Appended
  <2>3. Blank(n + 1)'
    BY <1>3 DEF Blanked, Blank
  <2>4. \A l \in (k + 1)..n : l \in 1..n
    BY <1>2
  <2>5. \A l \in (k + 1)..n : Blank(l)'
    BY <1>1, <2>1, <2>4, OldFrames
  <2>6. (k + 1)..(n + 1) = (k + 1)..n \union {n + 1} /\ k \in 1..(n + 1)
    BY <1>2
  <2> QED
    BY <2>2, <2>3, <2>5, <2>6
<1>4. ASSUME NEW at, Tracked(n, ts, at), NEW t \in DOMAIN mem'
      PROVE  \E k \in 1..(n + 1) :
                 /\ Present(k, t)' /\ frames'[k].at[t].centre = mem'[t].at
                 /\ \A l \in (k + 1)..(n + 1) : Blank(l)'
  <2>1. t \in DOMAIN at /\ mem'[t].at = at[t].centre
    BY <1>4 DEF Tracked, Memory
  <2>2. frames'[n + 1].at = at
    BY <1>4 DEF Tracked
  <2>3. n + 1 \in 1..(n + 1) /\ (n + 1 + 1)..(n + 1) = {}
    BY <1>2
  <2> QED
    BY <2>1, <2>2, <2>3 DEF Present
<1> QED
  BY <1>3, <1>4 DEF SeenInv

LEMMA EntriesBefore ==
    ASSUME EngineTypeOK, NEW n, NEW ts, Appended(n, ts), NEW i \in OwnRule, NEW t \in Tracks,
           n = Last, SinceInv(i, t)
    PROVE  /\ Since(Kept(t, i), ts) \in Int /\ Since(Kept(t, i), ts) <= ts
           /\ Kept(t, i).since # None => Since(Kept(t, i), ts) = Kept(t, i).since
           /\ Kept(t, i).since = None => Since(Kept(t, i), ts) = ts
           /\ None # ts /\ ts \in Int /\ None # Since(Kept(t, i), ts)
<1>1. ts \in Int /\ None \notin Int
  BY RulesAssumption DEF Appended, Times
<1>2. Kept(t, i).since \in Int \union {None}
  <2>1. Kept(t, i) \in Entry
    BY KeptTyped, OwnFacts
  <2> QED
    BY <2>1 DEF Entry
<1>3. ASSUME Kept(t, i).since # None PROVE Kept(t, i).since <= ts
  <2>1. PICK k \in 1..n : frames[k].ts = Kept(t, i).since
    BY <1>3 DEF SinceInv
  <2> QED
    BY <2>1 DEF Appended
<1> QED
  BY <1>1, <1>2, <1>3 DEF Since

LEMMA StepSince ==
    ASSUME EngineTypeOK, NEW n, NEW ts, n = Last, Last' = n + 1,
           Blanked(n, ts) \/ \E at : Tracked(n, ts, at),
           NEW i \in Dwelling, NEW t \in Tracks, SinceInv(i, t)
    PROVE  SinceInv(i, t)'
<1> DEFINE r == Rules[i]
           w == Kept(t, i)
<1>0. i \in Zoned /\ i \in OwnRule
  BY DEF Dwelling, Zoned, OfKind
<1>1. Appended(n, ts)
  BY DEF Blanked, Tracked
<1>2. /\ n \in Nat /\ DOMAIN frames' = 1..(n + 1) /\ frames'[n + 1].ts = ts
      /\ \A k \in 1..n : frames'[k].ts = frames[k].ts /\ frames[k].ts \in Int /\ frames[k].ts <= ts
  BY <1>1 DEF Appended
<1>3. /\ \A k \in 1..n : Stayed(k, n + 1, t, r)' <=>
                 Stayed(k, n, t, r) /\ ~Outside(n + 1, t, r)'
      /\ Stayed(n + 1, n + 1, t, r)' <=> Inside(n + 1, t, r)'
  BY <1>1, StayedOn
<1>4. /\ Since(w, ts) \in Int /\ Since(w, ts) <= ts
      /\ w.since # None => Since(w, ts) = w.since
      /\ w.since = None => Since(w, ts) = ts
      /\ None # ts /\ ts \in Int /\ None # Since(w, ts)
  BY <1>0, <1>1, EntriesBefore
<1>5. /\ w.since # None => \E k \in 1..n : frames[k].ts = w.since /\ Stayed(k, n, t, r)
      /\ \A k \in 1..n : Stayed(k, n, t, r) =>
             w.since # None /\ w.since <= frames[k].ts
  BY DEF SinceInv
<1>6. \A k \in 1..(n + 1) : k \in 1..n \/ k = n + 1
  BY <1>2
<1>7. n + 1 \in 1..(n + 1) /\ \A k \in 1..n : k \in 1..(n + 1)
  BY <1>2
<1> HIDE DEF r, w
<1> SUFFICES
      /\ Kept(t, i)'.since # None =>
            \E k \in 1..(n + 1) : frames'[k].ts = Kept(t, i)'.since /\ Stayed(k, n + 1, t, r)'
      /\ \A k \in 1..(n + 1) : Stayed(k, n + 1, t, r)' =>
            Kept(t, i)'.since # None /\ Kept(t, i)'.since <= frames'[k].ts
  BY DEF SinceInv, r
<1>8. CASE ~Inside(n + 1, t, r)' /\ ~Outside(n + 1, t, r)' /\ Kept(t, i)' = w
  BY <1>2, <1>3, <1>5, <1>6, <1>7, <1>8
<1>9. CASE ~Inside(n + 1, t, r)' /\ Outside(n + 1, t, r)' /\ Kept(t, i)'.since = None
  BY <1>3, <1>6, <1>9
<1>10. CASE Inside(n + 1, t, r)' /\ ~Outside(n + 1, t, r)' /\ Kept(t, i)'.since = Since(w, ts)
  <2>1. CASE w.since # None
    <3>1. PICK k \in 1..n : frames[k].ts = w.since /\ Stayed(k, n, t, r)
      BY <1>5, <2>1
    <3>2. frames'[k].ts = Kept(t, i)'.since /\ Stayed(k, n + 1, t, r)'
      BY <1>2, <1>3, <1>4, <1>10, <2>1, <3>1
    <3>3. \A l \in 1..n : Stayed(l, n + 1, t, r)' => Kept(t, i)'.since <= frames'[l].ts
      BY <1>2, <1>3, <1>4, <1>5, <1>10, <2>1
    <3>4. Kept(t, i)'.since <= frames'[n + 1].ts /\ Kept(t, i)'.since # None
      BY <1>2, <1>4, <1>10
    <3> QED
      BY <1>6, <1>7, <3>2, <3>3, <3>4
  <2>2. CASE w.since = None
    <3>1. frames'[n + 1].ts = Kept(t, i)'.since /\ Stayed(n + 1, n + 1, t, r)'
      BY <1>2, <1>3, <1>4, <1>10, <2>2
    <3>2. \A l \in 1..n : ~Stayed(l, n + 1, t, r)'
      BY <1>3, <1>5, <1>10, <2>2
    <3>3. Kept(t, i)'.since # None /\ Kept(t, i)'.since <= frames'[n + 1].ts
      BY <1>2, <1>4, <1>10
    <3> QED
      BY <1>6, <1>7, <3>1, <3>2, <3>3
  <2> QED
    BY <2>1, <2>2
<1> QED
  <2>1. \/ ~Inside(n + 1, t, r)' /\ ~Outside(n + 1, t, r)' /\ Kept(t, i)' = w
        \/ ~Inside(n + 1, t, r)' /\ Outside(n + 1, t, r)' /\ Kept(t, i)'.since = None
        \/ Inside(n + 1, t, r)' /\ ~Outside(n + 1, t, r)' /\ Kept(t, i)'.since = Since(w, ts)
    BY <1>0, ZonedStep DEF r, w
  <2> QED
    BY <2>1, <1>8, <1>9, <1>10

LEMMA StepFired ==
    ASSUME EngineTypeOK, NEW n, NEW ts, n = Last, Last' = n + 1,
           Blanked(n, ts) \/ \E at : Tracked(n, ts, at),
           NEW i \in Zoned, NEW t \in Tracks, FiredInv(i, t)
    PROVE  FiredInv(i, t)'
<1> DEFINE r == Rules[i]
           w == Kept(t, i)
<1>1. Appended(n, ts) /\ n \in Nat
  BY DEF Blanked, Tracked, Appended
<1>2. \A k \in 1..n : Fired(k, r, t, r.kind)' <=> Fired(k, r, t, r.kind)
  BY <1>1, OldFrames
<1>3. /\ \A k \in 1..n : Stayed(k, n + 1, t, r)' <=>
                 Stayed(k, n, t, r) /\ ~Outside(n + 1, t, r)'
      /\ Stayed(n + 1, n + 1, t, r)' <=> Inside(n + 1, t, r)'
  BY <1>1, StayedOn
<1>5. /\ w.fired => \E k \in 1..n : Fired(k, r, t, r.kind) /\ Stayed(k, n, t, r)
      /\ ~w.fired => \A k \in 1..n : Fired(k, r, t, r.kind) => ~Stayed(k, n, t, r)
  BY DEF FiredInv
<1>6. \A k \in 1..(n + 1) : k \in 1..n \/ k = n + 1
  BY <1>1
<1>7. n + 1 \in 1..(n + 1) /\ \A k \in 1..n : k \in 1..(n + 1)
  BY <1>1
<1> DEFINE old == ts - Since(w, ts) >= r.limit
<1>8. \/ /\ ~Inside(n + 1, t, r)' /\ ~Outside(n + 1, t, r)' /\ Kept(t, i)' = w
         /\ ~Fired(n + 1, r, t, r.kind)'
      \/ ~Inside(n + 1, t, r)' /\ Outside(n + 1, t, r)' /\ ~Kept(t, i)'.fired
      \/ /\ Inside(n + 1, t, r)' /\ ~Outside(n + 1, t, r)'
         /\ Kept(t, i)'.fired <=> w.fired \/ old
         /\ Fired(n + 1, r, t, r.kind)' <=> ~w.fired /\ old
  BY ZonedStep
<1> HIDE DEF r, w, old
<1> SUFFICES
      /\ Kept(t, i)'.fired =>
            \E k \in 1..(n + 1) : Fired(k, r, t, r.kind)' /\ Stayed(k, n + 1, t, r)'
      /\ ~Kept(t, i)'.fired =>
            \A k \in 1..(n + 1) : Fired(k, r, t, r.kind)' => ~Stayed(k, n + 1, t, r)'
  BY DEF FiredInv, r
<1>9. CASE /\ ~Inside(n + 1, t, r)' /\ ~Outside(n + 1, t, r)' /\ Kept(t, i)' = w
           /\ ~Fired(n + 1, r, t, r.kind)'
  BY <1>2, <1>3, <1>5, <1>6, <1>7, <1>9
<1>10. CASE ~Inside(n + 1, t, r)' /\ Outside(n + 1, t, r)' /\ ~Kept(t, i)'.fired
  BY <1>3, <1>6, <1>10
<1>11. CASE /\ Inside(n + 1, t, r)' /\ ~Outside(n + 1, t, r)'
            /\ Kept(t, i)'.fired <=> w.fired \/ old
            /\ Fired(n + 1, r, t, r.kind)' <=> ~w.fired /\ old
  BY <1>2, <1>3, <1>5, <1>6, <1>7, <1>11
<1> QED
  BY <1>8, <1>9, <1>10, <1>11

-----------------------------------------------------------------------------
(* The rule engine: what its events say of the frames, rule by rule. *)

Lines == OfKind({"line_cross"})
Left == OfKind({"object_left"})

\* A dwell event is of a stay as long as the limit; a stay has one; and a stay
\* as long as the limit has one.
DwellInv(i, t) ==
    \A j \in 1..Last :
        /\ Fired(j, Rules[i], t, Rules[i].kind) =>
              /\ Inside(j, t, Rules[i])
              /\ \E k \in 1..j :
                    Stayed(k, j, t, Rules[i]) /\ frames[j].ts - frames[k].ts >= Rules[i].limit
        /\ \A k \in 1..(j - 1) :
              Fired(k, Rules[i], t, Rules[i].kind) /\ Fired(j, Rules[i], t, Rules[i].kind) =>
                  ~Stayed(k, j, t, Rules[i])
        /\ \A k \in 1..j :
              /\ Stayed(k, j, t, Rules[i])
              /\ Inside(j, t, Rules[i])
              /\ frames[j].ts - frames[k].ts >= Rules[i].limit
              => \E l \in 1..j : Fired(l, Rules[i], t, Rules[i].kind) /\ Stayed(l, j, t, Rules[i])

RemovedInv(i, t) ==
    \A j \in 1..Last :
        Fired(j, Rules[i], t, "object_removed") =>
            /\ Present(j, t) /\ Outside(j, t, Rules[i])
            /\ \E k \in 1..(j - 1) :
                  Fired(k, Rules[i], t, "object_left") /\ Stayed(k, j - 1, t, Rules[i])

\* The flag of a tripwire is reset when its track leaves the view only.
LineInv(i, t) ==
    ~Kept(t, i).fired =>
        \A k \in 1..Last : Fired(k, Rules[i], t, "line_cross") =>
            \E l \in k..Last : ~Blank(l) /\ ~Present(l, t)

CrossingInv(i, t) ==
    \A j \in 1..Last :
        Fired(j, Rules[i], t, "line_cross") =>
            \E k \in 1..(j - 1) :
                /\ Present(k, t) /\ Watched(j, t, Rules[i])
                /\ \A l \in (k + 1)..(j - 1) : Blank(l)
                /\ Crosses(Rules[i], frames[k].at[t].centre, frames[j].at[t].centre)
                /\ \A m \in 1..k : Fired(m, Rules[i], t, "line_cross") =>
                      \E l \in m..k : ~Blank(l) /\ ~Present(l, t)

LEMMA StepDwell ==
    ASSUME EngineTypeOK, NEW n, NEW ts, n = Last, Last' = n + 1,
           Blanked(n, ts) \/ \E at : Tracked(n, ts, at),
           NEW i \in Dwelling, NEW t \in Tracks, FiredInv(i, t), FiredInv(i, t)', SinceInv(i, t)',
           DwellInv(i, t)
    PROVE  DwellInv(i, t)'
<1> DEFINE r == Rules[i]
           w == Kept(t, i)
           v == Kept(t, i)'
           F(k) == Fired(k, r, t, r.kind)
<1>0. /\ i \in Zoned /\ i \in OwnRule /\ i \in DOMAIN Rules /\ r.limit \in Int
      /\ ts \in Int /\ None \notin Int
  <2>1. i \in Zoned /\ i \in OwnRule /\ i \in DOMAIN Rules
    BY DEF Dwelling, Zoned, OfKind, OwnRule
  <2>2. ts \in Times
    BY DEF Blanked, Tracked, Appended
  <2>3. ts \in Int
    BY <2>2, RulesAssumption DEF Times
  <2> QED
    BY <2>1, <2>3, RuleFacts
<1>1. Appended(n, ts) /\ n \in Nat
  BY DEF Blanked, Tracked, Appended
<1>2. \A k \in 1..n : F(k)' <=> F(k)
  BY <1>1, OldFrames
<1>3. /\ \A k, j \in 1..n : Stayed(k, j, t, r)' <=> Stayed(k, j, t, r)
      /\ \A k \in 1..n : Stayed(k, n + 1, t, r)' => Stayed(k, n, t, r)
      /\ Stayed(n + 1, n + 1, t, r)' <=> Inside(n + 1, t, r)'
  BY <1>1, StayedOn
<1>4. \A k \in 1..n : frames'[k] = frames[k] /\ (Inside(k, t, r)' <=> Inside(k, t, r))
  BY <1>1, OldFrames DEF Appended
<1>5. frames'[n + 1].ts = ts /\ \A k \in 1..n : frames[k].ts \in Int
  BY <1>1 DEF Appended
<1>6. \A j \in 1..(n + 1) : j \in 1..n \/ j = n + 1
  BY <1>1
<1>7. \/ ~Inside(n + 1, t, r)' /\ ~F(n + 1)'
      \/ /\ Inside(n + 1, t, r)' /\ v.since = Since(w, ts)
         /\ v.fired <=> w.fired \/ ts - Since(w, ts) >= r.limit
         /\ F(n + 1)' <=> ~w.fired /\ ts - Since(w, ts) >= r.limit
  BY <1>0, ZonedStep
<1>8. /\ v.since # None => \E k \in 1..(n + 1) : frames'[k].ts = v.since /\ Stayed(k, n + 1, t, r)'
      /\ \A k \in 1..(n + 1) : Stayed(k, n + 1, t, r)' =>
             v.since # None /\ v.since <= frames'[k].ts
  BY DEF SinceInv
<1>9. ~w.fired => \A k \in 1..n : F(k) => ~Stayed(k, n, t, r)
  BY DEF FiredInv
<1>10. v.fired => \E k \in 1..(n + 1) : F(k)' /\ Stayed(k, n + 1, t, r)'
  BY DEF FiredInv
<1>11. ASSUME NEW j \in 1..n
       PROVE  /\ F(j)' => /\ Inside(j, t, r)'
                          /\ \E k \in 1..j : Stayed(k, j, t, r)' /\ frames'[j].ts - frames'[k].ts >= r.limit
              /\ \A k \in 1..(j - 1) : F(k)' /\ F(j)' => ~Stayed(k, j, t, r)'
              /\ \A k \in 1..j :
                    /\ Stayed(k, j, t, r)' /\ Inside(j, t, r)'
                    /\ frames'[j].ts - frames'[k].ts >= r.limit
                    => \E l \in 1..j : F(l)' /\ Stayed(l, j, t, r)'
  <2>1. 1..j \subseteq 1..n /\ 1..(j - 1) \subseteq 1..n /\ j \in 1..n
    BY <1>1
  <2>2. /\ F(j) => /\ Inside(j, t, r)
                   /\ \E k \in 1..j : Stayed(k, j, t, r) /\ frames[j].ts - frames[k].ts >= r.limit
        /\ \A k \in 1..(j - 1) : F(k) /\ F(j) => ~Stayed(k, j, t, r)
        /\ \A k \in 1..j :
              /\ Stayed(k, j, t, r) /\ Inside(j, t, r)
              /\ frames[j].ts - frames[k].ts >= r.limit
              => \E l \in 1..j : F(l) /\ Stayed(l, j, t, r)
    BY DEF DwellInv
  <2> HIDE DEF r, F
  <2>3. F(j)' => /\ Inside(j, t, r)'
                 /\ \E k \in 1..j : Stayed(k, j, t, r)' /\ frames'[j].ts - frames'[k].ts >= r.limit
    BY <1>2, <1>3, <1>4, <2>1, <2>2
  <2>4. \A k \in 1..(j - 1) : F(k)' /\ F(j)' => ~Stayed(k, j, t, r)'
    BY <1>2, <1>3, <2>1, <2>2
  <2>5. ASSUME NEW k \in 1..j, Stayed(k, j, t, r)', Inside(j, t, r)',
               frames'[j].ts - frames'[k].ts >= r.limit
        PROVE  \E l \in 1..j : F(l)' /\ Stayed(l, j, t, r)'
    BY <1>2, <1>3, <1>4, <2>1, <2>2, <2>5
  <2> QED
    BY <2>3, <2>4, <2>5
<1>12. ASSUME F(n + 1)'
       PROVE  /\ Inside(n + 1, t, r)'
              /\ \E k \in 1..(n + 1) :
                    Stayed(k, n + 1, t, r)' /\ frames'[n + 1].ts - frames'[k].ts >= r.limit
  <2>1. v.since = Since(w, ts) /\ ts - Since(w, ts) >= r.limit /\ Inside(n + 1, t, r)'
    BY <1>7, <1>12
  <2>2. v.since # None
    <3>1. CASE w.since = None
      BY <1>0, <2>1, <3>1 DEF Since
    <3>2. CASE w.since # None
      BY <2>1, <3>2 DEF Since
    <3> QED
      BY <3>1, <3>2
  <2> QED
    BY <1>5, <1>8, <2>1, <2>2
<1>13. \A k \in 1..n : F(k)' /\ F(n + 1)' => ~Stayed(k, n + 1, t, r)'
  BY <1>2, <1>3, <1>7, <1>9
<1>14. ASSUME NEW k \in 1..(n + 1), Stayed(k, n + 1, t, r)',
              Inside(n + 1, t, r)', frames'[n + 1].ts - frames'[k].ts >= r.limit
       PROVE  \E l \in 1..(n + 1) : F(l)' /\ Stayed(l, n + 1, t, r)'
  <2>1. /\ v.since = Since(w, ts) /\ v.since # None /\ v.since <= frames'[k].ts
        /\ v.fired <=> w.fired \/ ts - Since(w, ts) >= r.limit
    BY <1>7, <1>8, <1>14
  <2>2. frames'[k].ts \in Int
    BY <1>0, <1>4, <1>5, <1>6
  <2>3. v.since \in Int
    <3>1. w \in Entry
      BY <1>0, KeptTyped
    <3> QED
      BY <1>0, <2>1, <3>1 DEF Since, Entry
  <2>4. ts - v.since >= r.limit
    BY <1>0, <1>5, <1>14, <2>1, <2>2, <2>3
  <2> QED
    BY <1>10, <2>1, <2>4
<1>15. (n + 1) - 1 = n
  BY <1>1
<1> HIDE DEF r, v, w, F
<1> QED
  <2>1. \A j \in 1..(n + 1) :
           /\ F(j)' => /\ Inside(j, t, r)'
                       /\ \E k \in 1..j : Stayed(k, j, t, r)' /\ frames'[j].ts - frames'[k].ts >= r.limit
           /\ \A k \in 1..(j - 1) : F(k)' /\ F(j)' => ~Stayed(k, j, t, r)'
           /\ \A k \in 1..j :
                 /\ Stayed(k, j, t, r)' /\ Inside(j, t, r)'
                 /\ frames'[j].ts - frames'[k].ts >= r.limit
                 => \E l \in 1..j : F(l)' /\ Stayed(l, j, t, r)'
    BY <1>6, <1>11, <1>12, <1>13, <1>14, <1>15
  <2> QED
    BY <2>1 DEF DwellInv, r, F

LEMMA StepRemoved ==
    ASSUME EngineTypeOK, NEW n, NEW ts, n = Last, Last' = n + 1,
           Blanked(n, ts) \/ \E at : Tracked(n, ts, at),
           NEW i \in Left, NEW t \in Tracks, FiredInv(i, t), RemovedInv(i, t)
    PROVE  RemovedInv(i, t)'
<1> DEFINE r == Rules[i]
           w == Kept(t, i)
           R(k) == Fired(k, r, t, "object_removed")
<1>0. i \in OwnRule /\ r.kind = "object_left" /\ w \in Entry /\ "object_removed" \in KindsOf(r)
  <2>1. i \in OwnRule /\ r.kind = "object_left"
    BY DEF Left, OfKind
  <2> QED
    BY <2>1, KeptTyped, OwnFacts DEF KindsOf
<1>1. Appended(n, ts) /\ n \in Nat
  BY DEF Blanked, Tracked, Appended
<1>2. \A k \in 1..n : /\ R(k)' <=> R(k)
                      /\ Fired(k, r, t, "object_left")' <=> Fired(k, r, t, "object_left")
                      /\ Present(k, t)' <=> Present(k, t)
                      /\ Outside(k, t, r)' <=> Outside(k, t, r)
  BY <1>1, OldFrames
<1>3. \A k, j \in 1..n : Stayed(k, j, t, r)' <=> Stayed(k, j, t, r)
  BY <1>1, StayedOn
<1>4. ASSUME R(n + 1)' PROVE Present(n + 1, t)' /\ Outside(n + 1, t, r)' /\ w.fired
  <2>1. ~Blanked(n, ts)
    BY <1>4 DEF Blanked, Fired
  <2>2. PICK at : Tracked(n, ts, at)
    BY <2>1
  <2>3. t \in DOMAIN at /\ Event(r, t, "object_removed") \in Answer(i, t, at[t], ts).out
    BY <1>0, <1>4, <2>2, NewEvents
  <2>4. Present(n + 1, t)'
    BY <2>2, <2>3 DEF Tracked, Present
  <2> DEFINE res == Answer(i, t, at[t], ts)
  <2>5. \/ res = Silent(w) \/ res = Silent(Unset)
        \/ res = InZone(r, t, ts, w)
        \/ w.fired /\ at[t].label \in r.labels /\ at[t].centre \notin r.zone
    BY <1>0 DEF Answer, Applied, Eval, EvalLeft, Kept
  <2>6. Event(r, t, "object_removed") # Event(r, t, r.kind)
    BY <1>0 DEF Event
  <2>7. res # InZone(r, t, ts, w)
    <3>1. InZone(r, t, ts, w).out = {} \/ InZone(r, t, ts, w).out = {Event(r, t, r.kind)}
      BY Answers DEF InZone
    <3> QED
      BY <2>3, <2>6, <3>1
  <2>8. res # Silent(w) /\ res # Silent(Unset)
    BY <2>3, Answers
  <2>9. w.fired /\ at[t].label \in r.labels /\ at[t].centre \notin r.zone
    BY <2>5, <2>7, <2>8
  <2>10. Outside(n + 1, t, r)'
    <3>1. frames'[n + 1].at = at /\ DOMAIN at # {}
      BY <2>2 DEF Tracked
    <3> QED
      BY <2>3, <2>9, <3>1 DEF Outside, Watched, Present, Blank
  <2> QED
    BY <2>4, <2>9, <2>10
<1>5. w.fired => \E k \in 1..n : Fired(k, r, t, "object_left") /\ Stayed(k, n, t, r)
  BY <1>0 DEF FiredInv
<1>6. \A j \in 1..(n + 1) : j \in 1..n \/ j = n + 1
  BY <1>1
<1>7. ASSUME NEW j \in 1..n, R(j)'
      PROVE  /\ Present(j, t)' /\ Outside(j, t, r)'
             /\ \E k \in 1..(j - 1) : Fired(k, r, t, "object_left")' /\ Stayed(k, j - 1, t, r)'
  <2>1. /\ Present(j, t) /\ Outside(j, t, r)
        /\ \E k \in 1..(j - 1) : Fired(k, r, t, "object_left") /\ Stayed(k, j - 1, t, r)
    BY <1>2, <1>7 DEF RemovedInv
  <2>2. PICK k \in 1..(j - 1) : Fired(k, r, t, "object_left") /\ Stayed(k, j - 1, t, r)
    BY <2>1
  <2>3. k \in 1..n /\ j - 1 \in 1..n
    BY <1>1
  <2> QED
    BY <1>2, <1>3, <2>1, <2>2, <2>3
<1>8. ASSUME R(n + 1)'
      PROVE  /\ Present(n + 1, t)' /\ Outside(n + 1, t, r)'
             /\ \E k \in 1..n : Fired(k, r, t, "object_left")' /\ Stayed(k, n, t, r)'
  <2>1. PICK k \in 1..n : Fired(k, r, t, "object_left") /\ Stayed(k, n, t, r)
    BY <1>4, <1>5, <1>8
  <2>2. n \in 1..n
    BY <1>1, <2>1
  <2> QED
    BY <1>2, <1>3, <1>4, <1>8, <2>1, <2>2
<1>9. (n + 1) - 1 = n
  BY <1>1
<1> HIDE DEF r, w
<1> QED
  <2>1. \A j \in 1..(n + 1) :
           R(j)' => /\ Present(j, t)' /\ Outside(j, t, r)'
                    /\ \E k \in 1..(j - 1) : Fired(k, r, t, "object_left")' /\ Stayed(k, j - 1, t, r)'
    BY <1>6, <1>7, <1>8, <1>9
  <2> QED
    BY <2>1 DEF RemovedInv, r
\* What a frame does to the memory a tripwire keeps of a track.
LEMMA LineStep ==
    ASSUME EngineTypeOK, NEW n, NEW ts, Blanked(n, ts) \/ \E at : Tracked(n, ts, at),
           NEW i \in Lines, NEW t \in Tracks
    PROVE  \/ /\ Blank(n + 1)' /\ Kept(t, i)' = Kept(t, i)
              /\ ~Fired(n + 1, Rules[i], t, "line_cross")'
           \/ /\ ~Blank(n + 1)' /\ ~Present(n + 1, t)'
              /\ ~Fired(n + 1, Rules[i], t, "line_cross")'
           \/ /\ ~Blank(n + 1)' /\ Kept(t, i)' = Kept(t, i)
              /\ ~Fired(n + 1, Rules[i], t, "line_cross")'
           \/ /\ Watched(n + 1, t, Rules[i])' /\ Kept(t, i)'.fired /\ ~Kept(t, i).fired
              /\ t \in DOMAIN mem /\ Crosses(Rules[i], mem[t].at, frames'[n + 1].at[t].centre)
<1> DEFINE r == Rules[i]
           w == Kept(t, i)
<1>0. /\ i \in OwnRule /\ r.kind = "line_cross" /\ w \in Entry
      /\ "line_cross" \in KindsOf(r)
  <2>1. i \in OwnRule /\ r.kind = "line_cross"
    BY DEF Lines, OfKind
  <2> QED
    BY <2>1, KeptTyped, OwnFacts
<1>1. CASE Blanked(n, ts)
  <2>1. Kept(t, i)' = w
    BY <1>0, <1>1, MemoryKept
  <2> QED
    BY <1>1, <2>1 DEF Blanked, Blank, Fired
<1>2. ASSUME NEW at, Tracked(n, ts, at), t \notin DOMAIN at
      PROVE  ~Blank(n + 1)' /\ ~Present(n + 1, t)' /\ ~Fired(n + 1, r, t, "line_cross")'
  <2>1. ~Fired(n + 1, r, t, "line_cross")'
    BY <1>0, <1>2, NewEvents
  <2>2. frames'[n + 1].at = at /\ DOMAIN at # {}
    BY <1>2 DEF Tracked
  <2> QED
    BY <1>2, <2>1, <2>2 DEF Blank, Present
<1>3. ASSUME NEW at, Tracked(n, ts, at), t \in DOMAIN at
      PROVE  \/ ~Blank(n + 1)' /\ Kept(t, i)' = w /\ ~Fired(n + 1, r, t, "line_cross")'
             \/ /\ Watched(n + 1, t, r)' /\ Kept(t, i)'.fired /\ ~w.fired
                /\ t \in DOMAIN mem /\ Crosses(r, mem[t].at, frames'[n + 1].at[t].centre)
  <2> DEFINE res == Answer(i, t, at[t], ts)
             prev == Remembered(t).at
  <2>1. Kept(t, i)' = res.kept
    BY <1>0, <1>3, MemoryKept
  <2>2. Fired(n + 1, r, t, "line_cross")' <=> Event(r, t, "line_cross") \in res.out
    BY <1>0, <1>3, NewEvents
  <2>3. /\ ~Blank(n + 1)' /\ Present(n + 1, t)' /\ frames'[n + 1].at = at
        /\ at[t].label \in r.labels => Watched(n + 1, t, r)'
    BY <1>3 DEF Tracked, Blank, Present, Watched
  <2>4. \/ res = Silent(w)
        \/ /\ res = Fires([w EXCEPT !.fired = TRUE], Event(r, t, "line_cross"))
           /\ prev # None /\ Crosses(r, prev, at[t].centre) /\ ~w.fired
           /\ at[t].label \in r.labels
    BY <1>0 DEF Answer, Applied, Eval, EvalLine, Kept
  <2>5. CASE res = Silent(w)
    <3>1. res.kept = w /\ res.out = {}
      BY <2>5, Answers
    <3> QED
      BY <2>1, <2>2, <2>3, <3>1
  <2>6. CASE /\ res = Fires([w EXCEPT !.fired = TRUE], Event(r, t, "line_cross"))
             /\ prev # None /\ Crosses(r, prev, at[t].centre) /\ ~w.fired
             /\ at[t].label \in r.labels
    <3>1. [w EXCEPT !.fired = TRUE].fired = TRUE
      BY <1>0 DEF Entry
    <3>2. res.kept.fired = TRUE
      <4>1. res.kept = [w EXCEPT !.fired = TRUE]
        BY <2>6, Answers
      <4> QED
        BY <3>1, <4>1
    <3>3. t \in DOMAIN mem /\ prev = mem[t].at
      BY <2>6 DEF Remembered, Fresh
    <3> QED
      BY <2>1, <2>3, <2>6, <3>2, <3>3
  <2> QED
    BY <2>4, <2>5, <2>6
<1>4. CASE ~Blanked(n, ts)
  <2>1. PICK at : Tracked(n, ts, at)
    BY <1>4
  <2> QED
    BY <1>2, <1>3, <2>1
<1> QED
  BY <1>1, <1>4

LEMMA StepLine ==
    ASSUME EngineTypeOK, NEW n, NEW ts, n = Last, Last' = n + 1,
           Blanked(n, ts) \/ \E at : Tracked(n, ts, at),
           NEW i \in Lines, NEW t \in Tracks, LineInv(i, t)
    PROVE  LineInv(i, t)'
<1> DEFINE r == Rules[i]
           F(k) == Fired(k, r, t, "line_cross")
<1> SUFFICES ASSUME ~Kept(t, i)'.fired, NEW k \in 1..(n + 1), F(k)'
             PROVE  \E l \in k..(n + 1) : ~Blank(l)' /\ ~Present(l, t)'
  BY DEF LineInv
<1>1. Appended(n, ts) /\ n \in Nat
  BY DEF Blanked, Tracked, Appended
<1>2. \A l \in 1..n : /\ F(l)' <=> F(l)
                      /\ Blank(l)' <=> Blank(l)
                      /\ Present(l, t)' <=> Present(l, t)
  BY <1>1, OldFrames
<1>3. \/ Kept(t, i)' = Kept(t, i) /\ ~F(n + 1)'
      \/ ~Blank(n + 1)' /\ ~Present(n + 1, t)'
  BY LineStep
<1>4. n + 1 \in k..(n + 1)
  BY <1>1
<1>5. CASE Kept(t, i)' = Kept(t, i) /\ ~F(n + 1)'
  <2>1. k \in 1..n
    BY <1>1, <1>5
  <2>2. PICK l \in k..n : ~Blank(l) /\ ~Present(l, t)
    BY <1>2, <1>5, <2>1 DEF LineInv
  <2>3. l \in 1..n /\ l \in k..(n + 1)
    BY <1>1
  <2> QED
    BY <1>2, <2>2, <2>3
<1> QED
  BY <1>3, <1>4, <1>5

LEMMA StepCrossing ==
    ASSUME EngineTypeOK, NEW n, NEW ts, n = Last, Last' = n + 1,
           Blanked(n, ts) \/ \E at : Tracked(n, ts, at),
           NEW i \in Lines, NEW t \in Tracks, SeenInv, LineInv(i, t), CrossingInv(i, t)
    PROVE  CrossingInv(i, t)'
<1> DEFINE r == Rules[i]
           F(k) == Fired(k, r, t, "line_cross")
           Crossed(k, j) ==
               /\ Present(k, t) /\ Watched(j, t, r)
               /\ \A l \in (k + 1)..(j - 1) : Blank(l)
               /\ Crosses(r, frames[k].at[t].centre, frames[j].at[t].centre)
               /\ \A m \in 1..k : F(m) => \E l \in m..k : ~Blank(l) /\ ~Present(l, t)
<1>1. Appended(n, ts) /\ n \in Nat
  BY DEF Blanked, Tracked, Appended
<1>2. \A l \in 1..n : /\ F(l)' <=> F(l)
                      /\ Blank(l)' <=> Blank(l)
                      /\ Present(l, t)' <=> Present(l, t)
                      /\ Watched(l, t, r)' <=> Watched(l, t, r)
                      /\ frames'[l] = frames[l]
  BY <1>1, OldFrames DEF Appended
<1>3. ASSUME NEW j \in 1..n, F(j)' PROVE \E k \in 1..(j - 1) : Crossed(k, j)'
  <2>1. PICK k \in 1..(j - 1) : Crossed(k, j)
    BY <1>2, <1>3 DEF CrossingInv
  <2>2. k \in 1..n /\ (k + 1)..(j - 1) \subseteq 1..n /\ 1..k \subseteq 1..n
    BY <1>1
  <2>3. \A m \in 1..k : m..k \subseteq 1..n
    BY <1>1, <2>2
  <2>4. Present(k, t)' /\ Watched(j, t, r)' /\ \A l \in (k + 1)..(j - 1) : Blank(l)'
    BY <1>2, <2>1, <2>2
  <2>5. Crosses(r, frames'[k].at[t].centre, frames'[j].at[t].centre)
    BY <1>2, <2>1, <2>2
  <2>6. \A m \in 1..k : F(m)' => \E l \in m..k : ~Blank(l)' /\ ~Present(l, t)'
    BY <1>2, <2>1, <2>2, <2>3
  <2>7. Crossed(k, j)'
    BY <2>4, <2>5, <2>6
  <2> QED
    BY <2>7
<1>4. ASSUME F(n + 1)' PROVE \E k \in 1..n : Crossed(k, n + 1)'
  <2>1. /\ Watched(n + 1, t, r)' /\ ~Kept(t, i).fired
        /\ t \in DOMAIN mem /\ Crosses(r, mem[t].at, frames'[n + 1].at[t].centre)
    BY <1>4, LineStep
  <2>2. PICK k \in 1..n : /\ Present(k, t) /\ frames[k].at[t].centre = mem[t].at
                          /\ \A l \in (k + 1)..n : Blank(l)
    BY <2>1 DEF SeenInv
  <2>3. /\ (k + 1)..n \subseteq 1..n /\ 1..k \subseteq 1..n /\ (n + 1) - 1 = n
        /\ \A m \in 1..k : \A l \in m..n : l \in 1..n /\ (l \in m..k \/ l \in (k + 1)..n)
    BY <1>1
  <2>4. Present(k, t)' /\ \A l \in (k + 1)..n : Blank(l)'
    BY <1>2, <2>2, <2>3
  <2>5. Crosses(r, frames'[k].at[t].centre, frames'[n + 1].at[t].centre)
    BY <1>2, <2>1, <2>2
  <2>6. ASSUME NEW m \in 1..k, F(m)' PROVE \E l \in m..k : ~Blank(l)' /\ ~Present(l, t)'
    <3>1. m \in 1..n
      BY <2>3
    <3>2. PICK l \in m..n : ~Blank(l) /\ ~Present(l, t)
      BY <1>2, <2>1, <2>6, <3>1 DEF LineInv
    <3>3. l \in m..k /\ l \in 1..n
      BY <2>2, <2>3, <3>2
    <3> QED
      BY <1>2, <3>2, <3>3
  <2>7. Crossed(k, n + 1)'
    BY <2>1, <2>3, <2>4, <2>5, <2>6
  <2> QED
    BY <2>7
<1>5. \A j \in 1..(n + 1) : j \in 1..n \/ j = n + 1
  BY <1>1
<1>6. (n + 1) - 1 = n
  BY <1>1
<1> HIDE DEF Crossed
<1>7. \A j \in 1..(n + 1) : F(j)' => \E k \in 1..(j - 1) : Crossed(k, j)'
  BY <1>3, <1>4, <1>5, <1>6
<1> QED
  BY <1>7 DEF CrossingInv, Crossed
-----------------------------------------------------------------------------
(* The rule engine: crowds. *)

Crowds == OfKind({"crowd"})
FullAt(k, r) == Count(r, frames[k].at) >= r.limit
CrowdFired(k, r) == Fired(k, r, None, "crowd")

\* The flag says whether the rule has fired for the crowd there is.
CrowdInv(i) ==
    /\ Rules[i].id \in crowded =>
          \E k \in 1..Last : CrowdFired(k, Rules[i]) /\ \A l \in k..Last : Blank(l) \/ FullAt(l, Rules[i])
    /\ Rules[i].id \notin crowded =>
          \A k \in 1..Last : CrowdFired(k, Rules[i]) =>
              \E l \in k..Last : ~Blank(l) /\ ~FullAt(l, Rules[i])

\* Two events of a rule are of two crowds, and every crowd has one.
GatheringInv(i) ==
    \A j \in 1..Last :
        /\ \A k \in 1..(j - 1) : CrowdFired(k, Rules[i]) /\ CrowdFired(j, Rules[i]) =>
              \E l \in k..j : ~Blank(l) /\ ~FullAt(l, Rules[i])
        /\ ~Blank(j) /\ FullAt(j, Rules[i]) =>
              \E k \in 1..j : CrowdFired(k, Rules[i]) /\ \A l \in k..j : Blank(l) \/ FullAt(l, Rules[i])

LEMMA CrowdStep ==
    ASSUME EngineTypeOK, NEW n, NEW ts, Blanked(n, ts) \/ \E at : Tracked(n, ts, at),
           NEW i \in Crowds
    PROVE  \/ Blank(n + 1)' /\ crowded' = crowded /\ ~CrowdFired(n + 1, Rules[i])'
           \/ /\ ~Blank(n + 1)'
              /\ Rules[i].id \in crowded' <=> FullAt(n + 1, Rules[i])'
              /\ CrowdFired(n + 1, Rules[i])' <=> Rules[i].id \in crowded' \ crowded
<1>0. /\ i \in OwnRule /\ Rules[i].kind = "crowd" /\ i \in CrowdRules
      /\ \A j \in CrowdRules : Rules[j].id = Rules[i].id => j = i
  <2>1. i \in OwnRule /\ Rules[i].kind = "crowd" /\ i \in CrowdRules
    BY DEF Crowds, OfKind, CrowdRules, OwnRule
  <2> QED
    BY <2>1 DEF OwnRule, Own, CrowdRules, Key
<1>1. CASE Blanked(n, ts)
  BY <1>1 DEF Blanked, Blank, CrowdFired, Fired
<1>2. ASSUME NEW at, Tracked(n, ts, at)
      PROVE  /\ ~Blank(n + 1)'
             /\ Rules[i].id \in crowded' <=> FullAt(n + 1, Rules[i])'
             /\ CrowdFired(n + 1, Rules[i])' <=> Rules[i].id \in crowded' \ crowded
  <2>1. ~Blank(n + 1)' /\ crowded' = CrowdFlags(at) /\ frames'[n + 1].at = at
    BY <1>2 DEF Tracked, Blank
  <2>2. i \in Int /\ Namesakes(i) = {i}
    BY <1>0, RuleFacts DEF Namesakes, CrowdRules
  <2>3. {j \in Namesakes(i) : j < i} = {}
    BY <2>2
  <2>4. FlagFound(i, at) <=> Rules[i].id \in crowded
    BY <2>3 DEF FlagFound
  <2>5. CrowdFired(n + 1, Rules[i])' <=> Full(i, at) /\ Rules[i].id \notin crowded
    BY <1>0, <1>2, <2>4, NewEvents DEF CrowdFired
  <2>6. Rules[i].id \in CrowdFlags(at) <=> Full(i, at)
    BY <1>0, <2>2 DEF CrowdFlags
  <2>7. FullAt(n + 1, Rules[i])' <=> Full(i, at)
    BY <2>1 DEF FullAt, Full, Count
  <2> QED
    BY <2>1, <2>5, <2>6, <2>7
<1> QED
  BY <1>1, <1>2

LEMMA OldCrowds ==
    ASSUME NEW n, NEW ts, Appended(n, ts), NEW k \in 1..n, NEW r
    PROVE  /\ FullAt(k, r)' <=> FullAt(k, r)
           /\ CrowdFired(k, r)' <=> CrowdFired(k, r)
           /\ Blank(k)' <=> Blank(k)
<1>1. frames'[k] = frames[k]
  BY DEF Appended
<1> QED
  BY <1>1 DEF FullAt, Count, CrowdFired, Fired, Blank

LEMMA StepCrowd ==
    ASSUME EngineTypeOK, NEW n, NEW ts, n = Last, Last' = n + 1,
           Blanked(n, ts) \/ \E at : Tracked(n, ts, at),
           NEW i \in Crowds, CrowdInv(i)
    PROVE  CrowdInv(i)'
<1> DEFINE r == Rules[i]
<1>1. Appended(n, ts) /\ n \in Nat
  BY DEF Blanked, Tracked, Appended
<1>2. \A k \in 1..n : /\ FullAt(k, r)' <=> FullAt(k, r)
                      /\ CrowdFired(k, r)' <=> CrowdFired(k, r)
                      /\ Blank(k)' <=> Blank(k)
  BY <1>1, OldCrowds
<1>3. \/ Blank(n + 1)' /\ crowded' = crowded /\ ~CrowdFired(n + 1, r)'
      \/ /\ ~Blank(n + 1)'
         /\ r.id \in crowded' <=> FullAt(n + 1, r)'
         /\ CrowdFired(n + 1, r)' <=> r.id \in crowded' \ crowded
  BY CrowdStep
<1>4. /\ \A k \in 1..(n + 1) : k \in 1..n \/ k = n + 1
      /\ \A k \in 1..n : k \in 1..(n + 1) /\ k..n \subseteq 1..n /\ k..(n + 1) = k..n \union {n + 1}
      /\ n + 1 \in 1..(n + 1) /\ (n + 1)..(n + 1) = {n + 1}
  BY <1>1
<1>5. ASSUME r.id \in crowded'
      PROVE  \E k \in 1..(n + 1) :
                 CrowdFired(k, r)' /\ \A l \in k..(n + 1) : Blank(l)' \/ FullAt(l, r)'
  <2>1. Blank(n + 1)' \/ FullAt(n + 1, r)'
    BY <1>3, <1>5
  <2>2. CASE r.id \in crowded
    <3>1. PICK k \in 1..n : CrowdFired(k, r) /\ \A l \in k..n : Blank(l) \/ FullAt(l, r)
      BY <2>2 DEF CrowdInv
    <3>2. \A l \in k..n : Blank(l)' \/ FullAt(l, r)'
      BY <1>2, <1>4, <3>1
    <3> QED
      BY <1>2, <1>4, <2>1, <3>1, <3>2
  <2>3. CASE r.id \notin crowded
    <3>1. CrowdFired(n + 1, r)'
      BY <1>3, <1>5, <2>3
    <3> QED
      BY <1>4, <2>1, <3>1
  <2> QED
    BY <2>2, <2>3
<1>6. ASSUME r.id \notin crowded', NEW k \in 1..(n + 1), CrowdFired(k, r)'
      PROVE  \E l \in k..(n + 1) : ~Blank(l)' /\ ~FullAt(l, r)'
  <2>1. CASE Blank(n + 1)'
    <3>1. k \in 1..n /\ r.id \notin crowded
      BY <1>3, <1>4, <1>6, <2>1
    <3>2. PICK l \in k..n : ~Blank(l) /\ ~FullAt(l, r)
      BY <1>2, <1>6, <3>1 DEF CrowdInv
    <3>3. l \in 1..n /\ l \in k..(n + 1)
      BY <1>4, <3>1
    <3> QED
      BY <1>2, <3>2, <3>3
  <2>2. CASE ~Blank(n + 1)'
    <3>1. ~FullAt(n + 1, r)' /\ n + 1 \in k..(n + 1)
      BY <1>1, <1>3, <1>6, <2>2
    <3> QED
      BY <2>2, <3>1
  <2> QED
    BY <2>1, <2>2
<1> QED
  BY <1>5, <1>6 DEF CrowdInv

LEMMA StepGathering ==
    ASSUME EngineTypeOK, NEW n, NEW ts, n = Last, Last' = n + 1,
           Blanked(n, ts) \/ \E at : Tracked(n, ts, at),
           NEW i \in Crowds, CrowdInv(i), CrowdInv(i)', GatheringInv(i)
    PROVE  GatheringInv(i)'
<1> DEFINE r == Rules[i]
<1>1. Appended(n, ts) /\ n \in Nat
  BY DEF Blanked, Tracked, Appended
<1>2. \A k \in 1..n : /\ FullAt(k, r)' <=> FullAt(k, r)
                      /\ CrowdFired(k, r)' <=> CrowdFired(k, r)
                      /\ Blank(k)' <=> Blank(k)
  BY <1>1, OldCrowds
<1>3. \/ Blank(n + 1)' /\ crowded' = crowded /\ ~CrowdFired(n + 1, r)'
      \/ /\ ~Blank(n + 1)'
         /\ r.id \in crowded' <=> FullAt(n + 1, r)'
         /\ CrowdFired(n + 1, r)' <=> r.id \in crowded' \ crowded
  BY CrowdStep
<1>4. \A j \in 1..(n + 1) : j \in 1..n \/ j = n + 1
  BY <1>1
<1>5. ASSUME NEW j \in 1..n, NEW k \in 1..(j - 1), CrowdFired(k, r)', CrowdFired(j, r)'
      PROVE  \E l \in k..j : ~Blank(l)' /\ ~FullAt(l, r)'
  <2>1. k \in 1..n /\ k..j \subseteq 1..n
    BY <1>1
  <2>2. PICK l \in k..j : ~Blank(l) /\ ~FullAt(l, r)
    BY <1>2, <1>5, <2>1 DEF GatheringInv
  <2> QED
    BY <1>2, <2>1, <2>2
<1>6. ASSUME NEW j \in 1..n, ~Blank(j)', FullAt(j, r)'
      PROVE  \E k \in 1..j : CrowdFired(k, r)' /\ \A l \in k..j : Blank(l)' \/ FullAt(l, r)'
  <2>1. 1..j \subseteq 1..n /\ \A k \in 1..j : k..j \subseteq 1..n
    BY <1>1
  <2>2. PICK k \in 1..j : CrowdFired(k, r) /\ \A l \in k..j : Blank(l) \/ FullAt(l, r)
    BY <1>2, <1>6 DEF GatheringInv
  <2> QED
    BY <1>2, <2>1, <2>2
<1>7. ASSUME NEW k \in 1..n, CrowdFired(k, r)', CrowdFired(n + 1, r)'
      PROVE  \E l \in k..(n + 1) : ~Blank(l)' /\ ~FullAt(l, r)'
  <2>1. r.id \notin crowded
    BY <1>3, <1>7
  <2>2. PICK l \in k..n : ~Blank(l) /\ ~FullAt(l, r)
    BY <1>2, <1>7, <2>1 DEF CrowdInv
  <2>3. l \in 1..n /\ l \in k..(n + 1)
    BY <1>1
  <2> QED
    BY <1>2, <2>2, <2>3
<1>8. ASSUME ~Blank(n + 1)', FullAt(n + 1, r)'
      PROVE  \E k \in 1..(n + 1) :
                 CrowdFired(k, r)' /\ \A l \in k..(n + 1) : Blank(l)' \/ FullAt(l, r)'
  <2>1. r.id \in crowded'
    BY <1>3, <1>8
  <2> QED
    BY <2>1 DEF CrowdInv
<1>9. (n + 1) - 1 = n
  BY <1>1
<1>10. \A j \in 1..(n + 1) :
          /\ \A k \in 1..(j - 1) : CrowdFired(k, r)' /\ CrowdFired(j, r)' =>
                \E l \in k..j : ~Blank(l)' /\ ~FullAt(l, r)'
          /\ ~Blank(j)' /\ FullAt(j, r)' =>
                \E k \in 1..j : CrowdFired(k, r)' /\ \A l \in k..j : Blank(l)' \/ FullAt(l, r)'
  BY <1>4, <1>5, <1>6, <1>7, <1>8, <1>9
<1> QED
  BY <1>10 DEF GatheringInv

-----------------------------------------------------------------------------
(* The theorems about the rule engine. *)

EngineInv ==
    /\ EngineTypeOK /\ ClockInv /\ SeenInv
    /\ \A t \in Tracks :
          /\ \A i \in Zoned : FiredInv(i, t)
          /\ \A i \in Dwelling : SinceInv(i, t) /\ DwellInv(i, t)
          /\ \A i \in Left : RemovedInv(i, t)
          /\ \A i \in Lines : LineInv(i, t) /\ CrossingInv(i, t)
    /\ \A i \in Crowds : CrowdInv(i) /\ GatheringInv(i)

LEMMA InitEngine == EngineInit => EngineInv
<1> SUFFICES ASSUME EngineInit PROVE EngineInv
  OBVIOUS
<1>1. mem = << >> /\ crowded = {} /\ frames = << >> /\ DOMAIN mem = {} /\ DOMAIN frames = {}
  BY DEF EngineInit
<1>2. Last = 0 /\ 1..Last = {}
  BY <1>1 DEF Last
<1>3. EngineTypeOK /\ ClockInv /\ SeenInv
  BY <1>1 DEF EngineTypeOK, ClockInv, SeenInv
<1>4. \A i \in OwnRule, t \in Tracks : Kept(t, i) = Unset
  BY <1>1, <1>3, KeptTyped, OwnFacts
<1>6. \A t \in Tracks, i \in Zoned : FiredInv(i, t)
  BY <1>2, <1>4 DEF FiredInv, Zoned, OfKind, Unset
<1>7. \A t \in Tracks, i \in Dwelling : SinceInv(i, t) /\ DwellInv(i, t)
  BY <1>2, <1>4 DEF SinceInv, DwellInv, Dwelling, OfKind, Unset
<1>8. \A t \in Tracks : (\A i \in Left : RemovedInv(i, t)) /\ \A i \in Lines : CrossingInv(i, t)
  BY <1>2 DEF RemovedInv, CrossingInv
<1>9. \A t \in Tracks, i \in Lines : LineInv(i, t)
  BY <1>2 DEF LineInv
<1>10. \A i \in Crowds : CrowdInv(i) /\ GatheringInv(i)
  BY <1>1, <1>2 DEF CrowdInv, GatheringInv
<1> QED
  BY <1>3, <1>6, <1>7, <1>8, <1>9, <1>10 DEF EngineInv

LEMMA StepEngine == EngineInv /\ EngineNext => EngineInv'
<1> SUFFICES ASSUME EngineInv, EngineNext PROVE EngineInv'
  OBVIOUS
<1>0. EngineTypeOK /\ ClockInv /\ SeenInv
  BY DEF EngineInv
<1>1. PICK n, ts : /\ n = Last /\ Last' = n + 1
                   /\ Blanked(n, ts) \/ \E at : Tracked(n, ts, at)
  BY <1>0, EngineStep
<1>2. EngineTypeOK' /\ ClockInv'
  BY <1>0, StepTyped
<1>3. SeenInv'
  BY <1>0, <1>1, StepSeen
<1>4. ASSUME NEW t \in Tracks, NEW i \in Zoned PROVE FiredInv(i, t)'
  <2>1. FiredInv(i, t)
    BY DEF EngineInv
  <2> QED
    BY <1>0, <1>1, <2>1, StepFired
<1>5. ASSUME NEW t \in Tracks, NEW i \in Dwelling PROVE SinceInv(i, t)' /\ DwellInv(i, t)'
  <2>1. i \in Zoned
    BY DEF Dwelling, Zoned, OfKind
  <2>2. FiredInv(i, t) /\ SinceInv(i, t) /\ DwellInv(i, t)
    BY <2>1 DEF EngineInv
  <2>3. SinceInv(i, t)'
    BY <1>0, <1>1, <2>2, StepSince
  <2>4. FiredInv(i, t)'
    BY <1>4, <2>1
  <2> QED
    BY <1>0, <1>1, <2>2, <2>3, <2>4, StepDwell
<1>6. ASSUME NEW t \in Tracks, NEW i \in Left PROVE RemovedInv(i, t)'
  <2>1. i \in Zoned
    BY DEF Left, Zoned, OfKind
  <2>2. FiredInv(i, t) /\ RemovedInv(i, t)
    BY <2>1 DEF EngineInv
  <2> QED
    BY <1>0, <1>1, <2>2, StepRemoved
<1>7. ASSUME NEW t \in Tracks, NEW i \in Lines PROVE LineInv(i, t)' /\ CrossingInv(i, t)'
  <2>1. LineInv(i, t) /\ CrossingInv(i, t)
    BY DEF EngineInv
  <2>2. LineInv(i, t)'
    BY <1>0, <1>1, <2>1, StepLine
  <2>3. CrossingInv(i, t)'
    BY <1>0, <1>1, <2>1, StepCrossing
  <2> QED
    BY <2>2, <2>3
<1>8. ASSUME NEW i \in Crowds PROVE CrowdInv(i)' /\ GatheringInv(i)'
  <2>1. CrowdInv(i) /\ GatheringInv(i)
    BY DEF EngineInv
  <2>2. CrowdInv(i)'
    BY <1>0, <1>1, <2>1, StepCrowd
  <2>3. GatheringInv(i)'
    BY <1>0, <1>1, <2>1, <2>2, StepGathering
  <2> QED
    BY <2>2, <2>3
<1> QED
  BY <1>2, <1>3, <1>4, <1>5, <1>6, <1>7, <1>8 DEF EngineInv

\* What the engine remembers of tracks, entries and crowds is what the frames
\* it was given show: types, the flags, the times of entry and the centres.
THEOREM EngineInductive == EngineSpec => []EngineInv
<1>1. EngineInv /\ UNCHANGED engineVars => EngineInv'
  <2> SUFFICES ASSUME EngineInv, UNCHANGED engineVars PROVE EngineInv'
    OBVIOUS
  <2>1. mem' = mem /\ crowded' = crowded /\ frames' = frames
    BY DEF engineVars
  <2>2. \A i, t : (Kept(t, i))' = Kept(t, i)
    BY <2>1 DEF Kept, Remembered
  <2>3. /\ \A k, t : Present(k, t)' <=> Present(k, t)
        /\ \A k, t, r : Watched(k, t, r)' <=> Watched(k, t, r)
        /\ \A k : Blank(k)' <=> Blank(k)
        /\ \A k, t, r : Inside(k, t, r)' <=> Inside(k, t, r)
        /\ \A k, t, r : Outside(k, t, r)' <=> Outside(k, t, r)
        /\ \A k, r, t, kind : Fired(k, r, t, kind)' <=> Fired(k, r, t, kind)
        /\ Last' = Last
    BY <2>1 DEF Present, Watched, Blank, Inside, Outside, Fired, Last
  <2>4. \A k, j, t, r : Stayed(k, j, t, r)' <=> Stayed(k, j, t, r)
    BY <2>3 DEF Stayed
  <2>5. \A k, r : (FullAt(k, r)' <=> FullAt(k, r)) /\ (CrowdFired(k, r)' <=> CrowdFired(k, r))
    BY <2>1 DEF FullAt, Count, CrowdFired, Fired
  <2>6. EngineTypeOK' /\ ClockInv' /\ SeenInv'
    <3>1. EngineTypeOK' /\ ClockInv'
      BY <2>1 DEF EngineInv, EngineTypeOK, ClockInv, Now
    <3>2. SeenInv'
      BY <2>1, <2>3 DEF EngineInv, SeenInv
    <3> QED
      BY <3>1, <3>2
  <2>7. ASSUME NEW t \in Tracks
        PROVE  /\ \A i \in Zoned : FiredInv(i, t)'
               /\ \A i \in Dwelling : SinceInv(i, t)'
    BY <2>1, <2>2, <2>3, <2>4 DEF EngineInv, FiredInv, SinceInv
  <2>8. ASSUME NEW t \in Tracks, NEW i \in Dwelling PROVE DwellInv(i, t)'
    BY <2>1, <2>3, <2>4 DEF EngineInv, DwellInv
  <2>9. ASSUME NEW t \in Tracks
        PROVE  /\ \A i \in Left : RemovedInv(i, t)'
               /\ \A i \in Lines : LineInv(i, t)'
    BY <2>2, <2>3, <2>4 DEF EngineInv, RemovedInv, LineInv
  <2>10. ASSUME NEW t \in Tracks, NEW i \in Lines PROVE CrossingInv(i, t)'
    BY <2>1, <2>3 DEF EngineInv, CrossingInv
  <2>11. ASSUME NEW i \in Crowds PROVE CrowdInv(i)' /\ GatheringInv(i)'
    BY <2>1, <2>3, <2>5 DEF EngineInv, CrowdInv, GatheringInv
  <2> QED
    BY <2>6, <2>7, <2>8, <2>9, <2>10, <2>11 DEF EngineInv
<1> QED
  BY InitEngine, StepEngine, <1>1, PTL DEF EngineSpec

\* Every reachable state of the engine's memory and of the history is well typed.
THEOREM EngineTypeCorrect == EngineSpec => []EngineTypeOK
<1>1. EngineInv => EngineTypeOK
  BY DEF EngineInv
<1> QED
  BY EngineInductive, <1>1, PTL

LEMMA RulesIndexed ==
    /\ \A r \in OwnRules({"intrusion", "loitering"}) : \E i \in Dwelling : r = Rules[i]
    /\ \A r \in OwnRules({"object_left"}) : \E i \in Left : r = Rules[i]
    /\ \A r \in OwnRules({"line_cross"}) : \E i \in Lines : r = Rules[i]
    /\ \A r \in OwnRules({"crowd"}) : \E i \in Crowds : r = Rules[i]
BY DEF OwnRules, RulesOf, OwnRule, Dwelling, Left, Lines, Crowds, OfKind

LEMMA FramesIndexed ==
    ASSUME EngineInv PROVE DOMAIN frames = 1..Last /\ Last \in Nat
BY DEF EngineInv, EngineTypeOK, Last

\* A dwell, removal or crossing that a rule with its own memory reports is in the
\* frames, whatever rules share theirs beside it (_eval_zone, _eval_loiter,
\* _eval_object_left, _eval_line).
THEOREM EventsTrue == EngineSpec => []EventsJustified
<1>1. ASSUME EngineInv PROVE EventsJustified
  <2>1. DwellJustified
    <3> SUFFICES ASSUME NEW r \in OwnRules({"intrusion", "loitering"}), NEW t \in Tracks,
                        NEW j \in DOMAIN frames, Fired(j, r, t, r.kind)
                 PROVE  /\ Inside(j, t, r)
                        /\ \E i \in 1..j : Stayed(i, j, t, r) /\ frames[j].ts - frames[i].ts >= r.limit
      BY DEF DwellJustified
    <3>1. PICK i \in Dwelling : r = Rules[i]
      BY RulesIndexed
    <3>2. DwellInv(i, t) /\ j \in 1..Last
      BY <1>1, FramesIndexed DEF EngineInv
    <3> QED
      BY <3>1, <3>2 DEF DwellInv
  <2>2. RemovedWasLeft
    <3> SUFFICES ASSUME NEW r \in OwnRules({"object_left"}), NEW t \in Tracks,
                        NEW j \in DOMAIN frames, Fired(j, r, t, "object_removed")
                 PROVE  /\ Present(j, t) /\ Outside(j, t, r)
                        /\ \E i \in 1..(j - 1) :
                              Fired(i, r, t, "object_left") /\ Stayed(i, j - 1, t, r)
      BY DEF RemovedWasLeft
    <3>1. PICK i \in Left : r = Rules[i]
      BY RulesIndexed
    <3>2. RemovedInv(i, t) /\ j \in 1..Last
      BY <1>1, FramesIndexed DEF EngineInv
    <3> QED
      BY <3>1, <3>2 DEF RemovedInv
  <2>3. CrossingsJustified
    <3> SUFFICES ASSUME NEW r \in OwnRules({"line_cross"}), NEW t \in Tracks,
                        NEW j \in DOMAIN frames, Fired(j, r, t, "line_cross")
                 PROVE  \E i \in 1..(j - 1) :
                            /\ Present(i, t) /\ Watched(j, t, r)
                            /\ \A k \in (i + 1)..(j - 1) : Blank(k)
                            /\ Crosses(r, frames[i].at[t].centre, frames[j].at[t].centre)
                            /\ \A k \in 1..i : Fired(k, r, t, "line_cross") =>
                                  \E l \in k..i : ~Blank(l) /\ ~Present(l, t)
      BY DEF CrossingsJustified
    <3>1. PICK i \in Lines : r = Rules[i]
      BY RulesIndexed
    <3>2. CrossingInv(i, t) /\ j \in 1..Last
      BY <1>1, FramesIndexed DEF EngineInv
    <3> QED
      BY <3>1, <3>2 DEF CrossingInv
  <2> QED
    BY <2>1, <2>2, <2>3 DEF EventsJustified
<1> QED
  BY EngineInductive, <1>1, PTL

\* A set of frames of which no two are different has one element at most.
LEMMA AtMostOne ==
    ASSUME NEW S, S \subseteq Nat, \A k, l \in S : ~(k < l)
    PROVE  Cardinality(S) <= 1
<1>1. CASE S = {}
  BY <1>1, FS_EmptySet
<1>2. CASE S # {}
  <2>1. PICK k \in S : TRUE
    BY <1>2
  <2>2. \A l \in S : l = k
    <3> TAKE l \in S
    <3>1. k \in Nat /\ l \in Nat /\ ~(k < l) /\ ~(l < k)
      BY <2>1
    <3> QED
      BY <3>1
  <2>4. S = {k}
    BY <2>1, <2>2
  <2>3. Cardinality(S) = 1
    BY <2>4, FS_Singleton
  <2> QED
    BY <2>3
<1> QED
  BY <1>1, <1>2

\* One stay in a zone, and one crowd, is reported at most once by a rule with its
\* own memory, whatever blank frames and other labels fall into it.
THEOREM StaysReportedOnce == EngineSpec => []ReportedOnce
<1>1. ASSUME EngineInv PROVE ReportedOnce
  <2>0. DOMAIN frames = 1..Last /\ Last \in Nat
    BY <1>1, FramesIndexed
  <2>1. ASSUME NEW r \in OwnRules({"intrusion", "loitering"}), NEW t \in Tracks,
               NEW i \in 1..Last, NEW j \in 1..Last, Stayed(i, j, t, r)
        PROVE  Cardinality({k \in i..j : Fired(k, r, t, r.kind)}) <= 1
    <3>1. PICK x \in Dwelling : r = Rules[x]
      BY RulesIndexed
    <3>2. DwellInv(x, t)
      BY <1>1 DEF EngineInv
    <3>3. ASSUME NEW k \in i..j, NEW l \in i..j, k < l,
                 Fired(k, r, t, r.kind), Fired(l, r, t, r.kind)
          PROVE  FALSE
      <4>1. k \in 1..Last /\ l \in 1..Last /\ k \in 1..(l - 1)
        BY <2>0, <3>3
      <4>3. Inside(k, t, r)
        BY <3>1, <3>2, <3>3, <4>1 DEF DwellInv
      <4>4. k..l \subseteq i..j
        BY <2>0
      <4>5. Stayed(k, l, t, r)
        BY <2>1, <4>3, <4>4 DEF Stayed
      <4> QED
        BY <3>1, <3>2, <3>3, <4>1, <4>5 DEF DwellInv
    <3>4. i..j \subseteq Nat
      BY <2>0
    <3> QED
      BY <3>3, <3>4, AtMostOne
  <2>2. ASSUME NEW r \in OwnRules({"crowd"}), NEW i \in 1..Last, NEW j \in 1..Last,
               \A k \in i..j : Blank(k) \/ Count(r, frames[k].at) >= r.limit
        PROVE  Cardinality({k \in i..j : Fired(k, r, None, "crowd")}) <= 1
    <3>1. PICK x \in Crowds : r = Rules[x]
      BY RulesIndexed
    <3>2. GatheringInv(x)
      BY <1>1 DEF EngineInv
    <3>3. ASSUME NEW k \in i..j, NEW l \in i..j, k < l,
                 Fired(k, r, None, "crowd"), Fired(l, r, None, "crowd")
          PROVE  FALSE
      <4>1. k \in 1..Last /\ l \in 1..Last /\ k \in 1..(l - 1)
        BY <2>0, <3>3
      <4>2. PICK m \in k..l : ~Blank(m) /\ ~FullAt(m, r)
        BY <3>1, <3>2, <3>3, <4>1 DEF GatheringInv, CrowdFired
      <4>3. m \in i..j
        BY <2>0
      <4> QED
        BY <2>2, <4>2, <4>3 DEF FullAt
    <3>4. i..j \subseteq Nat
      BY <2>0
    <3> QED
      BY <3>3, <3>4, AtMostOne
  <2>3. \A p \in Pairs : p[1] \in 1..Last /\ p[2] \in 1..Last
    BY <2>0 DEF Pairs
  <2> QED
    BY <2>0, <2>1, <2>2, <2>3 DEF ReportedOnce, DwellOnce, CrowdOnce, Crowded
<1> QED
  BY EngineInductive, <1>1, PTL

\* A stay that reaches the limit, and a crowd that reaches the threshold, has
\* been reported since it began, by a rule with its own memory.
THEOREM StaysReported == EngineSpec => []NothingMissed
<1>1. ASSUME EngineInv PROVE NothingMissed
  <2>0. DOMAIN frames = 1..Last /\ Last \in Nat
    BY <1>1, FramesIndexed
  <2>1. ASSUME NEW r \in OwnRules({"intrusion", "loitering"}), NEW t \in Tracks,
               NEW i \in 1..Last, NEW j \in 1..Last, i <= j,
               Stayed(i, j, t, r), Inside(j, t, r),
               frames[j].ts - frames[i].ts >= r.limit
        PROVE  \E k \in 1..j : Fired(k, r, t, r.kind) /\ Stayed(k, j, t, r)
    <3>1. PICK x \in Dwelling : r = Rules[x]
      BY RulesIndexed
    <3>2. DwellInv(x, t) /\ i \in 1..j
      BY <1>1, <2>0, <2>1 DEF EngineInv
    <3> QED
      BY <2>1, <3>1, <3>2 DEF DwellInv
  <2>2. ASSUME NEW r \in OwnRules({"crowd"}), NEW j \in 1..Last,
               ~Blank(j), Count(r, frames[j].at) >= r.limit
        PROVE  \E k \in 1..j :
                   /\ Fired(k, r, None, "crowd")
                   /\ \A l \in k..j : Blank(l) \/ Count(r, frames[l].at) >= r.limit
    <3>1. PICK x \in Crowds : r = Rules[x]
      BY RulesIndexed
    <3>2. GatheringInv(x)
      BY <1>1 DEF EngineInv
    <3> QED
      BY <2>2, <3>1, <3>2 DEF GatheringInv, CrowdFired, FullAt
  <2>3. \A p \in Pairs : p[1] \in 1..Last /\ p[2] \in 1..Last /\ p[1] <= p[2]
    BY <2>0 DEF Pairs
  <2> QED
    BY <2>0, <2>1, <2>2, <2>3 DEF NothingMissed, Crowded
<1> QED
  BY EngineInductive, <1>1, PTL
==============================================================================
