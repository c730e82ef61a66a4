----------------------------- MODULE VideoProofs -----------------------------
(***************************************************************************)
(* Proofs about the two users of a camera's source (packages/video and live   *)
(* routers), which share nothing: StreamGateway, for every budget of failures,  *)
(* schedule and number of restarts and failing writes, and LiveStreams, for      *)
(* every set of cameras, handlers and processes and all time limits.              *)
(***************************************************************************)
EXTENDS StreamGateway, LiveStreams, TLAPS

-----------------------------------------------------------------------------
(* StreamGateway: the camera thread's source *)

\* The counter of iter_frames never runs ahead of the failures since the last
\* frame, and is within the budget until the thread gives up.
CounterInv ==
    /\ pc \in {"make", "sleepRefused", "sleepFailed"} => attempt <= MaxConsecutiveFailures
    /\ pc = "make" => attempt <= failures
    /\ pc = "reading" => attempt = 0
    /\ pc \in {"sleepRefused", "sleepFailed"} => attempt + 1 <= failures
    /\ pc = "ended" => failures = Enough

\* The gateway's status says where the thread is, and without failing writes
\* the row differs from it only after a restart, until the first transition.
StatusInv ==
    /\ pc = "reading" => status = "ONLINE"
    /\ pc = "sleepRefused" => status = "OFFLINE"
    /\ pc = "sleepFailed" => status = "RECONNECTING"
    /\ pc = "ended" => status # "ONLINE"
    /\ faults = 0 => dbStatus = status \/ (status = "OFFLINE" /\ restarts > 0)

GInv == GatewayTypeOK /\ CounterInv /\ StatusInv

LEMMA InitGInv == GatewayInit => GInv
<1> SUFFICES ASSUME GatewayInit PROVE GInv  OBVIOUS
<1>1. stop \in BOOLEAN  BY DEF GatewayInit
<1>2. GatewayTypeOK  BY <1>1, GatewayAssumption DEF GatewayInit, GatewayTypeOK, Enough
<1>3. CounterInv  BY GatewayAssumption DEF GatewayInit, CounterInv
<1>4. StatusInv  BY DEF GatewayInit, StatusInv
<1> QED BY <1>2, <1>3, <1>4 DEF GInv

\* What Set leaves behind, whether the write succeeds or fails.
LEMMA SetKeeps ==
    ASSUME GatewayTypeOK, NEW st \in {"OFFLINE", "ONLINE", "RECONNECTING"}, Set(st)
    PROVE  /\ status' = st
           /\ dbStatus' \in {"OFFLINE", "ONLINE", "RECONNECTING"}
           /\ faults' \in 0..MaxFaults
           /\ faults' = 0 =>
                 /\ faults = 0
                 /\ dbStatus' = IF st = status THEN dbStatus ELSE st
BY GatewayAssumption DEF Set, GatewayTypeOK

\* Backoff counts one failure and stays on the schedule.
LEMMA BackoffKeeps ==
    ASSUME GatewayTypeOK, attempt <= MaxConsecutiveFailures, attempt <= failures, Backoff
    PROVE  /\ delay' \in 0..(Schedule - 1)
           /\ failures' \in 0..Enough
           /\ attempt + 1 <= failures'
BY GatewayAssumption DEF Backoff, BackoffIndex, Least, GatewayTypeOK, Enough

LEMMA StepGInv == GInv /\ [GatewayNext]_gatewayVars => GInv'
<1> SUFFICES ASSUME GInv, [GatewayNext]_gatewayVars PROVE GInv'  OBVIOUS
<1> USE GatewayAssumption DEF GInv, CounterInv, StatusInv
<1>1. CASE SourceRefused
    <2>1. /\ status' = "OFFLINE"
          /\ dbStatus' \in {"OFFLINE", "ONLINE", "RECONNECTING"}
          /\ faults' \in 0..MaxFaults
          /\ faults' = 0 =>
                faults = 0 /\ dbStatus' = IF status = "OFFLINE" THEN dbStatus ELSE "OFFLINE"
        BY <1>1, SetKeeps DEF SourceRefused
    <2>2. delay' \in 0..(Schedule - 1) /\ failures' \in 0..Enough /\ attempt + 1 <= failures'
        BY <1>1, BackoffKeeps DEF SourceRefused
    <2> QED BY <1>1, <2>1, <2>2 DEF SourceRefused, env, GatewayTypeOK
<1>2. CASE SourceMade
    <2>1. /\ status' = "ONLINE"
          /\ dbStatus' \in {"OFFLINE", "ONLINE", "RECONNECTING"}
          /\ faults' \in 0..MaxFaults
          /\ faults' = 0 =>
                faults = 0 /\ dbStatus' = IF status = "ONLINE" THEN dbStatus ELSE "ONLINE"
        BY <1>2, SetKeeps DEF SourceMade
    <2> QED BY <1>2, <2>1 DEF SourceMade, env, GatewayTypeOK
<1>3. CASE Frame
    BY <1>3 DEF Frame, env, GatewayTypeOK, Enough
<1>4. CASE SourceFails
    <2>1. /\ status' = "RECONNECTING"
          /\ dbStatus' \in {"OFFLINE", "ONLINE", "RECONNECTING"}
          /\ faults' \in 0..MaxFaults
          /\ faults' = 0 =>
                faults = 0 /\ dbStatus' = IF status = "RECONNECTING" THEN dbStatus
                                                                     ELSE "RECONNECTING"
        BY <1>4, SetKeeps DEF SourceFails
    <2>2. delay' \in 0..(Schedule - 1) /\ failures' \in 0..Enough /\ attempt + 1 <= failures'
        BY <1>4, BackoffKeeps DEF SourceFails, GatewayTypeOK, Enough
    <2> QED BY <1>4, <2>1, <2>2 DEF SourceFails, env, GatewayTypeOK
<1>5. CASE WakeRefused
    BY <1>5 DEF WakeRefused, env, GatewayTypeOK, Enough
<1>6. CASE WakeFailed
    <2> DEFINE st == IF attempt' > MaxConsecutiveFailures THEN "OFFLINE" ELSE status
    <2>1. st \in {"OFFLINE", "ONLINE", "RECONNECTING"} /\ Set(st)
        BY <1>6 DEF WakeFailed, GatewayTypeOK
    <2> HIDE DEF st
    <2>2. /\ status' = st
          /\ dbStatus' \in {"OFFLINE", "ONLINE", "RECONNECTING"}
          /\ faults' \in 0..MaxFaults
          /\ faults' = 0 =>
                faults = 0 /\ dbStatus' = IF st = status THEN dbStatus ELSE st
        BY <2>1, SetKeeps
    <2> USE DEF st
    <2> QED BY <1>6, <2>2 DEF WakeFailed, env, GatewayTypeOK, Enough
<1>7. CASE SetStop
    BY <1>7 DEF SetStop, env, GatewayTypeOK
<1>8. CASE WorkerRestarts
    <2>1. stop' \in BOOLEAN  BY <1>8 DEF WorkerRestarts
    <2>2. GatewayTypeOK'  BY <1>8, <2>1 DEF WorkerRestarts, env, GatewayTypeOK, Enough
    <2>3. CounterInv'  BY <1>8 DEF WorkerRestarts
    <2>4. StatusInv'  BY <1>8 DEF WorkerRestarts, GatewayTypeOK
    <2> QED BY <2>2, <2>3, <2>4
<1>9. CASE Network
    BY <1>9 DEF Network, GatewayTypeOK
<1>10. CASE UNCHANGED gatewayVars
    BY <1>10 DEF gatewayVars, env, GatewayTypeOK
<1> QED BY <1>1, <1>2, <1>3, <1>4, <1>5, <1>6, <1>7, <1>8, <1>9, <1>10
        DEF GatewayNext, CameraThread

\* Every reachable state satisfies the types, the counter and the status parts.
THEOREM GatewayInductive == GatewaySpec => []GInv
<1> QED BY InitGInv, StepGInv, PTL DEF GatewaySpec

THEOREM GatewayTypeCorrect == GatewaySpec => []GatewayTypeOK
<1>1. GInv => GatewayTypeOK  BY DEF GInv
<1> QED BY <1>1, GatewayInductive, PTL

\* iter_frames gives a camera up only after more than its budget of failures
\* in a row, whatever the budget and the schedule are.
THEOREM BudgetKept == GatewaySpec => []GivesUpOnlyAfterBudget
<1>1. GInv => GivesUpOnlyAfterBudget
    BY DEF GInv, CounterInv, GivesUpOnlyAfterBudget
<1> QED BY <1>1, GatewayInductive, PTL

\* Without failing writes the Camera row tells the truth about the thread, but
\* for a row left by an earlier run and not yet overwritten.
THEOREM StatusTruthful == GatewaySpec => []ShownStatusTruthful
<1>1. GInv => ShownStatusTruthful
    BY GatewayAssumption DEF GInv, GatewayTypeOK, StatusInv, ShownStatusTruthful
<1> QED BY <1>1, GatewayInductive, PTL

\* A source that was made has reset the counter, so a stream that fails is always
\* the first failure, whatever came before.
Reset == pc = "sleepFailed" => attempt = 0 /\ delay = 0

LEMMA StepReset == GInv /\ Reset /\ [GatewayNext]_gatewayVars => Reset'
<1> SUFFICES ASSUME GInv, Reset, [GatewayNext]_gatewayVars PROVE Reset'  OBVIOUS
<1>1. CASE SourceFails
    <2>1. attempt' = 0 /\ delay' = BackoffIndex(0)
        BY <1>1 DEF SourceFails, Backoff, GInv, CounterInv
    <2>2. BackoffIndex(0) = 0  BY GatewayAssumption DEF BackoffIndex, Least
    <2> QED BY <2>1, <2>2 DEF Reset
<1>2. CASE pc' # "sleepFailed" \/ UNCHANGED <<pc, attempt, delay>>
    BY <1>2 DEF Reset
<1> QED BY <1>1, <1>2
    DEF GatewayNext, CameraThread, SourceRefused, SourceMade, Frame, WakeRefused, WakeFailed,
        SetStop, WorkerRestarts, Network, gatewayVars

\* The safety half of Recovers: a camera whose address is good is tried again
\* after every failure of its stream, at the head of the schedule; only refused
\* addresses use up the budget (iter_frames, gateway.py 48-76).
THEOREM FailedStreamsRetried ==
    GatewaySpec => [][/\ pc = "sleepFailed" => pc' # "ended"
                      /\ pc # "ended" /\ pc' = "ended" => WakeRefused]_gatewayVars
<1>1. GInv /\ Reset /\ [GatewayNext]_gatewayVars
      => [/\ pc = "sleepFailed" => pc' # "ended"
          /\ pc # "ended" /\ pc' = "ended" => WakeRefused]_gatewayVars
    <2> SUFFICES ASSUME GInv, Reset, GatewayNext
                 PROVE  /\ pc = "sleepFailed" => pc' # "ended"
                        /\ pc # "ended" /\ pc' = "ended" => WakeRefused
        OBVIOUS
    <2>1. WakeFailed => pc' = "make"
        BY GatewayAssumption DEF WakeFailed, Reset
    <2>2. GatewayNext /\ ~WakeRefused /\ ~WakeFailed => pc' # "ended" \/ pc' = pc
        BY DEF GatewayNext, CameraThread, SourceRefused, SourceMade, Frame, SourceFails,
               SetStop, WorkerRestarts, Network
    <2>3. WakeRefused => pc # "sleepFailed"  BY DEF WakeRefused
    <2> QED BY <2>1, <2>2, <2>3
<1>2. GatewayInit => Reset  BY DEF GatewayInit, Reset
<1> QED BY <1>1, <1>2, StepReset, GatewayInductive, PTL DEF GatewaySpec

-----------------------------------------------------------------------------
(* LiveStreams: who owns a running ffmpeg *)


\* What each request handler has in hand, by where it is.
HandlerInv ==
    \A h \in Handlers :
        /\ handler[h].pc \in {"idle", "launch"} => handler[h].proc = None
        /\ handler[h].pc \in {"idle", "snapshot"} => handler[h].cam = None
        /\ handler[h].pc \in {"register", "terminate", "snapshot"} => handler[h].proc \in Procs
        /\ handler[h].pc \in {"launch", "register", "terminate"} => handler[h].cam \in Cameras

\* While plays of one camera have never overlapped, a play under way is the
\* only one of its camera, and nothing has been registered behind its back.
AloneInv ==
    ~overlapped =>
        \A h \in Handlers, c \in Cameras :
            Starting(h, c) =>
                /\ streams[c] = None
                /\ \A g \in Handlers : Starting(g, c) => g = h

\* Requests and the registry end with the server; the hook has processes in
\* hand only while it runs.
ShutdownInv ==
    /\ app = "up" \/ \A h \in Handlers : handler[h] = Idle
    /\ app = "up" \/ \A c \in Cameras : streams[c] = None
    /\ app # "closing" => closing = {}

LInv == TypeOK /\ HandlerInv /\ AloneInv /\ ShutdownInv /\ LostOnlyByOverlap

-----------------------------------------------------------------------------
(* Type correctness. *)

\* A saturating counter stays within its limit.
LEMMA UptoBounds ==
    ASSUME NEW limit \in Nat, NEW n \in 0..limit PROVE Upto(n, limit) \in 0..limit
BY DEF Upto

LEMMA Caps == AgeCap \in Nat /\ IdleCap \in Nat
BY LiveAssumption DEF AgeCap, IdleCap

LEMMA UptoFollows ==
    ASSUME NEW n \in Nat, NEW a \in Nat, NEW w \in Nat, NEW i \in Nat, w < i, n <= a + w
    PROVE  Upto(n, a + i + 1) <= a + w + 1
BY DEF Upto

LEMMA InitLive == Init => LInv
<1> SUFFICES ASSUME Init PROVE LInv  OBVIOUS
<1>1. TypeOK
    <2>1. handler \in [Handlers -> [pc : {"idle", "launch", "register", "terminate", "snapshot"},
                                   cam : Cameras \union {None}, proc : Procs \union {None}]]
        BY DEF Init, Idle
    <2>2. waited \in 0..IdleTimeout /\ ticket \in [Cameras -> 0..TicketLife]
        BY LiveAssumption DEF Init
    <2>3. streams \in [Cameras -> Stream \union {None}]  BY DEF Init
    <2> QED BY <2>1, <2>2, <2>3 DEF Init, TypeOK
<1>2. HandlerInv  BY DEF Init, HandlerInv, Idle
<1>3. AloneInv  BY DEF Init, AloneInv, Starting, Idle
<1>4. ShutdownInv  BY DEF Init, ShutdownInv
<1>5. LostOnlyByOverlap  BY DEF Init, LostOnlyByOverlap, EveryTranscodeTracked
<1> QED BY <1>1, <1>2, <1>3, <1>4, <1>5 DEF LInv

LEMMA StepTypes == TypeOK /\ HandlerInv /\ [Next]_vars => TypeOK'
<1> SUFFICES ASSUME TypeOK, HandlerInv, [Next]_vars PROVE TypeOK'  OBVIOUS
<1> USE DEF TypeOK
<1>1. CASE Tick
    <2>1. \A c \in Cameras : streams'[c] \in Stream \union {None}
        <3> SUFFICES ASSUME NEW c \in Cameras, streams[c] # None
                     PROVE  streams'[c] \in Stream
            BY <1>1 DEF Tick
        <3>1. streams[c] \in Stream  OBVIOUS
        <3> HIDE DEF TypeOK
        <3>2. /\ streams[c].age \in 0..AgeCap /\ AgeCap \in Nat
              /\ streams[c].idle \in 0..IdleCap /\ IdleCap \in Nat
            BY <3>1, LiveAssumption, Caps DEF Stream
        <3>3. /\ Upto(streams[c].age, AgeCap) \in 0..AgeCap
              /\ Upto(streams[c].idle, IdleCap) \in 0..IdleCap
            BY <3>2, UptoBounds
        <3> QED BY <1>1, <3>1, <3>2, <3>3 DEF Tick, Stream
    <2>2. waited' \in 0..IdleTimeout
        <3>1. Upto(waited, IdleTimeout) \in 0..IdleTimeout  BY LiveAssumption, UptoBounds
        <3>2. 0 \in 0..IdleTimeout  BY LiveAssumption
        <3>3. waited' = Upto(waited, IdleTimeout) \/ waited' = 0  BY <1>1 DEF Tick
        <3> QED BY <3>1, <3>2, <3>3
    <2>3. ticket' \in [Cameras -> 0..TicketLife]
        <3>1. \A c \in Cameras :
                 (IF ticket[c] > 0 THEN ticket[c] - 1 ELSE 0) \in 0..TicketLife
            BY LiveAssumption
        <3> QED BY <1>1, <3>1 DEF Tick
    <2> QED BY <1>1, <2>1, <2>2, <2>3 DEF Tick
<1>2. CASE \E c \in Cameras : IssueTicket(c)  BY <1>2, LiveAssumption DEF IssueTicket
<1>3. ASSUME NEW h \in Handlers, Requests(h) PROVE TypeOK'
    <2>1. CASE \E c \in Cameras : PlayReuses(h, c)
        <3>1. PICK c \in Cameras : PlayReuses(h, c)  BY <2>1
        <3>2. streams[c] \in Stream /\ 0 \in 0..IdleCap
            BY <3>1, LiveAssumption, Caps DEF PlayReuses, Running
        <3>3. [streams[c] EXCEPT !.idle = 0] \in Stream  BY <3>2 DEF Stream
        <3> QED BY <3>1, <3>3 DEF PlayReuses
    <2>2. CASE \E c \in Cameras : PlayMisses(h, c)  BY <2>2 DEF PlayMisses
    <2>3. CASE \E c \in Cameras : Stop(h, c)
        <3>1. PICK c \in Cameras : Stop(h, c)  BY <2>3
        <3>2. streams[c].proc \in Procs  BY <3>1 DEF Stop, Stream
        <3> QED BY <3>1, <3>2 DEF Stop
    <2>4. CASE Snapshot(h)
        <3>1. PICK p \in Procs : /\ alive' = alive \union {p}
                                 /\ handler' = [handler EXCEPT ![h].pc = "snapshot", ![h].proc = p]
            BY <2>4 DEF Snapshot, Free
        <3>2. handler'[h] = [pc |-> "snapshot", cam |-> handler[h].cam, proc |-> p]  BY <3>1
        <3>3. \A g \in Handlers \ {h} : handler'[g] = handler[g]  BY <3>1
        <3> QED BY <2>4, <3>1, <3>2, <3>3 DEF Snapshot
    <2>5. CASE Launch(h)
        <3>1. PICK p \in Procs : /\ alive' = alive \union {p}
                                 /\ handler' = [handler EXCEPT ![h].pc = "register", ![h].proc = p]
            BY <2>5 DEF Launch, Free
        <3>2. handler'[h] = [pc |-> "register", cam |-> handler[h].cam, proc |-> p]  BY <3>1
        <3>3. \A g \in Handlers \ {h} : handler'[g] = handler[g]  BY <3>1
        <3> QED BY <2>5, <3>1, <3>2, <3>3 DEF Launch
    <2>6. CASE LaunchFails(h)  BY <2>6 DEF LaunchFails, Idle
    <2>7. CASE Register(h)
        <3>1. handler[h].cam \in Cameras /\ handler[h].proc \in Procs
            BY <2>7 DEF Register, HandlerInv
        <3>2. [proc |-> handler[h].proc, age |-> 0, idle |-> 0] \in Stream
            BY <3>1, LiveAssumption, Caps DEF Stream
        <3> QED BY <2>7, <3>1, <3>2 DEF Register, Idle
    <2>8. CASE Terminate(h)  BY <2>8 DEF Terminate, Idle
    <2>9. CASE SnapshotAnswers(h)  BY <2>9 DEF SnapshotAnswers, Idle
    <2> QED BY <1>3, <2>1, <2>2, <2>3, <2>4, <2>5, <2>6, <2>7, <2>8, <2>9 DEF Requests, Finishing
<1>4. CASE ReaperWakes
    <2>1. \A c \in Cameras : Stale(c) => streams[c].proc \in Procs  BY DEF Stale, Stream
    <2> QED BY <1>4, <2>1, LiveAssumption DEF ReaperWakes, Stale
<1>5. CASE ReaperTerminates  BY <1>5 DEF ReaperTerminates
<1>6. CASE Shutdown
    <2>1. Registered \subseteq Procs  BY DEF Registered, Stream
    <2> QED BY <1>6, <2>1 DEF Shutdown
<1>7. CASE ShutdownTerminates  BY <1>7 DEF ShutdownTerminates
<1>8. CASE Exit  BY <1>8 DEF Exit
<1>9. CASE \E p \in Procs : Dies(p)  BY <1>9 DEF Dies
<1>10. CASE UNCHANGED vars  BY <1>10 DEF vars
<1> QED BY <1>1, <1>2, <1>3, <1>4, <1>5, <1>6, <1>7, <1>8, <1>9, <1>10 DEF Next, Reaper

-----------------------------------------------------------------------------
(* The parts of the invariant, step by step. *)

\* A handler that begins or ends a turn, and what the other handlers do not see.
LEMMA StepHandlers == TypeOK /\ HandlerInv /\ [Next]_vars => HandlerInv'
<1> SUFFICES ASSUME TypeOK, HandlerInv, [Next]_vars, NEW g \in Handlers
             PROVE  HandlerInv!(g)'
    BY DEF HandlerInv
<1> USE DEF HandlerInv
<1>1. CASE UNCHANGED handler  BY <1>1
<1>2. ASSUME NEW h \in Handlers, Requests(h) PROVE HandlerInv!(g)'
    <2>0. handler \in [Handlers -> [pc : {"idle", "launch", "register", "terminate", "snapshot"},
                                   cam : Cameras \union {None}, proc : Procs \union {None}]]
        BY DEF TypeOK
    <2>1. CASE handler' = [handler EXCEPT ![h] = Idle]  BY <2>0, <2>1 DEF Idle
    <2>2. ASSUME NEW c \in Cameras, PlayMisses(h, c) PROVE HandlerInv!(g)'
        BY <2>0, <2>2 DEF PlayMisses
    <2>3. ASSUME NEW c \in Cameras, Stop(h, c) PROVE HandlerInv!(g)'
        <3>1. streams[c].proc \in Procs  BY <2>3 DEF Stop, TypeOK, Stream
        <3> QED BY <2>0, <2>3, <3>1 DEF Stop
    <2>4. CASE Snapshot(h)
        <3>1. PICK p \in Procs : handler' = [handler EXCEPT ![h].pc = "snapshot", ![h].proc = p]
            BY <2>4 DEF Snapshot, Free
        <3> QED BY <2>0, <2>4, <3>1 DEF Snapshot, Idle
    <2>5. CASE Launch(h)
        <3>1. PICK p \in Procs : handler' = [handler EXCEPT ![h].pc = "register", ![h].proc = p]
            BY <2>5 DEF Launch, Free
        <3> QED BY <2>0, <2>5, <3>1 DEF Launch
    <2>6. \A c \in Cameras : PlayReuses(h, c) => UNCHANGED handler  BY DEF PlayReuses
    <2> QED BY <1>1, <1>2, <2>1, <2>2, <2>3, <2>4, <2>5, <2>6
        DEF Requests, Finishing, LaunchFails, Register, Terminate, SnapshotAnswers
<1> QED BY <1>1, <1>2 DEF Next, Reaper, Tick, IssueTicket, ReaperWakes, ReaperTerminates,
           Shutdown, ShutdownTerminates, Exit, Dies, vars

\* The only steps that fill an entry are Register, whose play is then over, and
\* PlayReuses, of an entry that is there.
LEMMA StepAlone == TypeOK /\ HandlerInv /\ AloneInv /\ [Next]_vars => AloneInv'
<1> SUFFICES ASSUME TypeOK, HandlerInv, AloneInv, [Next]_vars, ~overlapped',
                    NEW f \in Handlers, NEW d \in Cameras, Starting(f, d)'
             PROVE  /\ streams'[d] = None
                    /\ \A g \in Handlers : Starting(g, d)' => g = f
    BY DEF AloneInv
<1>0. /\ handler \in [Handlers -> [pc : {"idle", "launch", "register", "terminate", "snapshot"},
                                   cam : Cameras \union {None}, proc : Procs \union {None}]]
      /\ streams \in [Cameras -> Stream \union {None}]
    BY DEF TypeOK
<1>1. ~overlapped  
    BY DEF Next, Requests, Finishing, Reaper, Tick, IssueTicket, PlayReuses, PlayMisses, Stop,
           Snapshot, Launch, LaunchFails, Register, Terminate, SnapshotAnswers, ReaperWakes,
           ReaperTerminates, Shutdown, ShutdownTerminates, Exit, Dies, vars
<1>2. ASSUME Starting(f, d), \A g \in Handlers : Starting(g, d)' => Starting(g, d),
             streams[d] = None => streams'[d] = None
      PROVE  /\ streams'[d] = None
             /\ \A g \in Handlers : Starting(g, d)' => g = f
    BY <1>1, <1>2 DEF AloneInv
<1>3. CASE UNCHANGED handler /\ \A c \in Cameras : streams[c] = None => streams'[c] = None
    BY <1>2, <1>3 DEF Starting
<1>4. ASSUME NEW h \in Handlers, Requests(h)
      PROVE  /\ streams'[d] = None
             /\ \A g \in Handlers : Starting(g, d)' => g = f
    <2>1. CASE UNCHANGED streams /\ handler' = [handler EXCEPT ![h] = Idle]
        BY <1>0, <1>2, <2>1 DEF Starting, Idle
    <2>2. ASSUME NEW c \in Cameras, PlayReuses(h, c)
          PROVE  UNCHANGED handler /\ \A e \in Cameras : streams[e] = None => streams'[e] = None
        BY <1>0, <2>2 DEF PlayReuses, Running
    <2>3. ASSUME NEW c \in Cameras, PlayMisses(h, c)
          PROVE  /\ streams'[d] = None
                 /\ \A g \in Handlers : Starting(g, d)' => g = f
        <3>1. \A g \in Handlers : ~Starting(g, c)  BY <2>3 DEF PlayMisses
        <3>2. handler' = [handler EXCEPT ![h] = [pc |-> "launch", cam |-> c, proc |-> None]]
            BY <2>3 DEF PlayMisses
        <3>3. streams' = [streams EXCEPT ![c] = None]  BY <2>3 DEF PlayMisses
        <3>4. CASE d = c  BY <1>0, <3>1, <3>2, <3>3, <3>4 DEF Starting
        <3>5. CASE d # c  BY <1>0, <1>2, <3>2, <3>3, <3>5 DEF Starting
        <3> QED BY <3>4, <3>5
    <2>4. ASSUME NEW c \in Cameras, Stop(h, c)
          PROVE  /\ streams'[d] = None
                 /\ \A g \in Handlers : Starting(g, d)' => g = f
        BY <1>0, <1>2, <2>4 DEF Stop, Starting
    <2>5. CASE Snapshot(h)
        <3>1. PICK p : handler' = [handler EXCEPT ![h].pc = "snapshot", ![h].proc = p]
            BY <2>5 DEF Snapshot
        <3> QED BY <1>0, <1>2, <2>5, <3>1 DEF Snapshot, Starting
    <2>6. CASE Launch(h)
        <3>1. PICK p : handler' = [handler EXCEPT ![h].pc = "register", ![h].proc = p]
            BY <2>6 DEF Launch
        <3> QED BY <1>0, <1>2, <2>6, <3>1 DEF Launch, Starting
    <2>7. CASE Register(h)
        <3>1. handler' = [handler EXCEPT ![h] = Idle]  BY <2>7 DEF Register
        <3>2. f # h /\ Starting(f, d)  BY <1>0, <3>1 DEF Starting, Idle
        <3>3. handler[h].cam # d
            <4> SUFFICES ASSUME handler[h].cam = d PROVE FALSE  OBVIOUS
            <4>1. Starting(h, d)  BY <2>7 DEF Register, Starting
            <4> QED BY <1>1, <3>2, <4>1 DEF AloneInv
        <3>4. streams'[d] = streams[d]  BY <1>0, <2>7, <3>3 DEF Register
        <3> QED BY <1>0, <1>2, <3>1, <3>2, <3>4 DEF Starting, Idle
    <2> QED BY <1>3, <1>4, <2>1, <2>2, <2>3, <2>4, <2>5, <2>6, <2>7
        DEF Requests, Finishing, LaunchFails, Terminate, SnapshotAnswers
<1>5. CASE Tick  BY <1>0, <1>3, <1>5 DEF Tick
<1>6. CASE ReaperWakes  BY <1>0, <1>3, <1>6 DEF ReaperWakes, Stale
<1>7. CASE Shutdown  BY <1>0, <1>3, <1>7 DEF Shutdown
<1> QED BY <1>3, <1>4, <1>5, <1>6, <1>7
    DEF Next, Reaper, IssueTicket, ReaperTerminates, ShutdownTerminates, Exit, Dies, vars

\* No request begins once the server closes, and the reaper fills no entry.
LEMMA StepShutdown == TypeOK /\ ShutdownInv /\ [Next]_vars => ShutdownInv'
<1> SUFFICES ASSUME TypeOK, ShutdownInv, [Next]_vars PROVE ShutdownInv'  OBVIOUS
<1> USE DEF ShutdownInv
<1>1. CASE Tick  BY <1>1 DEF Tick
<1>2. ASSUME NEW h \in Handlers, Requests(h) PROVE ShutdownInv'
    <2>1. app = "up"
        BY <1>2 DEF Requests, Finishing, PlayReuses, PlayMisses, Stop, Snapshot, Launch,
                    LaunchFails, Register, Terminate, SnapshotAnswers, Idle
    <2>2. UNCHANGED <<app, closing>>
        BY <1>2 DEF Requests, Finishing, PlayReuses, PlayMisses, Stop, Snapshot, Launch,
                    LaunchFails, Register, Terminate, SnapshotAnswers
    <2> QED BY <2>1, <2>2
<1>3. CASE ReaperWakes  BY <1>3 DEF ReaperWakes, Stale
<1>4. CASE ReaperTerminates  BY <1>4 DEF ReaperTerminates
<1>5. CASE Shutdown  BY <1>5 DEF Shutdown
<1>6. CASE ShutdownTerminates  BY <1>6 DEF ShutdownTerminates
<1>7. CASE Exit  BY <1>7 DEF Exit
<1> QED BY <1>1, <1>2, <1>3, <1>4, <1>5, <1>6, <1>7 DEF Next, Reaper, IssueTicket, Dies, vars

-----------------------------------------------------------------------------
(* Who owns a running process. *)

\* An entry is not the absence of one.
LEMMA StreamNotNone == \A s \in Stream : s # None
BY LiveAssumption DEF Stream

\* Every step hands a process over, or ends it: whoever lets go of one that
\* still runs has it taken up by the registry, a handler, the reaper or the hook.
LEMMA StepTracked == LInv /\ [Next]_vars => LostOnlyByOverlap'
<1> SUFFICES ASSUME LInv, [Next]_vars, ~overlapped', NEW p \in alive'
             PROVE  p \in (Registered \union Held \union doomed \union closing)'
    BY DEF LostOnlyByOverlap, EveryTranscodeTracked
<1> DEFINE Owned == p \in (Registered \union Held \union doomed \union closing)
<1>0. /\ handler \in [Handlers -> [pc : {"idle", "launch", "register", "terminate", "snapshot"},
                                   cam : Cameras \union {None}, proc : Procs \union {None}]]
      /\ streams \in [Cameras -> Stream \union {None}]
      /\ alive \subseteq Procs
      /\ HandlerInv
    BY DEF LInv, TypeOK
<1>1. ~overlapped
    BY DEF Next, Requests, Finishing, Reaper, Tick, IssueTicket, PlayReuses, PlayMisses, Stop,
           Snapshot, Launch, LaunchFails, Register, Terminate, SnapshotAnswers, ReaperWakes,
           ReaperTerminates, Shutdown, ShutdownTerminates, Exit, Dies, vars
<1>2. p \in alive => Owned
    BY <1>1 DEF LInv, LostOnlyByOverlap, EveryTranscodeTracked
<1>3. None \notin Procs  BY LiveAssumption
<1> USE DEF Registered, Held
<1>4. CASE Tick
    <2>1. \A c \in Cameras : streams[c] # None =>
             streams'[c] # None /\ streams'[c].proc = streams[c].proc
        <3> SUFFICES ASSUME NEW c \in Cameras, streams[c] # None
                     PROVE  streams'[c] # None /\ streams'[c].proc = streams[c].proc
            OBVIOUS
        <3>1. streams[c] \in Stream  BY <1>0
        <3>2. /\ Upto(streams[c].age, AgeCap) \in 0..AgeCap
              /\ Upto(streams[c].idle, IdleCap) \in 0..IdleCap
            <4>1. /\ streams[c].age \in 0..AgeCap /\ AgeCap \in Nat
                  /\ streams[c].idle \in 0..IdleCap /\ IdleCap \in Nat
                BY <3>1, LiveAssumption, Caps DEF Stream
            <4> QED BY <4>1, UptoBounds
        <3>3. streams'[c] = [streams[c] EXCEPT !.age = Upto(streams[c].age, AgeCap),
                                               !.idle = Upto(streams[c].idle, IdleCap)]
            <4>1. streams' = [d \in Cameras |->
                                IF streams[d] = None THEN None
                                ELSE [streams[d] EXCEPT !.age  = Upto(streams[d].age, AgeCap),
                                                        !.idle = Upto(streams[d].idle, IdleCap)]]
                BY <1>4 DEF Tick
            <4> QED BY <4>1
        <3>4. streams'[c] \in Stream /\ streams'[c].proc = streams[c].proc
            BY <3>1, <3>2, <3>3 DEF Stream
        <3> QED BY <3>4, StreamNotNone
    <2> QED BY <1>2, <1>4, <2>1 DEF Tick
<1>5. ASSUME NEW h \in Handlers, Requests(h) PROVE Owned'
    <2>1. ASSUME NEW c \in Cameras, PlayReuses(h, c) PROVE Owned'
        <3>1. streams[c] \in Stream  BY <1>0, <2>1 DEF PlayReuses, Running
        <3>2. streams'[c] \in Stream /\ streams'[c].proc = streams[c].proc
            BY <1>0, <2>1, <3>1, LiveAssumption, Caps DEF PlayReuses, Stream
        <3>3. \A d \in Cameras : streams[d] # None =>
                 streams'[d] # None /\ streams'[d].proc = streams[d].proc
            BY <1>0, <2>1, <3>2, StreamNotNone DEF PlayReuses
        <3> QED BY <1>2, <2>1, <3>3 DEF PlayReuses
    <2>2. ASSUME NEW c \in Cameras, PlayMisses(h, c) PROVE Owned'
        <3>1. streams[c] # None => streams[c].proc # p  BY <2>2 DEF PlayMisses, Running
        <3>2. \A d \in Cameras \ {c} : streams'[d] = streams[d]  BY <1>0, <2>2 DEF PlayMisses
        <3>3. \A g \in Handlers : handler[g].proc # None => handler'[g].proc = handler[g].proc
            BY <1>0, <2>2 DEF PlayMisses, Idle
        <3> QED BY <1>2, <2>2, <3>1, <3>2, <3>3 DEF PlayMisses
    <2>3. ASSUME NEW c \in Cameras, Stop(h, c) PROVE Owned'
        <3>1. \A d \in Cameras \ {c} : streams'[d] = streams[d]  BY <1>0, <2>3 DEF Stop
        <3>2. \A g \in Handlers : handler[g].proc # None => handler'[g].proc = handler[g].proc
            BY <1>0, <2>3 DEF Stop, Idle
        <3>3. handler'[h].proc = streams[c].proc  BY <1>0, <2>3 DEF Stop
        <3>4. streams[c].proc # None  BY <1>0, <1>3, <2>3 DEF Stop, Stream
        <3> QED BY <1>2, <2>3, <3>1, <3>2, <3>3, <3>4 DEF Stop
    <2>4. ASSUME Snapshot(h) \/ Launch(h) PROVE Owned'
        <3>1. PICK q \in Procs : /\ alive' = alive \union {q}
                                 /\ handler'[h].proc = q
                                 /\ \A g \in Handlers \ {h} : handler'[g] = handler[g]
            BY <1>0, <2>4 DEF Snapshot, Launch, Free
        <3>2. handler[h].proc = None  BY <1>0, <2>4 DEF Snapshot, Launch, Idle, HandlerInv
        <3> QED BY <1>2, <1>3, <2>4, <3>1, <3>2 DEF Snapshot, Launch
    <2>5. CASE LaunchFails(h)
        <3>1. handler[h].proc = None  BY <1>0, <2>5 DEF LaunchFails, HandlerInv
        <3>2. \A g \in Handlers \ {h} : handler'[g] = handler[g]  BY <1>0, <2>5 DEF LaunchFails
        <3> QED BY <1>2, <2>5, <3>1, <3>2 DEF LaunchFails
    <2>6. CASE Register(h)
        <3> DEFINE d == handler[h].cam
        <3>1. d \in Cameras /\ handler[h].proc \in Procs  BY <1>0, <2>6 DEF Register, HandlerInv
        <3>2. streams[d] = None
            BY <1>1, <2>6, <3>1 DEF LInv, AloneInv, Register, Starting
        <3>3. streams'[d] = [proc |-> handler[h].proc, age |-> 0, idle |-> 0]
            BY <1>0, <2>6, <3>1 DEF Register
        <3>4. streams'[d] \in Stream  BY <3>1, <3>3, LiveAssumption, Caps DEF Stream
        <3>5. \A c \in Cameras \ {d} : streams'[c] = streams[c]  BY <1>0, <2>6 DEF Register
        <3>6. \A g \in Handlers \ {h} : handler'[g] = handler[g]  BY <1>0, <2>6 DEF Register
        <3>7. streams'[d] # None /\ streams'[d].proc = handler[h].proc
            BY <3>3, <3>4, StreamNotNone
        <3> HIDE DEF d
        <3> QED BY <1>2, <2>6, <3>1, <3>2, <3>5, <3>6, <3>7 DEF Register
    <2>7. ASSUME Terminate(h) \/ SnapshotAnswers(h) PROVE Owned'
        <3>1. p \in alive /\ p # handler[h].proc  BY <2>7 DEF Terminate, SnapshotAnswers
        <3>2. \A g \in Handlers \ {h} : handler'[g] = handler[g]
            BY <1>0, <2>7 DEF Terminate, SnapshotAnswers
        <3> QED BY <1>2, <2>7, <3>1, <3>2 DEF Terminate, SnapshotAnswers
    <2> QED BY <1>5, <2>1, <2>2, <2>3, <2>4, <2>5, <2>6, <2>7 DEF Requests, Finishing
<1>6. CASE ReaperWakes
    <2>1. \A c \in Cameras : streams[c] # None =>
             streams[c].proc \in doomed' \/ streams'[c] = streams[c]
        BY <1>0, <1>6 DEF ReaperWakes
    <2>2. doomed = {}  BY <1>6 DEF ReaperWakes
    <2> QED BY <1>2, <1>6, <2>1, <2>2 DEF ReaperWakes
<1>7. CASE ReaperTerminates  BY <1>2, <1>7 DEF ReaperTerminates
<1>8. CASE Shutdown
    <2>1. closing = {}  BY <1>8 DEF Shutdown, LInv, ShutdownInv
    <2> QED BY <1>2, <1>8, <2>1 DEF Shutdown
<1>9. CASE ShutdownTerminates  BY <1>2, <1>9 DEF ShutdownTerminates
<1>10. CASE UNCHANGED <<streams, handler, doomed, closing>> /\ alive' \subseteq alive
    BY <1>2, <1>10
<1> QED BY <1>4, <1>5, <1>6, <1>7, <1>8, <1>9, <1>10
    DEF Next, Reaper, IssueTicket, Exit, Dies, vars

-----------------------------------------------------------------------------
(* The theorems. *)

\* The whole invariant is kept by every step.
LEMMA StepLive == LInv /\ [Next]_vars => LInv'
BY StepTypes, StepHandlers, StepAlone, StepShutdown, StepTracked DEF LInv

\* LInv is inductive: types, what handlers hold, plays that do not overlap,
\* the order of shutdown, and the owner of each process.
THEOREM LiveInductive == Spec => []LInv
<1>1. Init => LInv  BY InitLive
<1>2. LInv /\ [Next]_vars => LInv'  BY StepLive
<1> QED BY <1>1, <1>2, PTL DEF Spec

\* Every reachable state of the live manager's dicts, requests and transcodes is
\* well typed, for all cameras, requests and processes.
THEOREM LiveTypeCorrect == Spec => []TypeOK
<1>1. LInv => TypeOK  BY DEF LInv
<1> QED BY <1>1, LiveInductive, PTL

\* However many cameras, handlers and processes: a running ffmpeg that nobody
\* owns was lost by two overlapping plays of one camera (_start_stream).
THEOREM LostByOverlapOnly == Spec => []LostOnlyByOverlap
<1>1. LInv => LostOnlyByOverlap  BY DEF LInv
<1> QED BY <1>1, LiveInductive, PTL

\* What runs on after the API has exited was in the reaper's hands, or lost by
\* an overlap (shutdown_live_streams).
THEOREM ExitLeaves == Spec => []ExitLeavesOnlyDoomed
<1>1. LInv => ExitLeavesOnlyDoomed
    <2> SUFFICES ASSUME LInv, app = "exited", ~overlapped PROVE alive \subseteq doomed
        BY DEF ExitLeavesOnlyDoomed
    <2>1. Registered = {} /\ closing = {}  BY DEF LInv, ShutdownInv, Registered
    <2>2. Held = {}  BY DEF LInv, ShutdownInv, Held, Idle
    <2> QED BY <2>1, <2>2 DEF LInv, LostOnlyByOverlap, EveryTranscodeTracked
<1> QED BY <1>1, LiveInductive, PTL

-----------------------------------------------------------------------------
(* Whose process it is *)

Shows(c, p) == streams[c] # None /\ streams[c].proc = p
Has(h, p)   == handler[h].proc = p

\* A process belongs to one camera's entry, to one request, to the reaper or to
\* the shutdown hook, and never to two of them, however plays overlap.
OneOwner ==
    \A p \in Procs :
        /\ \A c, d \in Cameras : Shows(c, p) /\ Shows(d, p) => c = d
        /\ \A g, h \in Handlers : Has(g, p) /\ Has(h, p) => g = h
        /\ (\E c \in Cameras : Shows(c, p)) => \A h \in Handlers : ~Has(h, p)
        /\ p \in doomed \union closing =>
              (\A c \in Cameras : ~Shows(c, p)) /\ (\A h \in Handlers : ~Has(h, p))
        /\ ~(p \in doomed /\ p \in closing)

\* Whatever is registered has a reaper to end it.
Watched == \A c \in Cameras : streams[c] # None => reaperOn

LEMMA InitOwners == Init => OneOwner /\ Watched
<1> SUFFICES ASSUME Init PROVE OneOwner /\ Watched  OBVIOUS
<1>1. /\ \A c \in Cameras : streams[c] = None
      /\ \A h \in Handlers : handler[h].proc = None
      /\ doomed = {} /\ closing = {}
    BY DEF Init, Idle
<1>2. None \notin Procs  BY LiveAssumption
<1> QED BY <1>1, <1>2 DEF OneOwner, Watched, Shows, Has

\* Time and reuse leave every entry its process.
LEMMA EntriesAge ==
    ASSUME TypeOK, Tick \/ \E h \in Handlers, c \in Cameras : PlayReuses(h, c)
    PROVE  \A c \in Cameras : /\ streams[c] = None <=> streams'[c] = None
                              /\ streams[c] # None => streams'[c].proc = streams[c].proc
<1>0. streams \in [Cameras -> Stream \union {None}]  BY DEF TypeOK
<1>1. CASE Tick
    <2> SUFFICES ASSUME NEW c \in Cameras, streams[c] # None
                 PROVE  streams'[c] # None /\ streams'[c].proc = streams[c].proc
        BY <1>1 DEF Tick
    <2>1. streams[c] \in Stream  BY <1>0
    <2>2. /\ Upto(streams[c].age, AgeCap) \in 0..AgeCap
          /\ Upto(streams[c].idle, IdleCap) \in 0..IdleCap
        BY <2>1, LiveAssumption, Caps, UptoBounds DEF Stream
    <2>3. streams'[c] \in Stream /\ streams'[c].proc = streams[c].proc
        BY <1>1, <2>1, <2>2 DEF Tick, Stream
    <2> QED BY <2>3, StreamNotNone
<1>2. ASSUME NEW h \in Handlers, NEW c \in Cameras, PlayReuses(h, c)
      PROVE  \A d \in Cameras : /\ streams[d] = None <=> streams'[d] = None
                                /\ streams[d] # None => streams'[d].proc = streams[d].proc
    <2>1. streams[c] \in Stream  BY <1>0, <1>2 DEF PlayReuses, Running
    <2>2. streams'[c] \in Stream /\ streams'[c].proc = streams[c].proc
        BY <1>0, <1>2, <2>1, LiveAssumption, Caps DEF PlayReuses, Stream
    <2> QED BY <1>0, <1>2, <2>1, <2>2, StreamNotNone DEF PlayReuses
<1> QED BY <1>1, <1>2

\* Nobody takes anything up.
LEMMA OwnersLetGo ==
    ASSUME OneOwner,
           \A c \in Cameras : streams'[c] # None =>
               streams[c] # None /\ streams'[c].proc = streams[c].proc,
           \A h \in Handlers : handler'[h].proc # None => handler'[h].proc = handler[h].proc,
           doomed' \subseteq doomed, closing' \subseteq closing
    PROVE  OneOwner'
<1> SUFFICES ASSUME NEW p \in Procs PROVE OneOwner!(p)'
    BY DEF OneOwner
<1>1. \A c \in Cameras : Shows(c, p)' => Shows(c, p)  BY DEF Shows
<1>2. \A h \in Handlers : Has(h, p)' => Has(h, p)  BY LiveAssumption DEF Has
<1> QED BY <1>1, <1>2 DEF OneOwner

\* A request takes up a process: a new one, or one that it takes off the registry.
LEMMA RequestTakes ==
    ASSUME OneOwner, NEW h \in Handlers, NEW q \in Procs, q \notin doomed \union closing,
           handler'[h].proc = q, \A g \in Handlers \ {h} : handler'[g] = handler[g] /\ ~Has(g, q),
           \A c \in Cameras : streams'[c] = None \/ (streams'[c] = streams[c] /\ ~Shows(c, q)),
           UNCHANGED <<doomed, closing>>
    PROVE  OneOwner'
<1> SUFFICES ASSUME NEW p \in Procs PROVE OneOwner!(p)'
    BY DEF OneOwner
<1>1. \A c \in Cameras : Shows(c, p)' => Shows(c, p) /\ p # q  BY DEF Shows
<1>2. \A g \in Handlers : Has(g, p)' => (g = h /\ p = q) \/ (g # h /\ Has(g, p) /\ p # q)
    BY DEF Has
<1> QED BY <1>1, <1>2 DEF OneOwner

\* What was registered passes to the reaper or to the hook.
LEMMA RegistryPasses ==
    ASSUME OneOwner, NEW S \in SUBSET Cameras,
           streams' = [c \in Cameras |-> IF c \in S THEN None ELSE streams[c]],
           \/ /\ doomed = {} /\ doomed' = {streams[c].proc : c \in S} /\ UNCHANGED closing
           \/ /\ closing = {} /\ closing' = {streams[c].proc : c \in S} /\ UNCHANGED doomed,
           \A c \in S : streams[c] # None, UNCHANGED handler
    PROVE  OneOwner'
<1> SUFFICES ASSUME NEW p \in Procs PROVE OneOwner!(p)'
    BY DEF OneOwner
<1>1. \A c \in Cameras : Shows(c, p)' => Shows(c, p) /\ c \notin S  BY DEF Shows
<1>2. \A h \in Handlers : Has(h, p)' <=> Has(h, p)  BY DEF Has
<1>3. CASE \E c \in S : streams[c].proc = p
    <2>1. PICK c \in S : Shows(c, p)  BY <1>3 DEF Shows
    <2>2. p \notin doomed /\ p \notin closing /\ \A h \in Handlers : ~Has(h, p)
        BY <2>1 DEF OneOwner
    <2>3. \A d \in Cameras : ~Shows(d, p)'  BY <1>1, <2>1 DEF OneOwner
    <2> QED BY <1>2, <2>2, <2>3
<1>4. CASE ~\E c \in S : streams[c].proc = p
    <2>1. (p \in doomed' => p \in doomed) /\ (p \in closing' => p \in closing)  BY <1>4
    <2> QED BY <1>1, <1>2, <2>1 DEF OneOwner
<1> QED BY <1>3, <1>4

LEMMA StepOwners == LInv /\ OneOwner /\ [Next]_vars => OneOwner'
<1> SUFFICES ASSUME LInv, OneOwner, [Next]_vars PROVE OneOwner'  OBVIOUS
<1>0. /\ handler \in [Handlers -> [pc : {"idle", "launch", "register", "terminate", "snapshot"},
                                   cam : Cameras \union {None}, proc : Procs \union {None}]]
      /\ streams \in [Cameras -> Stream \union {None}]
      /\ TypeOK /\ HandlerInv
    BY DEF LInv, TypeOK
<1>1. CASE Tick
    BY <1>0, <1>1, EntriesAge, OwnersLetGo DEF Tick
<1>2. ASSUME NEW h \in Handlers, Requests(h) PROVE OneOwner'
    <2>1. ASSUME NEW c \in Cameras, PlayReuses(h, c) PROVE OneOwner'
        BY <1>0, <2>1, EntriesAge, OwnersLetGo DEF PlayReuses
    <2>2. ASSUME NEW c \in Cameras, PlayMisses(h, c) PROVE OneOwner'
        BY <1>0, <2>2, OwnersLetGo DEF PlayMisses
    <2>3. ASSUME NEW c \in Cameras, Stop(h, c) PROVE OneOwner'
        <3>1. streams[c] # None /\ streams[c].proc \in Procs /\ Shows(c, streams[c].proc)
            BY <1>0, <2>3 DEF Stop, Stream, Shows
        <3>2. /\ handler'[h].proc = streams[c].proc
              /\ \A g \in Handlers \ {h} : handler'[g] = handler[g]
              /\ streams'[c] = None /\ \A d \in Cameras \ {c} : streams'[d] = streams[d]
              /\ UNCHANGED <<doomed, closing>>
            BY <1>0, <2>3 DEF Stop
        <3>3. /\ streams[c].proc \notin doomed \union closing
              /\ \A g \in Handlers : ~Has(g, streams[c].proc)
              /\ \A d \in Cameras \ {c} : ~Shows(d, streams[c].proc)
            BY <3>1 DEF OneOwner
        <3> QED BY <3>1, <3>2, <3>3, RequestTakes
    <2>4. ASSUME Snapshot(h) \/ Launch(h) PROVE OneOwner'
        <3>1. PICK q \in Free : /\ handler'[h].proc = q
                                /\ \A g \in Handlers \ {h} : handler'[g] = handler[g]
            BY <1>0, <2>4 DEF Snapshot, Launch
        <3>2. /\ q \in Procs /\ q \notin doomed \union closing
              /\ \A g \in Handlers : ~Has(g, q) /\ \A c \in Cameras : ~Shows(c, q)
            BY LiveAssumption DEF Free, Held, Registered, Has, Shows
        <3>3. UNCHANGED <<streams, doomed, closing>>  BY <2>4 DEF Snapshot, Launch
        <3> QED BY <3>1, <3>2, <3>3, RequestTakes
    <2>5. CASE LaunchFails(h) \/ Terminate(h) \/ SnapshotAnswers(h)
        BY <1>0, <2>5, OwnersLetGo DEF LaunchFails, Terminate, SnapshotAnswers, Idle
    <2>6. CASE Register(h)
        <3> DEFINE d == handler[h].cam
                   q == handler[h].proc
        <3>1. d \in Cameras /\ q \in Procs  BY <1>0, <2>6 DEF Register, HandlerInv
        <3>2. /\ streams'[d] = [proc |-> q, age |-> 0, idle |-> 0]
              /\ \A c \in Cameras \ {d} : streams'[c] = streams[c]
              /\ handler'[h].proc = None
              /\ \A g \in Handlers \ {h} : handler'[g] = handler[g]
              /\ UNCHANGED <<doomed, closing>>
            BY <1>0, <2>6, <3>1 DEF Register, Idle
        <3>3. streams'[d].proc = q  BY <3>2
        <3>4. Has(h, q)  BY DEF Has
        <3> HIDE DEF d, q
        <3> SUFFICES ASSUME NEW p \in Procs PROVE OneOwner!(p)'
            BY DEF OneOwner
        <3>5. \A c \in Cameras : Shows(c, p)' => (c = d /\ p = q) \/ (c # d /\ Shows(c, p))
            BY <3>2, <3>3 DEF Shows
        <3>6. \A g \in Handlers : Has(g, p)' => g # h /\ Has(g, p)
            BY <3>2, LiveAssumption DEF Has
        <3>7. CASE p = q
            <4>1. p \notin doomed \union closing /\ \A c \in Cameras : ~Shows(c, p)
                BY <3>4, <3>7 DEF OneOwner
            <4>2. \A g \in Handlers : ~Has(g, p)'  BY <3>4, <3>6, <3>7 DEF OneOwner
            <4> QED BY <3>2, <3>5, <4>1, <4>2
        <3>8. CASE p # q
            BY <3>2, <3>5, <3>6, <3>8 DEF OneOwner
        <3> QED BY <3>7, <3>8
    <2> QED BY <1>2, <2>1, <2>2, <2>3, <2>4, <2>5, <2>6 DEF Requests, Finishing
<1>3. CASE ReaperWakes
    <2> DEFINE S == {c \in Cameras : Stale(c)}
    <2>1. /\ doomed = {} /\ doomed' = {streams[c].proc : c \in S} /\ UNCHANGED <<handler, closing>>
          /\ streams' = [c \in Cameras |-> IF c \in S THEN None ELSE streams[c]]
          /\ \A c \in S : streams[c] # None
        BY <1>3 DEF ReaperWakes, Stale
    <2> QED BY <2>1, RegistryPasses
<1>4. CASE Shutdown
    <2> DEFINE S == {c \in Cameras : streams[c] # None}
    <2>1. /\ closing = {} /\ closing' = {streams[c].proc : c \in S} /\ UNCHANGED <<handler, doomed>>
          /\ streams' = [c \in Cameras |-> IF c \in S THEN None ELSE streams[c]]
        BY <1>4 DEF Shutdown, Registered, LInv, ShutdownInv
    <2>2. S \in SUBSET Cameras /\ \A c \in S : streams[c] # None  OBVIOUS
    <2> HIDE DEF S
    <2> QED BY <2>1, <2>2, RegistryPasses
<1>5. CASE /\ UNCHANGED <<streams, handler>> /\ doomed' \subseteq doomed /\ closing' \subseteq closing
    BY <1>5, OwnersLetGo
<1> QED BY <1>1, <1>2, <1>3, <1>4, <1>5
    DEF Next, Reaper, IssueTicket, ReaperTerminates, ShutdownTerminates, Exit, Dies, vars

LEMMA StepWatched == LInv /\ Watched /\ [Next]_vars => Watched'
<1> SUFFICES ASSUME LInv, Watched, [Next]_vars PROVE Watched'  OBVIOUS
<1>0. streams \in [Cameras -> Stream \union {None}] /\ TypeOK  BY DEF LInv, TypeOK
<1>1. CASE \E h \in Handlers : Register(h)  BY <1>1 DEF Register, Watched
<1>2. CASE Tick \/ \E h \in Handlers, c \in Cameras : PlayReuses(h, c)
    <2>1. reaperOn' = reaperOn  BY <1>2 DEF Tick, PlayReuses
    <2>2. \A c \in Cameras : streams[c] = None <=> streams'[c] = None
        BY <1>0, <1>2, EntriesAge
    <2> QED BY <2>1, <2>2 DEF Watched
<1>3. CASE /\ UNCHANGED reaperOn
           /\ \A c \in Cameras : streams'[c] = streams[c] \/ streams'[c] = None
    BY <1>3 DEF Watched
<1>4. \/ Tick \/ \E h \in Handlers : Register(h) \/ \E c \in Cameras : PlayReuses(h, c)
      \/ /\ UNCHANGED reaperOn
         /\ \A c \in Cameras : streams'[c] = streams[c] \/ streams'[c] = None
    BY <1>0 DEF Next, Requests, Finishing, Reaper, IssueTicket, PlayMisses, Stop, Snapshot, Launch,
           LaunchFails, Terminate, SnapshotAnswers, ReaperWakes, ReaperTerminates, Shutdown,
           ShutdownTerminates, Exit, Dies, vars
<1> QED BY <1>1, <1>2, <1>3, <1>4

\* The safety half of StaleStreamsEnd: whatever plays overlap, an entry of the
\* registry never lacks the reaper thread that ends it, and no process is handed
\* to two of those who end processes (_ensure_reaper, live.py).
THEOREM OwnedAndWatched == Spec => [](OneOwner /\ Watched)
<1>1. Init => OneOwner /\ Watched  BY InitOwners
<1>2. LInv /\ OneOwner /\ Watched /\ [Next]_vars => (OneOwner /\ Watched)'
    BY StepOwners, StepWatched
<1> QED BY <1>1, <1>2, LiveInductive, PTL DEF Spec

\* No request, reaper or hook ends a transcode that stays in the registry: one
\* that is shown to a viewer runs until its own ffmpeg ends.
THEOREM RegisteredRunsOn ==
    Spec => [][\A c \in Cameras :
                  /\ Running(c) /\ streams'[c] # None /\ streams'[c].proc = streams[c].proc
                  /\ ~Dies(streams[c].proc)
                  => streams[c].proc \in alive']_vars
<1>1. ASSUME LInv, OneOwner, [Next]_vars, NEW c \in Cameras,
             Running(c), streams'[c] # None, ~Dies(streams[c].proc)
      PROVE  streams[c].proc \in alive'
    <2> DEFINE p == streams[c].proc
    <2>1. p \in alive /\ p \in Procs /\ Shows(c, p)
        BY <1>1 DEF Running, Shows, LInv, TypeOK
    <2>2. p \notin doomed \union closing /\ \A h \in Handlers : handler[h].proc # p
        BY <1>1, <2>1 DEF OneOwner, Has
    <2> HIDE DEF p
    <2>3. \A q \in Procs : Dies(q) => p \in alive'
        BY <1>1, <2>1 DEF Dies, p
    <2> QED BY <1>1, <2>1, <2>2, <2>3
        DEF p, Next, Requests, Finishing, Reaper, Tick, IssueTicket, PlayReuses, PlayMisses, Stop,
            Snapshot, Launch, LaunchFails, Register, Terminate, SnapshotAnswers, ReaperWakes,
            ReaperTerminates, Shutdown, ShutdownTerminates, Exit, vars
<1>2. LInv /\ OneOwner /\ [Next]_vars
      => [\A c \in Cameras :
             /\ Running(c) /\ streams'[c] # None /\ streams'[c].proc = streams[c].proc
             /\ ~Dies(streams[c].proc)
             => streams[c].proc \in alive']_vars
    BY <1>1
<1> QED BY <1>2, LiveInductive, OwnedAndWatched, PTL DEF Spec

\* Promptness is inductive once an entry never lacks its reaper.
LEMMA StepInTime ==
    LInv /\ Watched /\ EndInTime /\ [Next]_vars => EndInTime'
<1> SUFFICES ASSUME LInv, Watched, EndInTime, [Next]_vars, ~late',
                    NEW c \in Cameras, streams'[c] # None
             PROVE  /\ streams'[c].idle <= IdleTimeout + waited'
                    /\ streams'[c].age <= MaxDuration + waited'
    BY DEF EndInTime
<1>0. /\ streams \in [Cameras -> Stream \union {None}]
      /\ handler \in [Handlers -> [pc : {"idle", "launch", "register", "terminate", "snapshot"},
                                   cam : Cameras \union {None}, proc : Procs \union {None}]]
      /\ waited \in 0..IdleTimeout /\ IdleTimeout \in Nat /\ MaxDuration \in Nat
    BY LiveAssumption DEF LInv, TypeOK
<1>1. streams[c] # None => /\ streams[c].idle \in Nat /\ streams[c].age \in Nat
                           /\ streams[c] \in [proc : Procs, age : Nat, idle : Nat]
    BY <1>0, LiveAssumption DEF Stream, AgeCap, IdleCap
<1>2. CASE Tick
    <2>1. /\ streams[c] # None
          /\ streams' = [d \in Cameras |->
                IF streams[d] = None THEN None
                ELSE [streams[d] EXCEPT !.age = Upto(@, AgeCap), !.idle = Upto(@, IdleCap)]]
        BY <1>2 DEF Tick
    <2>2. ~late /\ reaperOn /\ doomed = {} /\ waited # IdleTimeout
        BY <1>2, <2>1 DEF Tick, Watched
    <2>3. waited' = waited + 1
        <3>1. waited' = IF reaperOn /\ doomed = {} THEN Upto(waited, IdleTimeout) ELSE 0
            BY <1>2 DEF Tick
        <3>2. waited' = Upto(waited, IdleTimeout)  BY <2>2, <3>1
        <3> QED BY <1>0, <2>2, <3>2 DEF Upto
    <2>4. /\ streams[c].idle <= IdleTimeout + waited
          /\ streams[c].age <= MaxDuration + waited
        BY <2>1, <2>2 DEF EndInTime
    <2>5. /\ streams'[c].age = Upto(streams[c].age, AgeCap)
          /\ streams'[c].idle = Upto(streams[c].idle, IdleCap)
        BY <1>1, <2>1
    <2>6. /\ Upto(streams[c].age, AgeCap) <= MaxDuration + waited + 1
          /\ Upto(streams[c].idle, IdleCap) <= IdleTimeout + waited + 1
        <3>1. waited \in Nat /\ waited < IdleTimeout  BY <1>0, <2>2
        <3> QED BY <1>0, <1>1, <2>1, <2>4, <3>1, UptoFollows DEF AgeCap, IdleCap
    <2> QED BY <1>0, <2>3, <2>5, <2>6
<1>3. CASE ReaperWakes
    <2>1. waited' = 0 /\ streams[c] # None /\ streams'[c] = streams[c] /\ ~Stale(c)
        BY <1>0, <1>3 DEF ReaperWakes
    <2> QED BY <1>0, <1>1, <2>1 DEF Stale
<1>4. ASSUME UNCHANGED <<late, waited>>, streams'[c] = streams[c]
      PROVE  /\ streams'[c].idle <= IdleTimeout + waited'
             /\ streams'[c].age <= MaxDuration + waited'
    BY <1>4 DEF EndInTime
<1>5. ASSUME NEW h \in Handlers, Register(h)
      PROVE  /\ streams'[c].idle <= IdleTimeout + waited'
             /\ streams'[c].age <= MaxDuration + waited'
    <2>1. CASE c = handler[h].cam
        BY <1>0, <1>5, <2>1 DEF Register
    <2>2. CASE c # handler[h].cam
        BY <1>0, <1>4, <1>5, <2>2 DEF Register
    <2> QED BY <2>1, <2>2
<1>6. ASSUME NEW h \in Handlers, NEW d \in Cameras, PlayReuses(h, d)
      PROVE  /\ streams'[c].idle <= IdleTimeout + waited'
             /\ streams'[c].age <= MaxDuration + waited'
    <2>1. CASE c = d
        <3>1. streams[c] # None /\ streams' = [streams EXCEPT ![c].idle = 0]
            BY <1>6, <2>1 DEF PlayReuses, Running
        <3>2. streams'[c].idle = 0 /\ streams'[c].age = streams[c].age
            BY <1>0, <1>1, <3>1
        <3>3. streams[c].age <= MaxDuration + waited /\ waited' = waited
            BY <1>6, <3>1 DEF PlayReuses, EndInTime
        <3> QED BY <1>0, <3>2, <3>3
    <2>2. CASE c # d
        BY <1>0, <1>4, <1>6, <2>2 DEF PlayReuses
    <2> QED BY <2>1, <2>2
<1>7. \/ Tick \/ ReaperWakes \/ \E h \in Handlers : Register(h)
      \/ \E h \in Handlers, d \in Cameras : PlayReuses(h, d)
      \/ UNCHANGED <<late, waited>> /\ streams'[c] = streams[c]
    BY <1>0 DEF Next, Requests, Finishing, Reaper, IssueTicket, PlayMisses, Stop, Snapshot, Launch,
           LaunchFails, Terminate, SnapshotAnswers, ReaperTerminates, Shutdown,
           ShutdownTerminates, Exit, Dies, vars
<1> QED BY <1>2, <1>3, <1>4, <1>5, <1>6, <1>7

\* However plays, stops and deaths fall, a transcode nobody asks for leaves the
\* registry within two idle timeouts, and one that is too old within one more,
\* as long as the reaper is not held up (_reap_loop, live.py).
THEOREM EndedInTime == Spec => []EndInTime
<1>1. Init => EndInTime  BY DEF Init, EndInTime
<1> QED BY <1>1, StepInTime, OwnedAndWatched, LiveInductive, PTL DEF Spec

=============================================================================
