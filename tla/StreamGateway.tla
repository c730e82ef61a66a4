---------------------------- MODULE StreamGateway ----------------------------
(***************************************************************************)
(* One camera thread of the worker: StreamGateway.iter_frames driven by     *)
(* run_camera, over an FFmpegFrameSource, and the health it publishes to    *)
(* the Camera row.  The host name of the camera, its stream and ffmpeg are  *)
(* the environment; sleeping is one step, its length the index into         *)
(* BACKOFF_SCHEDULE (the jitter is left out).                               *)
(***************************************************************************)
EXTENDS Integers

CONSTANTS
    MaxConsecutiveFailures, \* MAX_CONSECUTIVE_FAILURES
    Schedule,               \* number of entries of BACKOFF_SCHEDULE
    MaxRestarts,            \* bound: restarts of the worker
    MaxFaults               \* bound: failing database writes

ASSUME GatewayAssumption ==
    /\ MaxConsecutiveFailures \in Nat \ {0}
    /\ Schedule \in Nat \ {0}
    /\ MaxRestarts \in Nat
    /\ MaxFaults \in Nat

VARIABLES
    host,       \* the URL resolves to an address the egress guard admits
    link,       \* the stream behind it: "up", "down" or "stalled"
    pc,         \* where the camera thread is
    status,     \* StreamGateway.status
    dbStatus,   \* Camera.status, what the dashboard shows
    attempt,    \* iter_frames: the local counter of failures
    delay,      \* index into BACKOFF_SCHEDULE of the current sleep
    stop,       \* the worker's stop event
    failures,   \* history: failures since the last frame, saturating
    restarts, faults

env  == <<host, link>>
gatewayVars == <<env, pc, status, dbStatus, attempt, delay, stop, failures, restarts, faults>>

Enough == MaxConsecutiveFailures + 1    \* where failures stops counting

Least(a, b) == IF a <= b THEN a ELSE b

GatewayInit ==
    /\ host \in BOOLEAN
    /\ link \in {"up", "down", "stalled"}
    /\ pc = "make"
    /\ status = "OFFLINE"
    /\ dbStatus = "OFFLINE"
    /\ attempt = 0
    /\ delay = 0
    /\ stop = FALSE
    /\ failures = 0
    /\ restarts = 0
    /\ faults = 0

\* Faulty variant: a reconnecting camera is not reported.
SetConnected(st) ==
    /\ status' = st
    /\ IF st \in {status, "RECONNECTING"}
       THEN UNCHANGED <<dbStatus, faults>>
       ELSE dbStatus' = st /\ UNCHANGED faults

\* _set: the callback runs only when the status changes; persist_camera_status
\* logs and swallows a failing write.
Set(st) ==
    /\ status' = st
    /\ IF st = status
       THEN UNCHANGED <<dbStatus, faults>>
       ELSE \/ dbStatus' = st /\ UNCHANGED faults
            \/ faults < MaxFaults /\ faults' = faults + 1 /\ UNCHANGED dbStatus

\* _backoff: the entry of BACKOFF_SCHEDULE for the n-th failure.
BackoffIndex(n) == Least(n, Schedule - 1)

\* Sleep _backoff(attempt), one more failure in a row.
Backoff ==
    /\ delay' = BackoffIndex(attempt)
    /\ failures' = Least(failures + 1, Enough)

-----------------------------------------------------------------------------
\* make_source raises: the URL no longer passes build_args' egress check.
SourceRefused ==
    /\ pc = "make"
    /\ ~host
    /\ Set("OFFLINE")
    /\ Backoff
    /\ pc' = "sleepRefused"
    /\ UNCHANGED <<env, attempt, stop, restarts>>

\* Faulty variant: the counter of failures survives a successful open.
SourceMadeNoReset ==
    /\ pc = "make"
    /\ host
    /\ Set("ONLINE")
    /\ pc' = "reading"
    /\ UNCHANGED <<env, attempt, delay, stop, failures, restarts>>

\* Faulty variant: the new stream is not reported.
SourceMadeSilently ==
    /\ pc = "make"
    /\ host
    /\ attempt' = 0
    /\ pc' = "reading"
    /\ UNCHANGED <<env, status, dbStatus, delay, stop, failures, restarts, faults>>

\* make_source returns.  FFmpegFrameSource has opened nothing yet.
SourceMade ==
    /\ pc = "make"
    /\ host
    /\ Set("ONLINE")
    /\ attempt' = 0
    /\ pc' = "reading"
    /\ UNCHANGED <<env, delay, stop, failures, restarts>>

\* A frame reaches run_camera, which looks at the stop event only here.
Frame ==
    /\ pc = "reading"
    /\ link = "up"
    /\ failures' = 0
    /\ pc' = IF stop THEN "stopped" ELSE "reading"
    /\ UNCHANGED <<env, status, dbStatus, attempt, delay, stop, restarts, faults>>

\* ffmpeg exits or cannot be launched: frames() raises.
SourceFails ==
    /\ pc = "reading"
    /\ link = "down"
    /\ Set("RECONNECTING")
    /\ Backoff
    /\ pc' = "sleepFailed"
    /\ UNCHANGED <<env, attempt, stop, restarts>>

\* The sleep after a refused source: past the budget the thread returns.
WakeRefused ==
    /\ pc = "sleepRefused"
    /\ attempt' = attempt + 1
    /\ pc' = IF attempt' > MaxConsecutiveFailures THEN "ended" ELSE "make"
    /\ UNCHANGED <<env, status, dbStatus, delay, stop, failures, restarts, faults>>

\* The sleep after a failed stream.
WakeFailed ==
    /\ pc = "sleepFailed"
    /\ attempt' = attempt + 1
    /\ Set(IF attempt' > MaxConsecutiveFailures THEN "OFFLINE" ELSE status)
    /\ pc' = IF attempt' > MaxConsecutiveFailures THEN "ended" ELSE "make"
    /\ UNCHANGED <<env, delay, stop, failures, restarts>>

SetStop ==
    /\ ~stop
    /\ stop' = TRUE
    /\ UNCHANGED <<env, pc, status, dbStatus, attempt, delay, failures, restarts, faults>>

\* The worker is killed, or stopped, and started again: a new gateway.
WorkerRestarts ==
    /\ restarts < MaxRestarts
    /\ restarts' = restarts + 1
    /\ pc' = "make"
    /\ status' = "OFFLINE"
    /\ attempt' = 0
    /\ delay' = 0
    /\ stop' = FALSE
    /\ failures' = 0
    /\ UNCHANGED <<env, dbStatus, faults>>

\* The network changes.
Network ==
    /\ host' \in BOOLEAN
    /\ link' \in {"up", "down", "stalled"}
    /\ UNCHANGED <<pc, status, dbStatus, attempt, delay, stop, failures, restarts, faults>>

CameraThread ==
    \/ SourceRefused \/ SourceMade
    \/ Frame \/ SourceFails
    \/ WakeRefused \/ WakeFailed

GatewayNext == CameraThread \/ SetStop \/ WorkerRestarts \/ Network

GatewaySpec == GatewayInit /\ [][GatewayNext]_gatewayVars

\* The thread runs; nothing is assumed of the network or the operator.
FairGateway == GatewaySpec /\ WF_gatewayVars(CameraThread)

-----------------------------------------------------------------------------
GatewayTypeOK ==
    /\ host \in BOOLEAN
    /\ link \in {"up", "down", "stalled"}
    /\ pc \in {"make", "reading", "sleepRefused", "sleepFailed", "ended", "stopped"}
    /\ status \in {"OFFLINE", "ONLINE", "RECONNECTING"}
    /\ dbStatus \in {"OFFLINE", "ONLINE", "RECONNECTING"}
    /\ attempt \in 0..(MaxConsecutiveFailures + 1)
    /\ delay \in 0..(Schedule - 1)
    /\ stop \in BOOLEAN
    /\ failures \in 0..Enough
    /\ restarts \in 0..MaxRestarts
    /\ faults \in 0..MaxFaults

\* iter_frames gives a camera up only after an unbroken run of more than
\* MAX_CONSECUTIVE_FAILURES failures: an outage that delivered a frame in
\* between never counts towards the next one.
GivesUpOnlyAfterBudget == pc = "ended" => failures = Enough

\* A camera whose address stays good is retried for as long as its stream is
\* down: the thread never ends on it, however long the outage.
RetriesForever ==
    [](host /\ link = "down" /\ ~stop) => []<>(pc = "reading")

\* Once the camera stays reachable and streaming, the thread settles on
\* reading from it and says so, unless it had already given up or stops.
SettlesOnReading ==
    <>[](host /\ link = "up") =>
        <>[](\/ pc = "reading" /\ status = "ONLINE"
             \/ pc \in {"ended", "stopped"})

\* An outage of any length ends with the stream (gateway.py 48-76).
Recovers == RetriesForever /\ SettlesOnReading

\* What the dashboard reads from the Camera row is what the thread is doing: no
\* camera that is being retried or was given up is shown as streaming.  Only a
\* status write that failed, or a row left by an earlier run of the worker,
\* makes it differ, and the latter until the first transition.
ShownStatusTruthful ==
    faults = 0 =>
        /\ pc = "reading" => dbStatus = "ONLINE"
        /\ (/\ pc \in {"sleepRefused", "sleepFailed", "ended"}
            /\ restarts = 0 \/ status # "OFFLINE") => dbStatus # "ONLINE"

\* system-architecture.md: exponential backoff that never hammers the NVR.
\* While its address is good, each further failure in a row of a camera sleeps
\* for the next entry of the schedule.
BackoffEscalates ==
    []host => [](pc = "sleepFailed" => delay = BackoffIndex(failures - 1))

\* gateway.py, lines 6 and 70: a stalled stream is detected, and the camera
\* connected anew.
StallsDetected == [](link = "stalled" /\ ~stop) => []<>(pc # "reading")

=============================================================================
