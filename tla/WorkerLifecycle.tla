--------------------------- MODULE WorkerLifecycle ----------------------------
(***************************************************************************)
(* The worker process (apps/worker/main.py) and the camera rows it reads    *)
(* once, when it starts: the threads of each camera, the ffmpeg process of  *)
(* its record thread (packages/video/recorder.py), the background threads,  *)
(* and what SIGTERM, Ctrl-C and a kill do to them.  The API changes camera  *)
(* rows meanwhile (apps/api/routers/cameras.py, rules.py).                  *)
(* What a frame or a clip holds is in PresencePipeline and RecordingArchive.*)
(***************************************************************************)
EXTENDS Integers, FiniteSets

CONSTANTS
    Camera,     \* ids of camera rows; none is given out twice
    Followed,   \* the cameras whose threads are modelled: threads of two
                \* cameras share nothing but the stop event
    MaxEdits,   \* bound: creations and changes of rows
    MaxLives    \* bound: starts of the worker

ASSUME WorkerAssumption == Followed \subseteq Camera /\ {MaxEdits, MaxLives} \subseteq Nat

VARIABLES
    rows,       \* camera -> its row
    deleted,    \* ids of deleted rows
    edits,      \* edits so far
    proc,       \* the process: "down", "running", "joining" (after Ctrl-C)
    lives,      \* starts so far
    stop,       \* the stop event
    copy,       \* camera -> the row its threads were started with
    loop,       \* camera -> its frame loop
    recorder,   \* camera -> its record thread
    ffmpeg,     \* cameras whose current segment is being written
    background, \* the sender and the reaper while they run
    orphans,    \* cameras with an ffmpeg left by an earlier process
    late        \* history: cameras whose segment was launched after stop_all

table   == <<rows, deleted, edits>>
threads == <<loop, recorder, ffmpeg, background>>
left    == <<orphans, late>>
vars    == <<table, proc, lives, stop, copy, threads, left>>

\* A row is told apart by the edit that last wrote its address, masks or rules.
CameraRow == 1..MaxEdits
Loops == {"none", "loading", "reading", "backoff", "leaving", "done"}
Recorders == {"none", "checking", "launching", "waiting", "done"}
Background == {"sender", "reaper"}

Init ==
    /\ rows = << >> /\ deleted = {} /\ edits = 0
    /\ proc = "down" /\ lives = 0 /\ stop = FALSE
    /\ copy = << >>
    /\ loop = [c \in Followed |-> "none"] /\ recorder = [c \in Followed |-> "none"]
    /\ ffmpeg = {} /\ background = {}
    /\ orphans = {} /\ late = {}

-----------------------------------------------------------------------------
(* The camera rows.  One edit is one commit: an address the egress guard    *)
(* refuses leaves no trace, and an NVR's channels are created together.     *)

Write(C) ==
    /\ edits < MaxEdits
    /\ edits' = edits + 1
    /\ rows' = [c \in DOMAIN rows \union C |-> IF c \in C THEN edits' ELSE rows[c]]
    /\ UNCHANGED <<deleted, proc, lives, stop, copy, threads, left>>

\* create_camera writes one row, from-nvr one for each channel.
CreateCameras(C) ==
    /\ C # {} /\ C \intersect (DOMAIN rows \union deleted) = {}
    /\ Write(C)

\* update_camera and put_rules.
UpdateCamera(c) == c \in DOMAIN rows /\ Write({c})

\* delete_camera: the worker is not told; its threads go on.
DeleteCamera(c) ==
    /\ c \in DOMAIN rows
    /\ rows' = [d \in DOMAIN rows \ {c} |-> rows[d]]
    /\ deleted' = deleted \union {c}
    /\ UNCHANGED <<edits, proc, lives, stop, copy, threads, left>>

-----------------------------------------------------------------------------
(* main(): start, SIGTERM, Ctrl-C, and the end of the process *)

Start ==
    /\ proc = "down" /\ lives < MaxLives
    /\ proc' = "running" /\ lives' = lives + 1 /\ stop' = FALSE
    /\ copy' = rows
    /\ loop' = [c \in Followed |-> IF c \in DOMAIN copy' THEN "loading" ELSE "none"]
    /\ background' = Background
    /\ UNCHANGED <<table, recorder, ffmpeg, left>>

\* The handler sets the event; `while True: time.sleep(1)` goes on.
Sigterm ==
    /\ proc = "running" /\ ~stop
    /\ stop' = TRUE
    /\ UNCHANGED <<table, proc, lives, copy, threads, left>>

CtrlC ==
    /\ proc = "running"
    /\ proc' = "joining" /\ stop' = TRUE
    /\ UNCHANGED <<table, lives, copy, threads, left>>

Ended(c) == loop[c] \in {"none", "done"}

\* The threads are daemons and die with the process; its ffmpeg children do
\* not.
Dies ==
    /\ proc' = "down" /\ background' = {} /\ stop' = FALSE
    /\ orphans' = orphans \union ffmpeg /\ ffmpeg' = {}
    /\ loop' = [c \in Followed |-> "none"] /\ recorder' = [c \in Followed |-> "none"]
    /\ UNCHANGED <<table, lives, copy, late>>

\* Every frame loop has been joined, or its five seconds have passed; the
\* record threads are not joined.
Exit == proc = "joining" /\ Dies

\* A crash, or the SIGKILL that follows a SIGTERM.
Killed == proc = "running" /\ Dies

-----------------------------------------------------------------------------
(* run_camera *)

\* The detector is loaded; the record thread starts if there is a main URL
\* and recording is on.
StartCamera(c) ==
    /\ loop[c] = "loading"
    /\ loop' = [loop EXCEPT ![c] = "reading"]
    /\ \/ recorder' = [recorder EXCEPT ![c] = "checking"]
       \/ UNCHANGED recorder
    /\ UNCHANGED <<table, proc, lives, stop, copy, ffmpeg, background, left>>

\* "camera not started": the thread returns.
DetectorFails(c) ==
    /\ loop[c] = "loading"
    /\ loop' = [loop EXCEPT ![c] = "done"]
    /\ UNCHANGED <<table, proc, lives, stop, copy,
                   recorder, ffmpeg, background, left>>

Move(c, from, to) ==
    /\ loop[c] = from
    /\ loop' = [loop EXCEPT ![c] = to]
    /\ UNCHANGED <<table, proc, lives, stop, copy,
                   recorder, ffmpeg, background, left>>

\* The stop event is looked at when a frame arrives, and only then.
FrameWhileStopped(c) == stop /\ Move(c, "reading", "leaving")

\* The gateway's back-off does not look at the event.
SourceFails(c) == Move(c, "reading", "backoff")
Reconnect(c)   == Move(c, "backoff", "reading")

\* iter_frames returns: a source that ended, or too many refusals.
GatewayReturns(c) == Move(c, "reading", "leaving") \/ Move(c, "backoff", "leaving")

\* Faulty variant: the thread returns without recorder.stop_all().
LeaveAtOnce(c) ==
    /\ loop[c] = "leaving"
    /\ loop' = [loop EXCEPT ![c] = "done"]
    /\ UNCHANGED <<table, proc, lives, stop, copy,
                   recorder, ffmpeg, background, left>>

\* stop_all terminates and reaps the segment being written.
StopAll(c) ==
    /\ loop[c] = "leaving"
    /\ loop' = [loop EXCEPT ![c] = "done"]
    /\ ffmpeg' = ffmpeg \ {c}
    /\ UNCHANGED <<table, proc, lives, stop, copy, recorder, background, left>>

-----------------------------------------------------------------------------
(* _record_loop.  Between its look at the event and the launch come the     *)
(* check of the URL, with a name lookup, and the fork.                      *)

\* Faulty variant: the loop tests nothing.
LoopForever(c) ==
    /\ recorder[c] = "checking"
    /\ recorder' = [recorder EXCEPT ![c] = "launching"]
    /\ UNCHANGED <<table, proc, lives, stop, copy,
                   loop, ffmpeg, background, left>>

CheckStop(c) ==
    /\ recorder[c] = "checking"
    /\ recorder' = [recorder EXCEPT ![c] = IF stop THEN "done" ELSE "launching"]
    /\ UNCHANGED <<table, proc, lives, stop, copy,
                   loop, ffmpeg, background, left>>

Launch(c) ==
    /\ recorder[c] = "launching"
    /\ recorder' = [recorder EXCEPT ![c] = "waiting"]
    /\ ffmpeg' = ffmpeg \union {c}
    /\ late' = IF loop[c] = "done" THEN late \union {c} ELSE late \ {c}
    /\ UNCHANGED <<table, proc, lives, stop, copy,
                   loop, background, orphans>>

\* The URL is refused or ffmpeg cannot be forked; two seconds' pause.
LaunchFails(c) ==
    /\ recorder[c] = "launching"
    /\ recorder' = [recorder EXCEPT ![c] = "checking"]
    /\ UNCHANGED <<table, proc, lives, stop, copy,
                   loop, ffmpeg, background, left>>

\* The segment is full or the stream dropped.
SegmentEnds(c) ==
    /\ c \in ffmpeg
    /\ ffmpeg' = ffmpeg \ {c}
    /\ UNCHANGED <<table, proc, lives, stop, copy,
                   loop, recorder, background, left>>

\* wait() returns; the clip is stored, or discarded if it was cut off.
SegmentDone(c) ==
    /\ recorder[c] = "waiting" /\ c \notin ffmpeg
    /\ recorder' = [recorder EXCEPT ![c] = "checking"]
    /\ UNCHANGED <<table, proc, lives, stop, copy,
                   loop, ffmpeg, background, left>>

\* An orphan stops by itself: it was given a duration.
OrphanEnds(c) ==
    /\ c \in orphans
    /\ orphans' = orphans \ {c}
    /\ UNCHANGED <<table, proc, lives, stop, copy, threads, late>>

\* _alert_sender and _retention_loop see the event at their next turn.
BackgroundEnds(b) ==
    /\ stop /\ b \in background
    /\ background' = background \ {b}
    /\ UNCHANGED <<table, proc, lives, stop, copy,
                   loop, recorder, ffmpeg, left>>

FrameLoop(c) ==
    \/ StartCamera(c) \/ DetectorFails(c) \/ SourceFails(c) \/ Reconnect(c)
    \/ GatewayReturns(c) \/ FrameWhileStopped(c) \/ StopAll(c)

RecordThread(c) == CheckStop(c) \/ Launch(c) \/ LaunchFails(c) \/ SegmentDone(c)

\* The API's handlers.
Edits ==
    \/ \E C \in SUBSET Camera : CreateCameras(C)
    \/ \E c \in Camera : UpdateCamera(c) \/ DeleteCamera(c)

Threads ==
    \/ \E c \in Followed : FrameLoop(c) \/ RecordThread(c) \/ SegmentEnds(c) \/ OrphanEnds(c)
    \/ \E b \in Background : BackgroundEnds(b)

\* The threads take the steps that are theirs alone, and the joins time out.
\* Nothing is assumed of the cameras: a read may block for ever, a source may
\* stay away, and ffmpeg ends when the stream has given it its duration, which
\* a stalled one never does.  Nobody has to stop anything.
Fairness ==
    /\ WF_vars(Exit)
    /\ \A c \in Followed :
        /\ WF_vars(StartCamera(c) \/ DetectorFails(c) \/ StopAll(c))
        /\ WF_vars(RecordThread(c))
    /\ \A b \in Background : WF_vars(BackgroundEnds(b))

-----------------------------------------------------------------------------
TypeOK ==
    /\ DOMAIN rows \subseteq Camera /\ \A c \in DOMAIN rows : rows[c] \in CameraRow
    /\ deleted \subseteq Camera \ DOMAIN rows /\ edits \in 0..MaxEdits
    /\ proc \in {"down", "running", "joining"} /\ lives \in 0..MaxLives
    /\ stop \in BOOLEAN
    /\ DOMAIN copy \subseteq Camera /\ \A c \in DOMAIN copy : copy[c] \in CameraRow
    /\ loop \in [Followed -> Loops] /\ recorder \in [Followed -> Recorders]
    /\ ffmpeg \subseteq Followed /\ background \subseteq Background
    /\ orphans \subseteq Followed /\ late \subseteq Followed

\* An ffmpeg outlives its worker only where the process ended before the
\* camera's frame loop did, or the segment was launched after the loop's
\* stop_all: by a record thread that had seen no stop, or one whose gateway
\* had given up (main.py 429-452, 544-545; recorder.py 212-239).
OrphanOnlyByRace == [][\A c \in orphans' \ orphans : c \in late \/ ~Ended(c)]_vars

\* Nothing of the worker is left.
Quiet ==
    /\ background = {}
    /\ \A c \in Followed : Ended(c) /\ recorder[c] \in {"none", "done"} /\ c \notin ffmpeg

\* What is left waits for a camera: a frame loop for a frame or a source, a
\* record thread for the end of the segment its camera is writing.
OnlyCamerasAwaited ==
    /\ background = {}
    /\ \A c \in Followed :
        /\ Ended(c) \/ loop[c] \in {"reading", "backoff"}
        /\ recorder[c] \in {"none", "done"} \/ (recorder[c] = "waiting" /\ c \in ffmpeg)
        /\ Ended(c) /\ c \in ffmpeg => c \in late

\* In a process that was told to stop and is not ended, every thread comes to
\* its end but those a camera holds: no segment is begun after the one that
\* may be under way, and where a frame loop has ended nothing is recorded but
\* a segment launched after its stop_all.  Whether a camera lets go is its
\* own affair: the event does not end a blocked read or a back-off
\* (main.py 431, 487-489, 544-545, 554-560; gateway.py 63-76).
StopReachesAll == <>[]stop => <>[]OnlyCamerasAwaited

\* "the change applies to new frames immediately (worker picks it up on camera
\* reload)" (docs/USER_GUIDE.md 125, of masks; rules and addresses are read by
\* the same start).  Does not hold: nothing reloads a camera but a restart.
Outdated(c) == proc # "down" /\ c \in DOMAIN rows \intersect DOMAIN copy /\ copy[c] # rows[c]

EditsReach == \A c \in Camera : Outdated(c) ~> ~Outdated(c)

\* "Treat SIGTERM exactly like Ctrl-C" (main.py 554-556).  Does not hold: the
\* main loop never looks at the event, so the process stays, without threads.
TermEnds == stop ~> proc = "down"

=============================================================================
