----------------------------- MODULE LiveStreams -----------------------------
(***************************************************************************)
(* The live-view transcodes of the API process (apps/api/routers/live.py):  *)
(* request handlers that start, reuse and stop ffmpeg processes, the reaper *)
(* thread, and the shutdown hook; and the one-shot ffmpeg of a camera       *)
(* snapshot (routers/cameras.py).  They share _live_streams under           *)
(* _live_lock; every action below that reads or writes the registry is one  *)
(* critical section, and processes are started and terminated outside it.   *)
(* Ages are ticks since an event, and stop counting once they are over the  *)
(* limit they are compared with.                                            *)
(***************************************************************************)
EXTENDS Integers, FiniteSets

CONSTANTS
    Cameras, Handlers,
    Procs,          \* identities of ffmpeg processes, used again once free
    IdleTimeout,    \* LIVE_IDLE_TIMEOUT_SEC
    MaxDuration,    \* LIVE_MAX_DURATION_SEC
    TicketLife,     \* how long a live ticket is good for, at most an hour
    None

ASSUME LiveAssumption ==
    /\ IdleTimeout \in Nat \ {0}
    /\ MaxDuration \in Nat \ {0}
    /\ TicketLife \in Nat \ {0}
    /\ None \notin Procs \union Cameras \union [proc : Procs, age : Nat, idle : Nat]

VARIABLES
    streams,    \* _live_streams: camera -> [proc, age, idle], or None
    alive,      \* the ffmpeg processes that run
    handler,    \* request handlers: [pc, cam, proc]
    reaperOn,   \* _reaper_started
    doomed,     \* processes the reaper has popped and not yet terminated
    waited,     \* ticks since the reaper began to wait
    app,        \* "up", "closing", "exited"
    closing,    \* processes shutdown_live_streams has yet to terminate
    ticket,     \* camera -> ticks for which a ticket that was issued is valid
    overlapped, \* history: two plays of one camera were under way at once
    late        \* history: time has passed while the reaper had something to do

vars == <<streams, alive, handler, reaperOn, doomed, waited, app, closing, ticket, overlapped, late>>

\* Where ages stop counting: above the limits, and what a wait of the reaper adds.
AgeCap  == MaxDuration + IdleTimeout + 1
IdleCap == IdleTimeout + IdleTimeout + 1

Stream  == [proc : Procs, age : 0..AgeCap, idle : 0..IdleCap]
Idle    == [pc |-> "idle", cam |-> None, proc |-> None]

\* Processes a thread is responsible for while they are not in the registry.
Held == {handler[h].proc : h \in Handlers} \ {None}

Registered == {streams[c].proc : c \in {d \in Cameras : streams[d] # None}}

Free == Procs \ (alive \union Registered \union Held \union doomed \union closing)

\* A transcode of c is registered and has not exited.
Running(c) == streams[c] # None /\ streams[c].proc \in alive

Upto(n, limit) == IF n < limit THEN n + 1 ELSE limit

Init ==
    /\ streams = [c \in Cameras |-> None]
    /\ alive = {}
    /\ handler = [h \in Handlers |-> Idle]
    /\ reaperOn = FALSE
    /\ doomed = {}
    /\ waited = 0
    /\ app = "up"
    /\ closing = {}
    /\ ticket = [c \in Cameras |-> 0]
    /\ overlapped = FALSE
    /\ late = FALSE

Tick ==
    /\ app # "exited"
    /\ streams' = [c \in Cameras |->
          IF streams[c] = None THEN None
          ELSE [streams[c] EXCEPT !.age  = Upto(@, AgeCap), !.idle = Upto(@, IdleCap)]]
    /\ waited' = IF reaperOn /\ doomed = {} THEN Upto(waited, IdleTimeout) ELSE 0
    /\ ticket' = [c \in Cameras |-> IF ticket[c] > 0 THEN ticket[c] - 1 ELSE 0]
    /\ late' = (late \/ (reaperOn /\ (doomed # {} \/ waited = IdleTimeout)))
    /\ UNCHANGED <<alive, handler, reaperOn, doomed, app, closing, overlapped>>

-----------------------------------------------------------------------------
(* POST /live/ticket, and GET /live/{id}/play: _start_stream. *)

\* A ticket is a sealed expiry time: it is not recorded and cannot be revoked,
\* and the one issued last is valid the longest.
IssueTicket(c) ==
    /\ app = "up"
    /\ ticket' = [ticket EXCEPT ![c] = TicketLife]
    /\ UNCHANGED <<streams, alive, handler, reaperOn, doomed, waited, app, closing, overlapped, late>>

\* play: a ticket for this camera that has not expired is shown.
Admitted(c) == ticket[c] > 0

\* First critical section: a running transcode is reused.
PlayReuses(h, c) ==
    /\ app = "up"
    /\ Admitted(c)
    /\ handler[h] = Idle
    /\ Running(c)
    /\ streams' = [streams EXCEPT ![c].idle = 0]
    /\ UNCHANGED <<alive, handler, reaperOn, doomed, waited, app, closing, ticket, overlapped, late>>

\* A play request of c is between its two critical sections.
Starting(h, c) == handler[h].cam = c /\ handler[h].pc \in {"launch", "register"}

\* First critical section, no running transcode: an exited one is dropped and
\* the handler goes on, outside the lock, to launch its own.
PlayMisses(h, c) ==
    /\ app = "up"
    /\ Admitted(c)
    /\ handler[h] = Idle
    /\ ~Running(c)
    /\ streams' = [streams EXCEPT ![c] = None]
    /\ handler' = [handler EXCEPT ![h] = [pc |-> "launch", cam |-> c, proc |-> None]]
    /\ overlapped' = (overlapped \/ \E g \in Handlers : Starting(g, c))
    /\ UNCHANGED <<alive, reaperOn, doomed, waited, app, closing, ticket, late>>

Launch(h) ==
    /\ handler[h].pc = "launch"
    /\ \E p \in Free :
          /\ alive' = alive \union {p}
          /\ handler' = [handler EXCEPT ![h].pc = "register", ![h].proc = p]
    /\ UNCHANGED <<streams, reaperOn, doomed, waited, app, closing, ticket, overlapped, late>>

\* Popen raises: 503.
LaunchFails(h) ==
    /\ handler[h].pc = "launch"
    /\ handler' = [handler EXCEPT ![h] = Idle]
    /\ UNCHANGED <<streams, alive, reaperOn, doomed, waited, app, closing, ticket, overlapped, late>>

\* Faulty variant: nobody starts the reaper.
RegisterNoReaper(h) ==
    /\ handler[h].pc = "register"
    /\ streams' = [streams EXCEPT ![handler[h].cam] =
                      [proc |-> handler[h].proc, age |-> 0, idle |-> 0]]
    /\ handler' = [handler EXCEPT ![h] = Idle]
    /\ UNCHANGED <<alive, reaperOn, doomed, waited, app, closing, ticket, overlapped, late>>

\* Second critical section, and _ensure_reaper.  The entry replaces whatever
\* another request has registered for the camera since the first one.
Register(h) ==
    /\ handler[h].pc = "register"
    /\ streams' = [streams EXCEPT ![handler[h].cam] =
                      [proc |-> handler[h].proc, age |-> 0, idle |-> 0]]
    /\ handler' = [handler EXCEPT ![h] = Idle]
    /\ reaperOn' = TRUE
    /\ UNCHANGED <<alive, doomed, waited, app, closing, ticket, overlapped, late>>

-----------------------------------------------------------------------------
(* POST /live/{id}/stop: _stop_stream. *)

Stop(h, c) ==
    /\ app = "up"
    /\ handler[h] = Idle
    /\ streams[c] # None
    /\ handler' = [handler EXCEPT ![h] =
                      [pc |-> "terminate", cam |-> c, proc |-> streams[c].proc]]
    /\ streams' = [streams EXCEPT ![c] = None]
    /\ UNCHANGED <<alive, reaperOn, doomed, waited, app, closing, ticket, overlapped, late>>

Terminate(h) ==
    /\ handler[h].pc = "terminate"
    /\ alive' = alive \ {handler[h].proc}
    /\ handler' = [handler EXCEPT ![h] = Idle]
    /\ UNCHANGED <<streams, reaperOn, doomed, waited, app, closing, ticket, overlapped, late>>

-----------------------------------------------------------------------------
(* GET /cameras/{id}/snapshot: an ffmpeg that is never registered. *)

\* It has a session or a signed address; Popen may still fail, for a 503.
Snapshot(h) ==
    /\ app = "up"
    /\ handler[h] = Idle
    /\ \E p \in Free :
          /\ alive' = alive \union {p}
          /\ handler' = [handler EXCEPT ![h].pc = "snapshot", ![h].proc = p]
    /\ UNCHANGED <<streams, reaperOn, doomed, waited, app, closing, ticket, overlapped, late>>

\* Faulty variant: the answer of an unreachable camera leaves ffmpeg running.
SnapshotTimesOut(h) ==
    /\ handler[h].pc = "snapshot"
    /\ handler' = [handler EXCEPT ![h] = Idle]
    /\ UNCHANGED <<streams, alive, reaperOn, doomed, waited, app, closing, ticket, overlapped, late>>

\* A frame, or nothing, came and the process is gone; or the ten seconds are
\* over, and it is killed and reaped before the answer.
SnapshotAnswers(h) ==
    /\ handler[h].pc = "snapshot"
    /\ alive' = alive \ {handler[h].proc}
    /\ handler' = [handler EXCEPT ![h] = Idle]
    /\ UNCHANGED <<streams, reaperOn, doomed, waited, app, closing, ticket, overlapped, late>>

-----------------------------------------------------------------------------
(* The reaper thread. *)

\* Faulty variant: only the age counts.
StaleByAge(c) == streams[c] # None /\ streams[c].age > MaxDuration

Stale(c) ==
    /\ streams[c] # None
    /\ \/ streams[c].idle > IdleTimeout
       \/ streams[c].age > MaxDuration

ReaperWakes ==
    /\ app # "exited"
    /\ reaperOn /\ doomed = {} /\ waited = IdleTimeout
    /\ doomed' = {streams[c].proc : c \in {d \in Cameras : Stale(d)}}
    /\ streams' = [c \in Cameras |-> IF Stale(c) THEN None ELSE streams[c]]
    /\ waited' = 0
    /\ UNCHANGED <<alive, handler, reaperOn, app, closing, ticket, overlapped, late>>

ReaperTerminates ==
    /\ app # "exited"
    /\ \E p \in doomed : alive' = alive \ {p} /\ doomed' = doomed \ {p}
    /\ UNCHANGED <<streams, handler, reaperOn, waited, app, closing, ticket, overlapped, late>>

-----------------------------------------------------------------------------
(* shutdown_live_streams.  The server lets the requests in flight finish     *)
(* before it runs the hook; the reaper is a daemon thread and is not waited  *)
(* for.                                                                      *)

\* Faulty variant: the hook empties the registry and terminates nothing.
ShutdownHasty ==
    /\ app = "up"
    /\ \A h \in Handlers : handler[h] = Idle
    /\ streams' = [c \in Cameras |-> None]
    /\ app' = "closing"
    /\ UNCHANGED <<alive, handler, reaperOn, doomed, waited, closing, ticket, overlapped, late>>

Shutdown ==
    /\ app = "up"
    /\ \A h \in Handlers : handler[h] = Idle
    /\ closing' = Registered
    /\ streams' = [c \in Cameras |-> None]
    /\ app' = "closing"
    /\ UNCHANGED <<alive, handler, reaperOn, doomed, waited, ticket, overlapped, late>>

ShutdownTerminates ==
    /\ app = "closing"
    /\ \E p \in closing : alive' = alive \ {p} /\ closing' = closing \ {p}
    /\ UNCHANGED <<streams, handler, reaperOn, doomed, waited, app, ticket, overlapped, late>>

Exit ==
    /\ app = "closing"
    /\ closing = {}
    /\ app' = "exited"
    /\ UNCHANGED <<streams, alive, handler, reaperOn, doomed, waited, closing, ticket, overlapped, late>>

-----------------------------------------------------------------------------
(* The environment. *)

\* ffmpeg ends by itself: the camera dropped.
Dies(p) ==
    /\ p \in alive
    /\ alive' = alive \ {p}
    /\ UNCHANGED <<streams, handler, reaperOn, doomed, waited, app, closing, ticket, overlapped, late>>

\* What a handler does once it is past its first critical section.
Finishing(h) ==
    \/ Launch(h) \/ LaunchFails(h) \/ Register(h) \/ Terminate(h)
    \/ SnapshotAnswers(h)

Requests(h) ==
    \/ \E c \in Cameras : PlayReuses(h, c) \/ PlayMisses(h, c) \/ Stop(h, c)
    \/ Snapshot(h)
    \/ Finishing(h)

Reaper == ReaperWakes \/ ReaperTerminates

Next ==
    \/ Tick
    \/ \E c \in Cameras : IssueTicket(c)
    \/ \E h \in Handlers : Requests(h)
    \/ Reaper
    \/ Shutdown \/ ShutdownTerminates \/ Exit
    \/ \E p \in Procs : Dies(p)

Spec == Init /\ [][Next]_vars

\* Time passes, the reaper, a live thread with a timer, runs, and a request
\* that was accepted is carried through.  No request need ever arrive, no
\* process need ever die and the server need never be shut down.
FairSpec ==
    /\ Spec
    /\ WF_vars(Tick)
    /\ WF_vars(Reaper)
    /\ \A h \in Handlers : WF_vars(Finishing(h))

-----------------------------------------------------------------------------
TypeOK ==
    /\ streams \in [Cameras -> Stream \union {None}]
    /\ alive \subseteq Procs
    /\ handler \in [Handlers -> [pc : {"idle", "launch", "register", "terminate", "snapshot"},
                                 cam : Cameras \union {None},
                                 proc : Procs \union {None}]]
    /\ reaperOn \in BOOLEAN
    /\ doomed \subseteq Procs
    /\ waited \in 0..IdleTimeout
    /\ app \in {"up", "closing", "exited"}
    /\ closing \subseteq Procs
    /\ ticket \in [Cameras -> 0..TicketLife]
    /\ overlapped \in BOOLEAN
    /\ late \in BOOLEAN

\* live.py: every transcode is tracked.  A running ffmpeg is in the registry,
\* or some thread still holds it and will register or terminate it.
EveryTranscodeTracked ==
    alive \subseteq Registered \union Held \union doomed \union closing

\* Overlapping plays of one camera are the only way to lose track of a running
\* transcode, whatever stop requests, the reaper and the shutdown do meanwhile.
LostOnlyByOverlap == overlapped \/ EveryTranscodeTracked

\* live.py: the shutdown hook stops every transcode.  What runs on when the API
\* is gone was lost by an overlap, or the reaper had already taken it off the
\* registry and not come to terminate it.
ExitLeavesOnlyDoomed == app = "exited" /\ ~overlapped => alive \subseteq doomed

\* live.py: viewers-closed-tab streams die instead of transcoding forever, and
\* an ever-present viewer does not keep one for ever.  A transcode that has been
\* idle or registered for too long leaves the registry, unless it was only idle
\* and is asked for again.
StaleStreamsEnd ==
    \A c \in Cameras :
        streams[c] # None /\ (streams[c].idle > IdleTimeout \/ streams[c].age > MaxDuration) ~>
            \/ streams[c] = None
            \/ streams[c].idle = 0 /\ streams[c].age <= MaxDuration
            \/ app # "up"

\* How soon: as long as the reaper wakes and terminates in time, no transcode is
\* registered that nobody has asked for in two idle timeouts, or that is older
\* than the maximum by more than one.
EndInTime ==
    ~late => \A c \in Cameras : streams[c] # None =>
                /\ streams[c].idle <= IdleTimeout + waited
                /\ streams[c].age <= MaxDuration + waited

=============================================================================
