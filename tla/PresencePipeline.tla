-------------------------- MODULE PresencePipeline ---------------------------
(***************************************************************************)
(* One camera's frame loop: CameraPipeline.process_frame                    *)
(* (packages/ai/pipeline.py) with its IouTracker (packages/ai/tracker.py),  *)
(* inside the transaction of run_camera (apps/worker/main.py).  A frame     *)
(* changes the pipeline's memory at once; its rows wait in the session for  *)
(* the commit, and its snapshots are already in the object store when the   *)
(* transaction may still fail.  Boxes are abstracted to which tracks the    *)
(* detections of a frame match and how many tracks they start.              *)
(***************************************************************************)
EXTENDS Integers, FiniteSets

CONSTANTS
    MergeGap,       \* event_merge_gap_seconds
    MaxAge,         \* IouTracker max_age, in frames
    MotionGate,     \* AI_MOTION_GATE_ENABLED
    MaxInterval,    \* bound: ticks between two frames
    MaxTime,        \* bound: ticks
    MaxTracks,      \* bound: track numbers of one run of the worker
    MaxFaults,      \* bound: failing frames and commits
    MaxLives        \* bound: runs of the worker

ASSUME PresenceAssumption ==
    /\ MergeGap \in Nat \ {0}
    /\ MaxAge \in Nat \ {0}
    /\ MotionGate \in BOOLEAN
    /\ {MaxInterval, MaxTime, MaxTracks, MaxFaults} \subseteq Nat
    /\ MaxLives \in Nat \ {0}

VARIABLES
    now,        \* the timestamp of the last frame
    life,       \* runs of the worker so far; not stored anywhere by the code
    counter,    \* IouTracker._counters: the last track number given out
    tracker,    \* IouTracker._state: track -> age
    active,     \* CameraPipeline._active: track -> [first, last]
    phase,      \* "idle", "ok" (process_frame returned), "raised"
    staged,     \* presence events added to the session, not committed
    events,     \* committed presence events: [life, track, first, last]
    rows,       \* Track rows: track -> [first, last]
    objects,    \* snapshots in the object store, named by their event
    faults,
    sightings,  \* history: [life, track, ts] of the tracks entered in _active
    missed,     \* history: those of tracks whose frame raised before that
    lost        \* history: windows that failed to become events

memory == <<counter, tracker, active>>
observed == <<sightings, missed>>
store  == <<events, rows, objects>>
vars   == <<now, life, memory, phase, staged, store, faults, observed, lost>>

Tracks == 1..MaxTracks
Times  == 0..MaxTime
Window == [first : Times, last : Times]
Event  == [life : 1..MaxLives, track : Tracks, first : Times, last : Times]

EventOf(t, w) == [life |-> life, track |-> t, first |-> w.first, last |-> w.last]
EventsOf(S, a) == {EventOf(t, a[t]) : t \in S}
Without(f, S) == [t \in DOMAIN f \ S |-> f[t]]

Init ==
    /\ now = 0 /\ life = 1
    /\ counter = 0 /\ tracker = << >> /\ active = << >>
    /\ phase = "idle" /\ staged = {}
    /\ events = {} /\ rows = << >> /\ objects = {}
    /\ faults = 0 /\ sightings = {} /\ missed = {} /\ lost = {}

-----------------------------------------------------------------------------
(* IouTracker.update: the tracks of `matched` are seen again, those of      *)
(* `fresh` are new.  A new track is not in `used`, so it ages in the frame  *)
(* that starts it.                                                          *)

Fresh(n) == (counter + 1)..(counter + n)

AgeAfter(t, matched) ==
    IF t \in matched THEN 0 ELSE IF t \in DOMAIN tracker THEN tracker[t] + 1 ELSE 1

Update(matched, fresh) ==
    LET kept == {t \in DOMAIN tracker \union fresh : AgeAfter(t, matched) <= MaxAge}
    IN  tracker' = [t \in kept |-> AgeAfter(t, matched)]

-----------------------------------------------------------------------------
(* process_frame *)

\* When the next frame may arrive.  The stream may be interrupted.
NextFrame == {ts \in Times : now < ts /\ ts <= now + MaxInterval}

\* Faulty variant: last_seen stays at the time the window was opened.
SeenOnce(ts, seen) ==
    [t \in DOMAIN active \union seen |->
        IF t \in DOMAIN active THEN active[t] ELSE [first |-> ts, last |-> ts]]

\* _active after the frame's tracks have been entered.
Seen(ts, seen) ==
    [t \in DOMAIN active \union seen |->
        [first |-> IF t \in DOMAIN active THEN active[t].first ELSE ts,
         last  |-> IF t \in seen THEN ts ELSE active[t].last]]

\* Faulty variants: any track missing from one frame; off by one.
UnseenAtAll(a, ts, seen) == {t \in DOMAIN a \ seen : ts > a[t].last}
PastGap(a, ts, seen) == {t \in DOMAIN a \ seen : ts - a[t].last > MergeGap}

\* The windows this frame closes.
Stale(a, ts, seen) == {t \in DOMAIN a \ seen : ts - a[t].last >= MergeGap}

SightingsOf(S, ts) == {[life |-> life, track |-> t, ts |-> ts] : t \in S}

\* A frame arrives, its tracks are known, and those of `entered` get into
\* _active.  A gated frame, one without a pixel changed, has no tracks and
\* leaves the tracker alone.
Tracked(ts, matched, n, entered) ==
    /\ phase = "idle"
    /\ now' = ts
    /\ counter + n <= MaxTracks
    /\ \/ Update(matched, Fresh(n))
       \/ MotionGate /\ matched = {} /\ n = 0 /\ UNCHANGED tracker
    /\ counter' = counter + n
    /\ sightings' = sightings \union SightingsOf(entered, ts)
    /\ missed' = missed \union SightingsOf((matched \union Fresh(n)) \ entered, ts)
    /\ UNCHANGED <<life, events, rows, lost>>

\* Every stale window is finalised: its event is flushed, its snapshot put,
\* and the window leaves _active.
ProcessFrame(ts, matched, n) ==
    LET seen == matched \union Fresh(n)
        a    == Seen(ts, seen)
        done == Stale(a, ts, seen)
    IN  /\ Tracked(ts, matched, n, seen)
        /\ active' = Without(a, done)
        /\ staged' = EventsOf(done, a)
        /\ objects' = objects \union staged'
        /\ phase' = "ok"
        /\ UNCHANGED faults

\* Faulty variant: a failing put is swallowed and the event kept.
FrameSwallows(ts, matched, n) ==
    LET seen == matched \union Fresh(n)
        a    == Seen(ts, seen)
    IN  \E bad \in Stale(a, ts, seen) :
        /\ Tracked(ts, matched, n, seen)
        /\ faults < MaxFaults
        /\ active' = Without(a, Stale(a, ts, seen))
        /\ staged' = EventsOf(Stale(a, ts, seen), a)
        /\ objects' = objects \union (staged' \ {EventOf(bad, a[bad])})
        /\ phase' = "ok"
        /\ faults' = faults + 1

\* The flush or the put of one window raises.  Windows are taken in the order
\* _active holds them; those before the failing one have left _active, it and
\* those after it have not.
FrameRaises(ts, matched, n) ==
    LET seen == matched \union Fresh(n)
        a    == Seen(ts, seen)
    IN  \E bad \in Stale(a, ts, seen) : \E done \in SUBSET (Stale(a, ts, seen) \ {bad}) :
        /\ Tracked(ts, matched, n, seen)
        /\ faults < MaxFaults
        /\ \A t \in Stale(a, ts, seen) \ {bad} :
              IF t \in done THEN a[t].first <= a[bad].first ELSE a[t].first >= a[bad].first
        /\ active' = Without(a, done)
        /\ staged' = EventsOf(done, a)
        /\ objects' = objects \union staged'
        /\ phase' = "raised"
        /\ faults' = faults + 1

\* A rule, the plate reader or a recognition raises (pipeline.py 293, 312, 347):
\* the tracker has taken the frame, and the tracks are entered one by one, up to
\* the one whose recognition raised.  The others are in no window.
FrameFails(ts, matched, n) ==
    \E entered \in SUBSET (matched \union Fresh(n)) :
        /\ matched \union Fresh(n) # {}
        /\ Tracked(ts, matched, n, entered)
        /\ faults < MaxFaults
        /\ active' = Seen(ts, entered)
        /\ phase' = "raised"
        /\ faults' = faults + 1
        /\ UNCHANGED <<staged, objects>>

\* The enrollment query or the detector raises: the frame is dropped before the
\* tracker sees it.
FrameDropped(ts) ==
    /\ phase = "idle"
    /\ faults < MaxFaults
    /\ now' = ts
    /\ faults' = faults + 1
    /\ UNCHANGED <<life, memory, phase, staged, store, observed, lost>>

\* Faulty variant: only the rows of tracks that have none are written.
InsertTracks ==
    [t \in DOMAIN rows \union DOMAIN active |->
        IF t \in DOMAIN rows THEN rows[t] ELSE active[t]]

\* The Track rows with every open window written over its row: the frame's
\* last step, taken by the commit.
UpsertTracks ==
    [t \in DOMAIN rows \union DOMAIN active |->
        IF t \in DOMAIN active THEN active[t] ELSE rows[t]]

-----------------------------------------------------------------------------
(* run_camera: the transaction around process_frame *)

\* The commit takes the events, and the Track rows of _active.
Commit ==
    /\ phase = "ok"
    /\ events' = events \union staged
    /\ rows' = UpsertTracks
    /\ phase' = "idle" /\ staged' = {}
    /\ UNCHANGED <<now, life, memory, objects, faults, observed, lost>>

\* The rollback after process_frame or the commit raised.  Windows that have
\* left _active are in no row and in no memory.
Rollback ==
    /\ \/ phase = "raised" /\ UNCHANGED faults
       \/ phase = "ok" /\ faults < MaxFaults /\ faults' = faults + 1
    /\ lost' = lost \union staged
    /\ phase' = "idle" /\ staged' = {}
    /\ UNCHANGED <<now, life, memory, store, observed>>

\* The worker stops or crashes, and starts again.  Nothing finalises the open
\* windows, and the new tracker numbers its tracks from 1.
WorkerRestarts ==
    /\ life < MaxLives
    /\ life' = life + 1
    /\ counter' = 0 /\ tracker' = << >> /\ active' = << >>
    /\ lost' = lost \union staged \union EventsOf(DOMAIN active, active)
    /\ phase' = "idle" /\ staged' = {}
    /\ UNCHANGED <<now, store, faults, observed>>

Next ==
    \/ \E ts \in NextFrame :
          \/ \E matched \in SUBSET DOMAIN tracker, n \in 0..MaxTracks :
                \/ ProcessFrame(ts, matched, n)
                \/ FrameRaises(ts, matched, n)
                \/ FrameFails(ts, matched, n)
          \/ FrameDropped(ts)
    \/ Commit
    \/ Rollback
    \/ WorkerRestarts

Spec == Init /\ [][Next]_vars

-----------------------------------------------------------------------------
(* analytics.people_counting: the Track rows inside a window *)

people_counting(start, end) ==
    Cardinality({t \in DOMAIN rows : rows[t].first >= start /\ rows[t].last <= end})

-----------------------------------------------------------------------------
(* Properties *)

\* The object a window is about: a track of one run of the worker.
ObjectOf(e) == <<e.life, e.track>>

\* The windows known anywhere: published, lost, staged and open.
Open  == staged \union EventsOf(DOMAIN active, active)
Known == events \union lost \union Open

Same(v, w) == v.life = w.life /\ v.track = w.track
Covers(w, s) == Same(w, s) /\ s.ts \in w.first..w.last

\* Types; windows end no earlier than they start and no later than now, and
\* only numbers given out are in use.
TypeOK ==
    /\ now \in Times /\ life \in 1..MaxLives /\ faults \in 0..MaxFaults
    /\ counter \in 0..MaxTracks
    /\ DOMAIN tracker \subseteq 1..counter /\ DOMAIN active \subseteq 1..counter
    /\ \A t \in DOMAIN tracker : tracker[t] \in 0..MaxAge
    /\ \A t \in DOMAIN active : active[t] \in Window
    /\ phase \in {"idle", "ok", "raised"}
    /\ phase = "idle" => staged = {}
    /\ Known \union objects \subseteq Event
    /\ DOMAIN rows \subseteq Tracks /\ \A t \in DOMAIN rows : rows[t] \in Window
    /\ \A w \in Known : w.first <= w.last /\ w.last <= now

\* Every sighting entered lies in an event, in a window still open, or in a
\* window that a failed transaction or a restart has cost.
SightingsKept == \A s \in sightings : \E w \in Known : Covers(w, s)

\* Sightings that were never entered may lie nowhere: those of one frame for
\* each failure.
MissedByFailures == Cardinality({s.ts : s \in missed}) <= faults

\* A committed event has its snapshot in the store, and a snapshot without an
\* event belongs to a window a failed transaction or a restart has cost.
SnapshotsMatchEvents ==
    /\ events \subseteq objects
    /\ objects \subseteq events \union staged \union lost

\* Without failing transactions, and across restarts, the Track rows follow:
\* an open window is in its row, and a row reaches the events of its track.
TrackRowsFollow ==
    faults = 0 /\ phase = "idle" =>
        /\ \A t \in DOMAIN active : t \in DOMAIN rows /\ rows[t] = active[t]
        /\ \A e \in events : e.track \in DOMAIN rows /\ rows[e.track].last >= e.last

\* What else is stored about a window agrees with its event.
StoreFollowsEvents == SnapshotsMatchEvents /\ TrackRowsFollow

\* events.py 41: a window merges detections "separated by at most `gap`
\* seconds".  A window is closed by a frame without its track, so a stream that
\* falls silent, or a frame that fails, keeps it open for that much longer.
GapBounded ==
    \A w \in Known, s \in sightings :
        Covers(w, s) /\ s.ts < w.last =>
            \E r \in sightings :
                /\ Covers(w, r)
                /\ s.ts < r.ts
                /\ r.ts < s.ts + MergeGap + MaxInterval * (1 + faults)

\* No sighting is forgotten but by a failing frame, and no window is stretched
\* over more time than the gap allows.
SightingsAccounted == SightingsKept /\ MissedByFailures /\ GapBounded

\* analytics.py 20, people_counting: "Distinct tracks (people) seen on a camera
\* in a window": no fewer than the objects with an event in that window.
PeopleCounted ==
    faults = 0 => \A a, b \in Times :
        Cardinality({ObjectOf(e) : e \in {v \in events : a <= v.first /\ v.last <= b}})
            <= people_counting(a, b)

-----------------------------------------------------------------------------
(* The promise *)

\* What a set of windows, one for each of its objects, says of them.
WindowsOf(E) ==
    [o \in {ObjectOf(e) : e \in E} |->
        LET w == CHOOSE v \in E : ObjectOf(v) = o
        IN  [first |-> w.first, last |-> w.last]]

LogOf(E) == {[object |-> ObjectOf(e), first |-> e.first, last |-> e.last] : e \in E}

Log == INSTANCE PresenceLog WITH
    Objects <- (1..MaxLives) \X Tracks,
    clock   <- now,
    open    <- WindowsOf(Open),
    log     <- LogOf(events)

\* The pipeline and its transactions do what PresenceLog promises: a window
\* closed in memory is published whole, or dropped, when its transaction ends.
ImplementsLog == Log!Spec
==============================================================================
