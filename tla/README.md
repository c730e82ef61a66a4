# LocalSight, specified

LocalSight records and analyses IP cameras on one machine. A **worker** process
(`src/apps/worker/main.py`) runs threads per camera and a few background threads; an
**API** process (`src/apps/api/`) serves the browser; both share a database and an
object store, and no transaction covers the two. This directory holds TLA+ modules of
the parts where steps of several threads, failures and time meet, the TLC
configurations that explore them, and theorems with TLAPS proofs.

1. [The system](#1-the-system) — parts, their state, how they interact
2. [Modules](#2-modules) — what stands for which code
3. [Runs](#3-runs) — what TLC checks, bounds, fairness
4. [Where the code and its own words disagree](#4-where-the-code-and-its-own-words-disagree)
5. [What is proved](#5-what-is-proved)
6. [Not modelled](#6-not-modelled)
7. [Plan](#7-plan)

## 1. The system

| component | state it keeps | operations | what it talks to |
|---|---|---|---|
| recording archive (`packages/video/recorder.py`, `_record_loop`, `_sweep_retention`, `delete_camera`, `recording_at`) | the pending segment and its ffmpeg; rows of `video_segments`; clips in the store | launch, finalise and upload, insert row; hourly sweep; delete a camera; look up a time | database, object store, ffmpeg |
| stream gateway (`packages/video/gateway.py`, `sources.py`) | status, failure counter | open, read, back off, give up; persist the status | camera, ffmpeg, database |
| live streams (`apps/api/routers/live.py`) | the registry `_live_streams`, tickets, ffmpeg processes | ticket, play, stop, snapshot, reap, shut down | request threads, a reaper thread |
| alert delivery (`_alert_sender`, `_build_notifiers`, `packages/notify`) | the queue, cached routes, cooldowns | enqueue, take, select, send; edit routes | camera threads, database, channels |
| presence pipeline (`packages/ai/pipeline.py`, `tracker.py`, `run_camera`) | tracker ages, open windows, the frame's transaction | process a frame, commit, roll back | database, object store |
| rule engine (`packages/ai/rules.py`, `routers/rules.py`) | memory per track, crowd flags | build rules from their specs, evaluate a frame | called by the pipeline, feeds the alert queue |
| enrollment and identity (`routers/persons.py`, `_refresh_enrolled`, `matcher.py`) | persons, references; each camera's copy and its watermark | create, upload, erase, expire; refresh the copy, recognise, name an event | API, sweep and camera threads through the database |
| sessions (`routers/auth.py`, `users.py`, `security/jwt.py`) | failure counter and lock, refresh-token rows, second factor | login, refresh, logout, password, administration, expiry | request threads through the database |
| browser session client (`ui/core/api.js`, `app.js`, `views/login.js`) | tokens in memory and `sessionStorage`, the shared refresh, open calls | boot, call, refresh, loop, login, logout, reload | sessions |
| worker lifecycle (`main`, `run_camera`, `_record_loop`) | threads, the stop event, what was read at the start | start, SIGTERM, Ctrl-C, kill | all worker threads; edits by the API |
| configuration and bootstrap (`apps/api/bootstrap.py`, `docker-compose.yml`) | tables, added columns, roles, the first account | create, migrate, seed | both processes at once |
| events, retention, queries (`routers/events.py`, `timeline.py`, `analytics.py`, `video.py`, `audit.py`, `packages/domain/analytics.py`, `_sweep_retention`, `ui/views/events.js`) | rows of events, tracks, snapshots, audit; snapshot objects; the page's offset | store, sweep in chunks, delete with the camera, list, export, count, search, page on | worker, API, browser |
| development rig (`scripts/local_cctv_rig.py`) | PID files, environment file | start, stop, restart, status, verify | broker, publisher, API, worker |
| rate limiter, DVR scrubber, detectors, crypto, onboarding, S3, metrics, views | none that interacts | | |

Interactions: both processes come up through `build` and then share only rows and
objects. A camera thread turns gateway frames into pipeline frames; the pipeline's
tracks go to the rule engine, and are named after the faces enrolled through the API;
its events are committed with the frame and then queued for the alert sender. The record
thread of the same camera runs beside it and meets the sweep and the API's deletion only
in the database and the store. Live streams belong to the API process and share nothing
with the worker but the camera. The browser holds tokens that the API rotates.

What is hard here, and what would make each part correct:

- **Archive.** Object and row are written and removed in opposite orders by threads that
  do not know each other. A row should have its clip until it expires, an object should
  have a row unless a failure explains it, the clip shown for a time should be from near
  that time, expired rows should go.
- **Gateway.** It must outlast any outage, give up only after its budget, and the status on
  the dashboard must not lie.
- **Live streams.** Check and act are two critical sections with the start of a process
  between them. No running ffmpeg may be forgotten, no handed-out one killed, idle and
  overlong ones must end.
- **Alerts.** One thread serves everything; failing sends must not end it, cooldowns and the
  cached routes must be what they claim.
- **Presence.** Memory moves on at once, rows at the commit, snapshots before it. Windows
  must be deduplicated, published once, and no sighting may vanish without a cause.
- **Rules.** Flags and entry times must be reset exactly when what they watch has ended, though
  rules may share an id and a track may change its label.
- **Enrollment.** A camera decides with a copy of what was enrolled, at its own pace, while
  persons come and go. An erased person must leave no row, an event must not carry a name
  its track was never given, and a new face must reach the copy.
- **Sessions.** Handlers read, work and commit while others do the same to the same rows. One
  successor per refresh token, a sign-out that holds, a lock that locks, a factor that
  somebody possesses.
- **Browser.** Every call may find its token expired while one refresh is under way, a logout
  is being answered or a new user has signed in.
- **Worker.** What it follows was read once; what it started must end with it.
- **Bootstrap.** Two processes build one database, each from what it read before the other's
  commit.
- **Events.** Tables shrink and grow under readers who page by offset, and ten queries cut
  time in ten ways.
- **Rig.** A process and the file that tracks it are two steps, and anything may die.

## 2. Modules

| module | what it is |
|---|---|
| `RecordingArchive`, `RecordingArchiveProofs` | the archive of one camera |
| `StreamGateway`, `VideoProofs` | one camera thread and its network |
| `LiveStreams`, `VideoProofs` | registry, handlers, reaper, shutdown |
| `AlertDelivery`, `MCAlertDelivery`, `AlertProofs` | producers, the sender thread, operators |
| `PresenceLog` | the abstract promise: open, extend, publish or drop windows |
| `PresencePipeline`, `PresenceProofs` | frames, windows, transactions; implements `PresenceLog` |
| `RuleEngine`, `MCRuleEngine`, `WorkerProofs` | the five kinds of rule over a history of frames |
| `EnrollmentCache`, `WorkerProofs` | persons, references, a camera's copy of them, names |
| `Sessions`, `SessionsProofs` | one account, its tokens, requests that interleave |
| `BrowserSession`, `ConsoleProofs` | one page, its calls and its shared refresh |
| `WorkerLifecycle` | the worker's threads and the camera rows they were started from |
| `Bootstrap` | two processes building one database |
| `Deployment`, `MCDeployment`, `WorkerProofs` | worker and bootstrap composed |
| `EventStore`, `EventReports`, `MCEventStore`, `ConsoleProofs` | rows that outlive a frame, their sweep and paging; the reports over them |
| `DevRig`, `DevRigProofs` | the rig's commands and processes |

Operators marked *Faulty variant* stand beside the definition they would replace. They
are what a plausible mistake in the code would look like; each property of a run
is violated when one of them takes its definition's place, and none is part of a `Next`.
Variables commented *history* record what happened for the properties to speak of; no
guard reads them, but for those that keep an id from being given out twice. Names follow the code where TLA+ allows it.

### RecordingArchive
Variables follow the record thread (`recPc`, `seg`, `ffmpeg`, ...), the sweep (`sweepCut`,
`chunk`, `pending`), the deletion (`deleteKeys`), the rows and the store. Each action is one
call on the database or the store, or the purely local code between two of them:
`RecordUrl` is `record_url` up to the launch of ffmpeg, `FinalizeLast` the upload with the
duration computed from the file, `PersistSegment` the insert; `SweepQuery`,
`SweepDeleteObject`, `SweepCommit` are the three parts of the sweep's loop body;
`DeleteCollect`, `DeleteCommit`, `DeleteObject` are those of `delete_camera`. Every one of
them has its failing counterpart, and `WorkerRestarts` may come between any two. A probe of
the file that fails (the scheduled duration is kept) is the second choice in `FinalizeLast`.
`stop_all` kills ffmpeg, which then exits with an error: that is `FfmpegExits` with
`"failed"`.

### StreamGateway
`pc` walks through `iter_frames`: make the source, read, sleep after a refused or a failed
source. `make_source` only looks at the address (`host`), for an `FFmpegFrameSource` opens
nothing before it is iterated, so a dead stream (`link`) is noticed while reading and
the failure counter has been reset by then. A stream that stalls blocks the read: the code
gives neither the read nor ffmpeg a time limit, and in the model only the network ends it.
Because the counter is reset at `SourceMade`, the branch of `WakeFailed` that gives up is
never taken with the code's constants; it is there because the code has it.
The jitter, and lengths of sleeps other than their index in the schedule, are left out.

### LiveStreams
Every action that touches the registry is one critical section of the code. `PlayMisses`,
`Launch`, `Register` are the three parts of `_start_stream`; `Stop` and `Terminate` those of a
stop request; `ReaperWakes` and `ReaperTerminates` those of the reaper. A ticket is a
signed token with a lifetime: it is not recorded, so nothing can revoke it. A snapshot is
an ffmpeg of its own that is killed after its time limit and reaped. The server drains
requests before it runs the shutdown hook, and does not wait for the reaper thread. Ages
saturate above their limits, which keeps the state space finite without a bound on time.
Requests for the manifest and its segments are served as static files and do not touch the
idle clock: only `play` does, and the model has only that.

### AlertDelivery
`Take`, `LoadRoutes`, `BuildNotifiers` and the sends are one turn of `_alert_sender`.
`Selection` says in terms of sets what the loop of `_build_notifiers` selects from the cached
routes, including that a route selected earlier in the same turn already counts for a later
one with its key. `LoopSelects` is the loop itself, turn by turn; that both select the same is
proved for all routes, keys and cooldowns (`LoopIsSelection`), and evaluated by TLC as the
assumption `SelectionIsLoop` of `MCAlertDelivery`. Routes whose
notifier cannot be built are skipped. What counts as a failure differs by channel: webhook
and ntfy look at no HTTP status, so an answer of 500 counts as delivered; an e-mail that is
refused or times out raises and ends the dispatch; MQTT has no timeout. The in-process push
notifier that is added when no push route matches is thrown away with its messages and has
no action.

### PresencePipeline and PresenceLog
A frame is a choice of tracks that match and a number of tracks that start; a frame without
a changed pixel is gated and has none. `ProcessFrame` is the whole of `process_frame` for
presence: tracker, windows, finalisation, snapshots; the `Track` rows are flushed with the
frame and enter at `Commit`. A frame can fail in three places. `FrameDropped` fails before the
tracker has seen it (the enrollment query, the detector). `FrameFails` fails behind the tracker,
in a rule, the plate reader or a recognition: some of its tracks have been entered in
`_active` and the others are in no window. `FrameRaises` stops in the middle of finalisation, in
the order of the dictionary. The history `sightings` holds what was entered, `missed` what a
failing frame left out. The refinement
maps a window that was closed in memory but whose transaction has not ended to a window
still open: `Commit` is `Publish`, a rollback or a restart is `Drop`.

### RuleEngine
`from_dict` builds the rules from stored specs and skips those it cannot build; `Evaluate`
is `evaluate` with its evaluators, rule by rule and track by track. Ray casting, orientation
and the side of a crossing are the code's formulas over integer coordinates; an assumption
of `MCRuleEngine` compares the ray casting with the definition of a box. `NotEvaluated` is a
frame without tracks, which `process_frame` does not pass on. The history `frames` is what the
properties compare with. A detection is a centre and a label, and the label of a track may be
another in every frame, for the tracker overwrites it with each match (`tracker.py:82`).

What the engine keeps of a track is keyed as in the code: by the dictionary of the rule's type
(`Dict`; loitering and objects left share one) and the rule's id. Rules stored without an id get
that of their type and camera (`rules.py:325`), so two of them share times of entry and flags,
and the loop over the rules (`Loop`, `Turn`) hands on what each has written to the next; likewise
`FlagFound` and `CrowdFlags` for crowd rules of one id. The console's editor stores no ids. The
properties of section 3 speak of the rules that have their memory for themselves (`Own`),
whatever the others share; what becomes of the others is `Rules_shared.cfg` in section 4. The
events of a frame are a set, so that two events of one track, type and id in one frame count
once, and ids that begin with the engine's own prefix `_fired_` do not occur. A crowd's threshold
is above zero, for with zero the code asks for the largest of no tracks and raises
(`rules.py:309`).

### EnrollmentCache
The rows are the API's, `enrolled`, `newer`, `marked` and `age` the camera's copy with its
watermark, `active` its windows with the last recognition of each. `Frame` is one frame of the
camera: refresh the copy when it is due, recognise what is due, close what has been quiet and
store its event, which fails when it names somebody who is gone: such a window stays in memory
and every later frame fails, too. `add_reference` is two
steps, for it awaits the file in between. A row's `created_at` is the time of its insert in
the model; on PostgreSQL it is the transaction's start (`persons.py:105`), somewhat earlier, so
that more references than the model's may fall behind the watermark. Vectors, thresholds and quality are the choice of
which enrolled person, if any, a recognition names. Ages replace the clock, so the run of
the camera is not bounded.

### Sessions and BrowserSession
In `Sessions` a request is a read of the rows and, later, a commit of the columns that differ
from what was read; two of them overlap in any way. The other handlers read and commit in
one step each. Tokens are numbers, their rows hold revocation and expiry, and access tokens
are their latest expiry. In `BrowserSession` a step is what JavaScript runs between two
awaits; the server is what a page can tell of it. Calls, the shell's restore and question
`/me`, and the refresh loop's tick are slots that wait for an answer or for the one refresh
in flight. `Resume` is what each slot does when that refresh has ended.

### WorkerLifecycle, Bootstrap and Deployment
`WorkerLifecycle` has a frame loop, a record thread and an ffmpeg per camera, background
threads, the stop event and the rows; `copy` is what the threads were started with, and no
step but `Start` looks at the rows. SIGTERM
sets the event, Ctrl-C ends the main loop too, and joins time out. `Bootstrap` walks each
process through `build`: look at the tables, create them, add each missing column, read the
roles and the accounts, commit; whoever loses a race for a table or a row ends and is
started again. `Deployment` composes the two: `main` runs only behind a completed build, the
handlers only while the API is up, and either process may end at any time.

### EventStore and EventReports
Events, tracks and snapshots are rows of their own with an object per snapshot; the sweep
takes events, snapshots and audit rows, chunk by chunk, each with its own global cut-off: the
code does not read a camera's `retention` field. Deleting rows that a cascade has taken is a
warning of the session, no failure (`SweepCommit`). An
operator pages with `list_events`: sort, tie-break by id, offset, while rows come and go.
`EventReports` has the queries: timeline, Overview, breakdown, dwell, counting, occupancy,
search, lists and exports, as operators over the same rows, with the code's limits as constants:
`Markers` (500 rule events of a day), `ExportRows` (50 000 rows of a CSV) and `Scan` (2000 events a
search looks at, in no order). Camera ids are positive numbers,
for 0 stands for an event without a camera and for a filter that is not set.

### DevRig
A command is a program counter over `cmd_start`, `cmd_stop`, `cmd_status`, `cmd_verify`; a wait with
a deadline goes on when its condition holds and gives up when it does not. Processes come up,
exit, crash and have children; Ctrl-C may end a command anywhere. PIDs are not reused.

## 3. Runs

| run | question | distinct states | time |
|---|---|---|---|
| `archive` | recent loss, orphans, skew, retention | 367 408 | 32 s |
| `gateway` | budget, truthful status, endless retries and recovery | 43 692 | 3 s |
| `live` | ownership of processes, what outlives the API, stale streams end, and how soon | 177 880 | 26 s |
| `alerts` | cooldowns, freshness, survival of the sender | 220 860 | 33 s |
| `presence` | sightings, snapshots and rows, refinement of `PresenceLog` | 752 362 | 24 s |
| `rules` | events justified, reported once, nothing missed | 193 641 | 30 s |
| `sessions` | one successor, sign-out, second factor, lockout | 1 648 611 | 25 s |
| `browser` | the screen tells the session, good sessions kept, calls end | 285 312 | 44 s |
| `enrollment` | erasure reaches the rows, names were seen, new faces reach the camera | 93 997 | 33 s |
| `worker` | orphans, stopping, complete starts | 239 212 | 60 s |
| `events` | snapshots, paging, retention, agreement of the reports within and past their limits | 619 895 | 112 s |
| `rig` | up means up, nothing untracked, thorough stop | 285 374 | 5 s |

All twelve hold. The properties, one line each:

- `LossOnlyAfterExpiry`, `OrphansOnlyFromFailures` relate the database to the store under all
  interleavings of recorder, sweep and deletion with failures between any two calls;
  `PlaybackSkewBounded` bounds how far the footage shown for a time can be from it, in every
  view that plays recordings; `RetentionEnforced`: an expired row goes. The retention is the global one (section 4).
- `GivesUpOnlyAfterBudget`, `ShownStatusTruthful`; `Recovers`: the thread retries as long as the
  network is bad, and settles on a stream that comes back. It speaks of streams that fail: one that stalls is section 4's.
- `LostOnlyByOverlap`, `ExitLeavesOnlyDoomed` say who owns each process, `StaleStreamsEnd` that idle
  and overlong ones leave the registry, `EndInTime` how soon they do while the reaper is not held up.
- `CooldownHeld`, `FreshRoutes`, `EveryAlertHandled` bound what shared keys, stale routes and
  failing services can do. That an alert was handled does not say that each of its channels got
  it: a channel that raises ends the dispatch (`Alerts_fanout.cfg`).
- `SightingsAccounted`: no sighting that was entered is forgotten, those that never were are of no
  more frames than have failed, and no window is stretched over more than the gap allows, by a
  bound that grows with failed frames, as the code's does; `StoreFollowsEvents`;
  `ImplementsLog` is the promise as a whole.
- `EventsJustified`, `ReportedOnce`, `NothingMissed` hold the engine's memory against the frames,
  for the rules that share it with no other.
- `OneSuccessor`, `SignOutHolds`, `FactorProven`, `LockoutHolds`: each holds unless two requests
  had read the same row before one of them committed, and the property says which overlap;
  outside of those no order of requests breaks it.
- `ScreenTellsSession`, `SessionKept`, `CallsEnd`: the page between awaits.
- `NothingNamesErased`, `EventsNameWhoWasSeen`; `CameraCatchesUp`: a reference of a later second
  reaches the camera, even one whose frames fail on an erased name.
- `OrphanOnlyByRace`; `StopReachesAll`: under a stop every thread ends but those a camera holds in a
  read, a back-off or the segment being written; `StartsComplete`.
- `SnapshotsAccounted`, `MissedOnlyByRemoval`; `ExpiredGone`, of the global retentions;
  `ReportsAgree`: ten queries count the same rows; where a limit cuts one of them off, it has as many
  as the limit, the earliest of the day or the beginning of the list.
- `UpMeansUp`, `NothingUntracked`, `StopLeavesNothing`.

### Bounds
- `archive`: six instants of half a key window, three launches of ffmpeg and one fault. Segments are
  half a window, so that two share an object; retention is one tick, so that rows expire,
  are swept one by one and new ones arrive in their window. One fault is enough to put a failure or
  a crash at every point; the proofs have no bounds.
- `gateway`: the code's own ten failures and six delays; two restarts and two failing writes,
  so that a stale row can meet another failure. The network is unbounded.
- `live`: two cameras and two handlers are what a race over one entry and an innocent bystander
  need; with two process identities one can be lost or doomed while the other is in use. The idle
  timeout is one tick and the maximum two, so that a stream can be idle and not overlong, and overlong
  but never idle. Time is unbounded.
- `alerts`: five routes over push with ntfy, MQTT, two webhooks and the environment's webhook, the
  last three of one key; two kinds, two alerts, one edit, one restart, three instants against cooldowns of 0, 1
  and 2 and a cache of 1.
- `presence`: seven instants against a gap of 2 and a tracker that forgets after 2 frames; two
  tracks, two runs of the worker, one fault. A window can be opened, interrupted, closed, lost
  and opened again by its track.
- `rules`: frames up to four ticks, one or two apart, of a person in a street, a yard or behind it and
  a bag, which may be taken for a person, in the yard or behind it. One rule of every kind has its
  memory for itself, two intrusion rules without ids share theirs beside them, and two specs cannot be
  built: room for an entry, the dwell of 2, a departure and a return, and for a label to flip and
  flip back within a stay.
- `sessions`: two requests at a time, six in all, three tokens, two secrets, three minutes against
  lifetimes of 1 and 2 and a lock of 1 after two attempts: every pair of handlers overlaps in every
  way, and a token can be rotated, replayed, revoked and swept.
- `browser`: one call beside the shell and the loop, three pairs of tokens, one reload: a session, its
  rotation and the session after it.
- `enrollment`: two persons, two references, two windows; ages saturate, so time is unbounded.
- `worker`: one camera, two edits, two lives of the worker; one added column, one permission that
  the release takes away and one it gives, two accounts, one change by an operator. Databases
  start empty, old or current.
- `events`: one camera, two events, one audit row, pages and chunks of one row, days of two ticks,
  three instants, one fault: rows expire one after the other while a walk of two pages is under
  way. With chunks and pages of one row every boundary falls between two rows. `Markers`, `ExportRows`
  and `Scan` are 1, so that two events of a kind are already past each limit; that of the audit
  export, the same operator, is passed in the proof only.
  The newest-first view is the page's default and the one in which new rows shift the offsets.
- `rig`: three commands, one crash, one Ctrl-C: a start over what an interrupted or crashed start or
  stop has left.

`CHECK_DEADLOCK FALSE` stands where a behaviour really ends: bounded clocks and histories of
frames, requests, pages and commands, and the exit of a process nobody starts again.

### Fairness
Weak fairness is given only to threads of a live process that have a timer or work at hand:

- the sweep's own steps (`RetentionEnforced`, `ExpiredGone`): a daemon thread of its own that
  starts again every hour; failures are bounded, so a sweep eventually completes;
- the camera thread (`Recovers`), whose assumption about the network is in the property's premise;
- the reaper, the clock and handlers past their first critical section (`StaleStreamsEnd`);
- the alert sender (`EveryAlertHandled`): every send has a timeout of 10 s but for an MQTT
  publication, of which it is assumed that it ends;
- in the page, what runs when an answer is there, and that the request of the refresh, of the
  restore, of the logout and of each call is answered or fails (`CallsEnd`): `fetch` does one
  or the other;
- a camera's frame that takes a tick (`CameraCatchesUp`): the camera delivers frames and time passes;
  nobody has to enrol or erase, and a frame need not succeed;
- the steps that are the worker's own (`StopReachesAll`): loading, `stop_all`, a record thread's turn, the
  background threads, the joins. Nothing is assumed of the cameras: a read may block, a source may
  stay away for ever, and a segment may never get its duration. That is why the property excuses what
  a camera holds;
- the steps of a build (`StartsComplete`): both processes are restarted when they end
  (`restart: unless-stopped`).

Nothing is assumed of operators, viewers, the network or ffmpeg, and stop and restart may
always happen. `sessions`, `presence`, `rules` and `rig` have no fairness and no
liveness.

## 4. Where the code and its own words disagree

Each has a configuration that reproduces it (`tlc -config <cfg> <module>`, which then
reports the property violated); beside it stands the property of section 3 that says how far
the damage goes.

| configuration | module | sentence | what the code does |
|---|---|---|---|
| `Archive_hole.cfg` | `RecordingArchive` | an operator never scrubs into a hole (`cameras.py:458-460`) | Two rows may share an object, when ffmpeg ended early or the worker restarted within a bucket. The sweep deletes the object of the older row and the younger one points at nothing. `LossOnlyAfterExpiry`: only rows of a key window that began before the cut. |
| `Gateway_backoff.cfg` | `StreamGateway` | exponential backoff (`system-architecture.md:91-92`) | The counter is reset when a source is made, before it is read, so a dead stream is retried at the first delay for ever. |
| `Archive_override.cfg` | `RecordingArchive` | a camera's `retention` field overrides the global policies for its data (`USER_GUIDE.md:203-206`, `runbook.md:80-81`, `models.py:124-125`) | The sweep reads the global settings only (`main.py:196-239`), for recordings and, in the same way, for events and snapshots: rows within a longer override go, and rows past a shorter one stay. `RetentionEnforced` and `ExpiredGone` are about the global retentions. |
| `Gateway_stall.cfg` | `StreamGateway` | detects stalled streams and recovers (`gateway.py:6`), reconnects on a stall (`gateway.py:70`) | Neither the read nor ffmpeg has a time limit, so a thread whose stream stalls waits as long as the stall lasts. `Recovers`: from streams that fail. |
| `Live_race.cfg` | `LiveStreams` | every transcode is tracked (`live.py:9-13`) | Of two plays of one camera that both miss, one ffmpeg is lost. `LostOnlyByOverlap`: this is the only way. |
| `Alerts_window.cfg` | `MCAlertDelivery` | routes do not share a window (`main.py:65-66`) | Two webhooks of the same rule, or a configured one and that of the environment, do. |
| `Alerts_fanout.cfg` | `MCAlertDelivery` | fans an alert out to all notifiers (`notify/__init__.py:289`) | The first one that raises ends the dispatch, and those after it get nothing, though their cooldowns have begun. `EveryAlertHandled`: the sender gets to the next alert. |
| `Presence_people.cfg` | `PresencePipeline` | distinct people in a window (`analytics.py:21`) | Track numbers start again with the worker and the row of an earlier person is overwritten. |
| `Rules_entry.cfg` | `MCRuleEngine` | one event per entry (`rules.py:235`) | A track that crosses, goes back and crosses again without leaving the picture is reported once. |
| `Rules_shared.cfg` | `MCRuleEngine` | per-zone memory, so that a rule fires only on a meaningful event (`rules.py:12`) | Two rules of one type that were stored without an id, as `ui/views/rules_editor.js:34-47,232-252` stores them, share an id (`rules.py:325`). One resets the flag of the other, and a stay is reported on every frame; two loitering zones clear each other's times, and a dwell is never reported. |
| `Enrollment_erased.cfg` | `EnrollmentCache` | biometric data must not outlive its subject (`models.py:156-157`, `USER_GUIDE.md:450`) | A deletion leaves no row past the watermark, so a camera matches the erased person until the next reference is enrolled. `NothingNamesErased`: no row follows from it. |
| `Enrollment_stuck.cfg` | `EnrollmentCache` | no sentence of the code: that a frame which fails is followed by one that is stored | A window that names an erased person is refused at each flush and never leaves memory (`pipeline.py:389-398`, `417-431`), so no later frame of its camera is stored until the worker restarts. |
| `Sessions_password.cfg` | `Sessions` | a password change revokes every other token, this session keeps working (`auth.py:218-220`, `USER_GUIDE.md:316`) | All refresh tokens are revoked, the asking session's with them (`auth.py:234-241`). `SignOutHolds`: no older session outlives it. |
| `Browser_over.cfg` | `BrowserSession` | the session is over when the refresh fails too (`api.js:8-9`) | A 401 of `/api/auth` ends it without a refresh. |
| `Worker_term.cfg` | `MCDeployment` | SIGTERM exactly like Ctrl-C (`main.py:554-556`) | The main loop never looks at the event: the threads end and the process stays, until it is killed. |
| `Worker_stale.cfg` | `MCDeployment` | an edit applies to new frames immediately (`USER_GUIDE.md:125`) | Nothing but a restart of the worker reads a camera's row again. |
| `Events_search.cfg` | `MCEventStore` | a search is capped to the most recent 2000 events (`analytics.py:119`) | The query has a limit and no order, so any 2000 of the range may be searched. `ReportsAgree`: as many as there are, up to the limit. |
| `Rig_orphans.cfg` | `DevRig` | stop tears the whole tree down without orphans (`local_cctv_rig.py:16-17`, `133-134`, `173`) | SIGTERM goes to the group and SIGKILL to the leader only (`:189`), so a child that the worker starts after its SIGTERM runs on. `StopLeavesNothing`: without crashes and Ctrl-C, nothing else. |

Seen on the way, some of it visible in the models, most without a sentence that contradicts it:

- Segments shorter than the key window replace each other's clips (the instance of `archive`); a
  row starts at its bucket, up to a segment before its footage; the record loop of a deleted
  camera keeps uploading until the worker restarts.
- A camera shown `ONLINE` when the worker died stays so until the first transition.
- Processes the reaper has taken may survive the API.
- An interruption of the stream extends a window across it; dwell runs on over frames without
  tracks, and a crowd that disperses into an empty picture keeps its flag; an object reported as
  removed keeps its time of entry for another frame.
- `build_notifier` retains push messages by default (`notify/__init__.py:272`), against the comment
  at 206-209.
- A logout answered after a new login drops the new session; a refresh answered after a
  logout stores the old session again (`api.js:117`); a refused `/me` still enters the app;
  a lost answer to a refresh ends a good session, for the server has rotated.
- `delete_user` guards neither oneself nor the last account; the next start seeds the first
  account again.
- The "duration" column sorts by `timestamp_end`; `Track` and `Detection` rows are never swept;
  `get_event` issues signed URLs without the audit row `video.py` speaks of; the CSV export does
  not know the filter by identity; `live.py:222`, `cameras.py:125` and `:150` add audit rows and
  never commit them; the audit export lacks the row about itself.
- `_TrackState` copies the trajectory only at the first sighting (`pipeline.py:338`).
- In the rig, `http_json` raises on 4xx, so the warning that rules could not be installed is
  never printed; a start interrupted between a process and its file leaves a process no stop
  knows of.

## 5. What is proved

Eight modules of proofs, for every value of the constants that the modules' assumptions admit
(natural bounds, positive lengths and lifetimes): any number of cameras, handlers, tokens,
persons, commands, faults. No property is inductive by itself; each module has an
inductive invariant, established as `Init => I`, `I /\ [Next]_vars => I'`, with one step per
action and, under it, one per conjunct the action can disturb. TLC has checked every
invariant on the instance of its run before it was proved. Of every component the type
invariant is a theorem of its own (`...TypeCorrect`).

A liveness property says that something ends or arrives; what its proof would rest on besides
fairness is mostly a safety fact: that nothing which was done is undone, or that what is left to
do becomes less. These facts are proved, as the *safety half* of the property.

| module | theorems | invariant and why it is needed |
|---|---|---|
| `RecordingArchiveProofs` | `TypeCorrect`, `Inductive`, `NoRecentLoss` (`LossOnlyAfterExpiry`), `OrphansAccountedFor` (`OrphansOnlyFromFailures`), `SkewBounded` (`PlaybackSkewBounded`), `RemovedOnlyWhenDue` | `IInv`. Loss needs that a row lies in the key window of its start, that the cut of a running sweep stays in the past and its chunk older than it, and that the segment being saved is as safe as a saved row. Orphans need the rows the sweep is through with to be discounted already, which uses that ids are unique. Skew needs objects to lie in the key window of their capture; the arithmetic is in two lemmas about `segment_boundary` and `segment_key`. `RemovedOnlyWhenDue` is the converse of `RetentionEnforced`: no step takes away footage that is not due. |
| `VideoProofs` | `GatewayTypeCorrect`, `BudgetKept` (`GivesUpOnlyAfterBudget`), `StatusTruthful` (`ShownStatusTruthful`), `FailedStreamsRetried` (safety half of `Recovers`) | `GInv`: the counter never runs ahead of the failures since the last frame, and the status says where the thread is while the row differs from it only between a restart and the first transition. `Reset`: a stream that was opened has set the counter back, so that only refused addresses lead to the end of the budget. |
| | `LiveInductive`, `LiveTypeCorrect`, `LostByOverlapOnly` (`LostOnlyByOverlap`), `ExitLeaves` (`ExitLeavesOnlyDoomed`), `EndedInTime` (`EndInTime`), `OwnedAndWatched` (safety half of `StaleStreamsEnd`), `RegisteredRunsOn` | `LInv`: what each handler holds and that nobody else does, that without an overlap a camera is being started by one handler at most, and the order of the shutdown. `OneOwner`: a process is in the registry once or in the hands of one who ends it, whatever plays overlap; from it follows that a registered transcode is ended by nobody else. `Watched`: an entry never lacks the reaper. `EndInTime` needs that the reaper takes whatever is over a limit whenever it wakes in time. |
| `AlertProofs` | `AlertInductive`, `AlertTypeCorrect`, `CooldownsKept` (`CooldownHeld`), `RoutesFresh` (`FreshRoutes`), `NoneOvertaken` (safety half of `EveryAlertHandled`), `LoopIsSelection` | `AlertInv`: what is recorded under a key is never older than the last selection of any route with that key, which is what makes shared keys safe; a cached route is in the table or was deleted after the list was read; no alert on the queue is younger than the last one produced. `InOrder`: the queue holds the numbers between the last one taken and the last one produced. `LoopIsSelection` is not about states: if the loop's intermediate results differed from the sets anywhere, they would at a least turn, and there they do not. |
| `PresenceProofs` | `PresenceImplementsLog` (`ImplementsLog`), `StoreFollows` (`StoreFollowsEvents`), `NoSightingForgotten` (`SightingsAccounted`), `PipelineTypeCorrect` | `WInv`: a staged window belongs to this run, to a track no longer in memory, and has been quiet for the gap, so that open windows are one per object and a commit may publish them. Then every step of the pipeline is one of the log: a frame is `Observe`, a commit `Publish`, a rollback or restart `Drop`. `StoreInv`: a row lags behind its open window only while a transaction is under way, and never behind a closed one. `SightInv`: a window spans the sightings of its track since it opened, none is later than the track's last, each failed frame accounts for the sightings it missed, and the quiet time of a track is below the gap and the intervals of the frames that failed. |
| `SessionsProofs` | `SessionsInductive`, `SessionsTypeCorrect`, `SuccessorUnique` (`OneSuccessor`), `SignOutFinal` (`SignOutHolds`), `FactorPossessed` (`FactorProven`), `LockoutKept` (`LockoutHolds`) | `SInv`: what a request has read tells whether it was overtaken; a token's parent was revoked by the commit that made it; the epoch a token was begun in. `LockInv`: no lock reaches further than its length from now, so that a new one never ends before the one it replaces. |
| `WorkerProofs` | `DeploymentInductive`, `OrphansOnlyByRace` (`OrphanOnlyByRace`), `UpIsComplete` (safety half of `StartsComplete`), `StopIsFinal` (half of what `StopReachesAll` rests on), `QuietForGood`, `DeploymentTypeCorrect` | `WorkerInv /\ BootInv` of the composition: a recorder without its loop was late; a process at a place of its build has done what comes before it, whichever of the two did it. For the shutdown, `Winding` says how every step under a set stop event leads towards the end: what has ended stays ended, and a record thread launches at most one segment more. |
| | `EnrollmentInductive`, `EnrollmentTypeCorrect`, `ErasureReachesRows` (`NothingNamesErased`), `NamesAreSeen` (`EventsNameWhoWasSeen`), `NewFacesWait` (safety half of `CameraCatchesUp`), `ForgottenForGood` | `EnrollmentInv`: what rows may name, and that a window is called only what a recognition of it said. `Departed`: the erased have no person row. With it, an upload that read the person before the erasure cannot bring a face back into a copy that has lost it. |
| | `EngineInductive`, `EngineTypeCorrect`, `EventsTrue` (`EventsJustified`), `StaysReportedOnce` (`ReportedOnce`), `StaysReported` (`NothingMissed`) | `EngineInv` ties what the engine remembers to the frames it was given. The time of entry is that of the first frame of the stay that still goes on (`SinceInv`); the flag of a zone, a tripwire or a crowd says whether there has been an event since the stay, the presence or the crowd began (`FiredInv`, `LineInv`, `CrowdInv`); the remembered centre is that of the latest frame with tracks (`SeenInv`). From these every event of the past stays justified, single and complete (`DwellInv`, `RemovedInv`, `CrossingInv`, `GatheringInv`). All of it is about rules whose key no other rule has: for those the loop over all rules does what the rule alone would (`OwnRule`, `Answer`), by induction over its turns. Frames without tracks are what needs care: the engine does not see them. |
| `ConsoleProofs` | `BrowserInductive`, `ScreenTruthful` (`ScreenTellsSession`), `SessionHeld` (`SessionKept`), `BrowserTypeCorrect`, `CallsMoveOn` (safety half of `CallsEnd`) | `BrowserInv`: whose token each open request carries, that the refresh in flight is for the token of the tab and brings a good one unless all sessions were ended, and that whatever breaks these rules was begun in an older session of the tab (`mixed`). `Outstanding` counts what an open call has still before it. |
| | `StoreInductive`, `StoreTypeCorrect`, `SnapshotsKept` (`SnapshotsAccounted`), `OnlyExpiredSwept`, `ExpiredOnlyShrinks` (safety half of `ExpiredGone`) | `StoreInv`: ids are given once, an event and its rows agree, what the sweep has in hand has expired and lost its object or not, by its stage, and the deletion has listed every snapshot of its camera that is not excused. `InHand`: the chunk of a sweep was past its cut when it was queried, and what it names has not become younger since. |
| | `ReportsConsistent` (`ReportsAgree`) | `Spans`: an event ends no earlier than it begins. The limits are any natural numbers. The rest is about the reports as functions of the rows. Those that fold or count agree by induction on the number of rows, written as the search for a least counterexample (see below); pages agree because every row has a rank in the sorted order and every rank lies on a page. |
| | `WalkInductive`, `PagesComplete` (`MissedOnlyByRemoval`) | `WalkInv`: of the events that were there when paging began and still are, those no page has shown and that lie before the offset are at most as many as were removed. It rests on lemmas about ranks in a finite strict order: every place is taken by one event (`PlacesFilled`), and taking out n events moves at most n of the others before a given place (`PlacesShift`). |
| `DevRigProofs` | `RigInductive`, `EveryProcessTracked` (`NothingUntracked`), `StopIsThorough` (`StopLeavesNothing`), `UpIsUp` (`UpMeansUp`), `RigTypeCorrect` | `FilesInv`: PIDs given, files and the process in hand agree; for the stop, what each of its places has ended already; for the start, which service each of its places has seen ready and under which key the worker was started. |

Of the properties of section 3, `OrphanOnlyByRace`, `SessionKept`, `CooldownHeld`, `FreshRoutes`
and `MissedOnlyByRemoval` are action properties, `ImplementsLog` is a refinement, `LockoutHolds` an
invariant and an action property; the others are invariants. Of the further theorems those about
steps are action properties of the specification, too: `RemovedOnlyWhenDue`, `FailedStreamsRetried`,
`RegisteredRunsOn`, `NoneOvertaken`, `StopIsFinal`, `QuietForGood`, `NewFacesWait`,
`ForgottenForGood`, `CallsMoveOn`, `OnlyExpiredSwept` and `ExpiredOnlyShrinks`.

The induction theorems of the library take a predicate as a parameter, which the provers cannot
instantiate. Where a fact about a fold, a count or a loop needs induction, the proof therefore takes
the set of numbers for which it fails, picks its least element by the well-foundedness of the
naturals (a theorem about sets) and refutes it.

Every invariant, every action property and the refinement that a run checks is a theorem. Only
model-checked are the liveness properties, since fairness and ENABLED are beyond the prover:

| property | what is proved of it |
|---|---|
| `RetentionEnforced` | its converse, `RemovedOnlyWhenDue` |
| `Recovers` | `FailedStreamsRetried` |
| `StaleStreamsEnd` | `OwnedAndWatched` |
| `EveryAlertHandled` | `NoneOvertaken` |
| `CallsEnd` | `CallsMoveOn` |
| `CameraCatchesUp` | `NewFacesWait` |
| `StopReachesAll` | `StopIsFinal`, `QuietForGood` |
| `StartsComplete` | `UpIsComplete` |
| `ExpiredGone` | `ExpiredOnlyShrinks` |

## 6. Not modelled

- **Numeric and pure code**: detectors, recognisers, plate reading, captions, crypto, password
  hashes, permissions, address checks. Their answers are choices of the environment where a
  module meets them. Nothing interleaves in them.
- **Wrappers** of external services without state: S3, ONVIF, vendor presets, metrics, logging.
- **The rate limiter**: a token bucket over floating-point time under one lock.
- **The DVR scrubber and the other views**: rendering and seeking within a page. The stateful
  clients, session and paging, are modelled, and the promise about footage is in
  `RecordingArchive`.
- **Parts of modelled components**: sampled `Detection` rows, ANPR, and the heatmap (windows and
  reports do not depend on them); the test route of the alerts API; which handlers commit their
  audit row (visible in each handler alone); a refused request that only adds an audit row.
- **Deployment files and straight-line tools**: their settings are constants.

## 7. Plan

What is left: the rate limiter and the commits of audit rows, as small modules of their own.
