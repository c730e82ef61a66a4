----------------------------- MODULE EventStore -----------------------------
(* The database tables that outlive a frame: Event, Track, Snapshot and        *)
(* AuditLog rows and the snapshot objects of the storage.  The worker inserts  *)
(* them, the hourly sweep of apps/worker/main.py removes what has expired, one *)
(* chunk and one commit at a time, and delete_camera takes a camera's rows by  *)
(* cascade and its objects afterwards.  Operators page through the events      *)
(* (apps/api/routers/events.py, ui/views/events.js) meanwhile, and four        *)
(* reports count the same rows in four ways (routers/timeline.py,              *)
(* routers/analytics.py, packages/domain/analytics.py).                        *)
(*                                                                             *)
(* Time is in ticks; an event is stored in the tick it ends in.  One snapshot  *)
(* belongs to one presence event and carries its number.  The transaction in   *)
(* which the worker stores an event is one step: what fails inside it is       *)
(* PresencePipeline's subject.                                                 *)
EXTENDS Integers, FiniteSets, Sequences

CONSTANTS
  Camera,        \* a set of numbers: cameras can be sorted by; 0 is none
  EventDays, SnapshotDays, AuditDays,   \* retention_*_days, in ticks
  Chunk,         \* _SWEEP_CHUNK
  Page,          \* PAGE of ui/views/events.js, the limit of a request
  Day,           \* ticks of a day
  Scan, Markers, ExportRows,   \* the limits of semantic_search, of the timeline's
                 \* markers and of an export
  Views,         \* the sortings operators page in: sort and direction
  MaxEvents, MaxAudit, MaxTime, MaxFaults

ASSUME StoreAssumption ==
  /\ Camera \subseteq Nat \ {0} /\ IsFiniteSet(Camera)
  /\ {EventDays, SnapshotDays, AuditDays, MaxEvents, MaxAudit, MaxFaults} \subseteq Nat
  /\ {Chunk, Page, Day, Scan, Markers, ExportRows, MaxTime} \subseteq Nat \ {0}
  /\ Views \subseteq {"timestamp", "camera"} \X {"asc", "desc"}   \* of _EVENT_SORT

Id == 1..MaxEvents          \* Event.id: random, so any order of creation
Kind == {"presence", "rule"}
Action == {"delete", "export"}   \* of AuditLog rows, by the verb of their action
Length(kind) == IF kind = "presence" THEN 1 ELSE 0   \* a rule fires at an instant

VARIABLES
  now, cameras,
  events,        \* Event rows, by id
  tracks,        \* Track rows, by the id of the event of their presence
  snaps,         \* Snapshot rows
  objects,       \* snapshots/... in the storage
  audit,         \* AuditLog rows
  sweep,         \* _sweep_retention: stage, its `now`, the chunk in hand
  deletion,      \* delete_camera: camera, collected keys, whether it has committed
  walk,          \* an operator paging through the events
  faults,
  unused, excused  \* history: ids not yet given; objects whose removal went wrong

rows == <<events, tracks, snaps>>
storeVars == <<now, cameras, events, tracks, snaps, objects, audit,
          sweep, deletion, walk, faults, unused, excused>>

EventRow == [camera : Camera, kind : Kind, start : 0..MaxTime, end : 0..MaxTime]
TrackRow == [camera : Camera, first : 0..MaxTime, last : 0..MaxTime]
SnapRow  == [camera : Camera, at : 0..MaxTime]
AuditRow == [ts : 1..MaxTime, action : Action]
Without(f, S) == [i \in DOMAIN f \ S |-> f[i]]
OfCamera(f, c) == {i \in DOMAIN f : f[i].camera = c}

NoSweep == [stage |-> "idle", at |-> 0, chunk |-> {}, doing |-> {}]
NoDeletion == [camera |-> 0, keys |-> {}, committed |-> FALSE]
NoWalk == [pc |-> "idle", sort |-> "timestamp", direction |-> "desc", offset |-> 0,
           seen |-> {}, present |-> {}, removed |-> 0]

StoreInit ==
  /\ now = 1 /\ cameras = Camera /\ faults = 0
  /\ events = <<>> /\ tracks = <<>> /\ snaps = <<>> /\ objects = {}
  /\ audit = {}
  /\ sweep = NoSweep /\ deletion = NoDeletion /\ walk = NoWalk
  /\ unused = Id /\ excused = {}

(* The events of S are no longer in the table: the walk under way may miss as  *)
(* many as were removed.                                                       *)
Removed(S) ==
  walk' = IF walk.pc # "asking" THEN walk
          ELSE [walk EXCEPT !.present = @ \ S, !.removed = @ + Cardinality(S)]

-----------------------------------------------------------------------------
(* The worker.                                                                 *)

(* A frame's transaction: the event, for a presence the object and the row of  *)
(* its snapshot, and the row of its track.                                     *)
Store(i, c, kind) ==
  /\ i \in unused /\ c \in cameras /\ now >= Length(kind)
  /\ unused' = unused \ {i}
  /\ events' = [j \in DOMAIN events \union {i} |-> IF j = i
       THEN [camera |-> c, kind |-> kind, start |-> now - Length(kind), end |-> now] ELSE events[j]]
  /\ tracks' = [j \in DOMAIN tracks \union {i} |-> IF j = i
       THEN [camera |-> c, first |-> now - Length(kind), last |-> now] ELSE tracks[j]]
  /\ IF kind = "presence"
     THEN /\ objects' = objects \union {i}
          /\ snaps' = [j \in DOMAIN snaps \union {i} |-> IF j = i
               THEN [camera |-> c, at |-> now] ELSE snaps[j]]
     ELSE UNCHANGED <<objects, snaps>>
  \* a snapshot stored after delete_camera has listed the camera's keys
  /\ excused' = IF kind = "presence" /\ deletion.camera = c THEN excused \union {i} ELSE excused
  /\ UNCHANGED <<now, cameras, audit, sweep, deletion, walk, faults>>

-----------------------------------------------------------------------------
(* The hourly sweep.                                                           *)

(* The order of the stages; RecordingArchive has the one before them, and      *)
(* EnrollmentCache and Sessions those of embeddings and refresh tokens.        *)
StageAfterUnaudited(stage) == IF stage = "events" THEN "snapshots" ELSE "idle"

StageAfter(stage) ==
  CASE stage = "events" -> "snapshots" [] stage = "snapshots" -> "audit" [] OTHER -> "idle"

SweepStart ==
  /\ sweep = NoSweep
  /\ sweep' = [NoSweep EXCEPT !.stage = "events", !.at = now]
  /\ UNCHANGED <<now, cameras, rows, objects, audit, deletion, walk, faults, unused, excused>>

(* A row is past the cut of its stage, the cut being taken when the sweep      *)
(* began.                                                                      *)
PastByStart(stage, at) ==
  CASE stage = "events" -> {i \in DOMAIN events : events[i].start < at - EventDays}
    [] stage = "snapshots" -> {i \in DOMAIN snaps : snaps[i].at <= at - SnapshotDays}
    [] stage = "audit" -> {a \in audit : a.ts < at - AuditDays}
    [] OTHER -> {}

Past(stage, at) ==
  CASE stage = "events" -> {i \in DOMAIN events : events[i].end < at - EventDays}
    [] stage = "snapshots" -> {i \in DOMAIN snaps : snaps[i].at < at - SnapshotDays}
    [] stage = "audit" -> {a \in audit : a.ts < at - AuditDays}
    [] OTHER -> {}

(* The query of one chunk; a stage without expired rows is over.               *)
SweepSelect ==
  /\ sweep.stage # "idle" /\ sweep.chunk = {}
  /\ LET past == Past(sweep.stage, sweep.at)
     IN  IF past = {}
         THEN sweep' = IF StageAfter(sweep.stage) = "idle" THEN NoSweep
                       ELSE [sweep EXCEPT !.stage = StageAfter(sweep.stage)]
         ELSE \E S \in SUBSET past :
                /\ Cardinality(S) = IF Cardinality(past) < Chunk THEN Cardinality(past) ELSE Chunk
                /\ sweep' = [sweep EXCEPT !.chunk = S,
                                          !.doing = IF sweep.stage = "snapshots" THEN S ELSE {}]
  /\ UNCHANGED <<now, cameras, rows, objects, audit, deletion, walk, faults, unused, excused>>

(* Events and audit rows: the chunk is deleted by its keys and committed.  If  *)
(* nothing of it was left to delete, the stage ends although others may wait.  *)
SweepDelete ==
  /\ sweep.stage \in {"events", "audit"} /\ sweep.chunk # {}
  /\ LET there == IF sweep.stage = "events" THEN sweep.chunk \intersect DOMAIN events
                  ELSE sweep.chunk \intersect audit
     IN  /\ IF sweep.stage = "events"
            THEN events' = Without(events, there) /\ Removed(there) /\ UNCHANGED audit
            ELSE audit' = audit \ there /\ UNCHANGED <<events, walk>>
         /\ sweep' = IF there # {} THEN [sweep EXCEPT !.chunk = {}]
                     ELSE IF StageAfter(sweep.stage) = "idle" THEN NoSweep
                     ELSE [sweep EXCEPT !.stage = StageAfter(sweep.stage), !.chunk = {}]
  /\ UNCHANGED <<now, cameras, tracks, snaps, objects, deletion, faults, unused, excused>>

(* Snapshots: the objects of the chunk first, each best-effort, then its rows. *)
SweepObject(i, deleted) ==
  /\ i \in sweep.doing
  /\ sweep' = [sweep EXCEPT !.doing = @ \ {i}]
  /\ IF deleted THEN objects' = objects \ {i} /\ UNCHANGED <<faults, excused>>
     ELSE /\ faults < MaxFaults /\ faults' = faults + 1
          /\ excused' = excused \union {i} /\ UNCHANGED objects
  /\ UNCHANGED <<now, cameras, rows, audit, deletion, walk, unused>>

(* The rows, those the cascade of a camera took meanwhile excepted: deleting   *)
(* nothing is worth a warning to the session, no error.                        *)
SweepCommit ==
  /\ sweep.stage = "snapshots" /\ sweep.chunk # {} /\ sweep.doing = {}
  /\ snaps' = Without(snaps, sweep.chunk) /\ sweep' = [sweep EXCEPT !.chunk = {}]
  /\ UNCHANGED <<now, cameras, events, tracks, objects, audit, deletion, walk, faults, unused, excused>>

(* Any statement may raise, and the worker may be restarted.                   *)
SweepAborts ==
  /\ sweep.stage # "idle" /\ faults < MaxFaults
  /\ faults' = faults + 1 /\ sweep' = NoSweep
  /\ UNCHANGED <<now, cameras, rows, objects, audit, deletion, walk, unused, excused>>

-----------------------------------------------------------------------------
(* The API: delete_camera, and the handlers that write the audit trail.        *)

write_audit(action) == audit' = audit \union {[ts |-> now, action |-> action]}

DeleteCollect(c) ==
  /\ deletion = NoDeletion /\ c \in cameras
  /\ deletion' = [camera |-> c, keys |-> OfCamera(snaps, c), committed |-> FALSE]
  /\ UNCHANGED <<now, cameras, rows, objects, audit, sweep, walk, faults, unused, excused>>

DeleteCommit ==
  /\ deletion # NoDeletion /\ ~deletion.committed
  /\ LET c == deletion.camera
     IN  /\ cameras' = cameras \ {c}
         /\ events' = Without(events, OfCamera(events, c))
         /\ tracks' = Without(tracks, OfCamera(tracks, c))
         /\ snaps' = Without(snaps, OfCamera(snaps, c))
         /\ Removed(OfCamera(events, c))
  /\ deletion' = [deletion EXCEPT !.committed = TRUE]
  /\ write_audit("delete")
  /\ UNCHANGED <<now, objects, sweep, faults, unused, excused>>

DeleteObject(i, deleted) ==
  /\ deletion.committed /\ i \in deletion.keys
  /\ deletion' = [deletion EXCEPT !.keys = @ \ {i}]
  /\ IF deleted THEN objects' = objects \ {i} /\ UNCHANGED <<faults, excused>>
     ELSE /\ faults < MaxFaults /\ faults' = faults + 1
          /\ excused' = excused \union {i} /\ UNCHANGED objects
  /\ UNCHANGED <<now, cameras, rows, audit, sweep, walk, unused>>

DeleteReturns ==
  /\ deletion.committed /\ deletion.keys = {}
  /\ deletion' = NoDeletion
  /\ UNCHANGED <<now, cameras, rows, objects, audit, sweep, walk, faults, unused, excused>>

(* A clip, a signed export or a CSV of the events: the row is committed before *)
(* the answer leaves.                                                          *)
Export ==
  /\ events # <<>> /\ Cardinality(audit) < MaxAudit
  /\ write_audit("export")
  /\ UNCHANGED <<now, cameras, rows, objects, sweep, deletion, walk, faults, unused, excused>>

(* The audit trail as CSV: the file holds what was there before its own row.   *)
ExportAudit ==
  /\ Cardinality(audit) < MaxAudit
  /\ write_audit("export")
  /\ UNCHANGED <<now, cameras, rows, objects, sweep, deletion, walk, faults, unused, excused>>

-----------------------------------------------------------------------------
(* Paging through the events.                                                  *)

Key(i, sort) == IF sort = "timestamp" THEN events[i].start ELSE events[i].camera

(* Rows of equal keys come in the order of their ids, in every request.        *)
AnyOrders == {p \in [Id -> Id] : \A i, j \in Id : p[i] = p[j] => i = j}
TieOrders == {[i \in Id |-> i]}

Before(i, j, view, tie) ==
  IF Key(i, view.sort) = Key(j, view.sort) THEN tie[i] < tie[j]
  ELSE (Key(i, view.sort) < Key(j, view.sort)) = (view.direction = "asc")

(* The filter by camera, or by none.                                           *)
Matching(c) == {i \in DOMAIN events : c = 0 \/ events[i].camera = c}

(* limit(Page).offset(offset) of the sorted rows.                              *)
list_events(c, view, tie) ==
  {i \in Matching(c) : Cardinality({j \in Matching(c) : Before(j, i, view, tie)})
                          \in view.offset .. view.offset + Page - 1}

WalkStarts(sort, direction) ==
  /\ walk.pc = "idle"
  /\ walk' = [NoWalk EXCEPT !.pc = "asking", !.sort = sort, !.direction = direction,
                            !.present = DOMAIN events]
  /\ UNCHANGED <<now, cameras, rows, objects, audit, sweep, deletion, faults, unused, excused>>

(* The next page; a page that is not full is the last one.                     *)
WalkPage ==
  /\ walk.pc = "asking"
  /\ \E tie \in TieOrders :
       LET page == list_events(0, walk, tie)
       IN  walk' = IF Cardinality(page) < Page THEN NoWalk
                   ELSE [walk EXCEPT !.seen = @ \union page, !.offset = @ + Page]
  /\ UNCHANGED <<now, cameras, rows, objects, audit, sweep, deletion, faults, unused, excused>>

StoreTick ==
  /\ now < MaxTime /\ now' = now + 1
  /\ UNCHANGED <<cameras, rows, objects, audit, sweep, deletion, walk, faults, unused, excused>>

Sweep == SweepStart \/ SweepSelect \/ SweepDelete \/ SweepCommit \/ \E i \in Id : SweepObject(i, TRUE)

StoreNext ==
  \/ \E i \in Id, c \in Camera, kind \in Kind : Store(i, c, kind)
  \/ Sweep \/ SweepAborts \/ \E i \in Id : SweepObject(i, FALSE)
  \/ \E c \in Camera : DeleteCollect(c)
  \/ DeleteCommit \/ DeleteReturns \/ \E i \in Id, ok \in BOOLEAN : DeleteObject(i, ok)
  \/ Export \/ ExportAudit
  \/ \E v \in Views : WalkStarts(v[1], v[2])
  \/ WalkPage \/ StoreTick

StoreSpec == StoreInit /\ [][StoreNext]_storeVars

(* The retention thread sweeps again and again; nothing else must happen.      *)
FairStore == StoreSpec /\ WF_storeVars(Sweep)
=============================================================================
