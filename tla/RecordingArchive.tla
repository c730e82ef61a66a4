-------------------------- MODULE RecordingArchive --------------------------
(***************************************************************************)
(* The recorded archive of one camera: the worker's record thread, which   *)
(* publishes one storage object and then one VideoSegment row per clip, the *)
(* hourly retention sweep, which removes them in the opposite order, and    *)
(* the API's camera deletion.  The storage and the database are separate:   *)
(* no transaction covers both, and each step below is one call on one of    *)
(* them.  Time is counted in ticks; a clip is a number of ticks of media.   *)
(***************************************************************************)
EXTENDS Integers, FiniteSets

CONSTANTS
    SegSeconds,     \* settings.record_segment_seconds
    KeySeconds,     \* the alignment segment_key() uses when it is given none
    Retention,      \* settings.retention_recordings_days
    SweepChunk,     \* _SWEEP_CHUNK, rows removed per transaction
    MaxTime,        \* bound: the clock stops here
    MaxSegments,    \* bound: ffmpeg is launched at most this often
    MaxFaults,      \* bound: failing calls and crashes
    NoClip          \* the value of a key that holds no object

ASSUME WidthAssumption ==
    /\ SegSeconds \in Nat \ {0}
    /\ KeySeconds \in Nat \ {0}
    /\ Retention \in Nat
    /\ SweepChunk \in Nat \ {0}

ASSUME BoundAssumption ==
    /\ MaxTime \in Nat
    /\ MaxSegments \in Nat
    /\ MaxFaults \in Nat

Time == 0..MaxTime
Ids  == 1..MaxSegments

\* A clip in storage: which launch of ffmpeg wrote it, when its first frame
\* was captured and how much media it holds.
Clip == [id : Ids, from : Time, len : 1..SegSeconds]

ASSUME NoClipAssumption == NoClip \notin Clip

VARIABLES
    now,
    camera,     \* whether the row of the camera exists
    rows,       \* the camera's rows of video_segments
    objects,    \* key -> the clip stored under it
    recPc,      \* where the record thread is
    seg,        \* the unsaved VideoSegment of record_url / finalize_last
    capture,    \* real start of ffmpeg's capture
    ffmpeg,     \* the state of last_proc
    written,    \* media in the scratch file once ffmpeg has exited
    launched,   \* number of launches so far
    sweepPc, sweepCut, chunk, pending,  \* the sweep: its cut, rows, rows left
    deletePc, deleteKeys,               \* delete_camera: keys left to delete
    faults,
    leaked      \* history: keys left without a row by a failed step

recVars   == <<recPc, seg, capture, ffmpeg, written, launched>>
sweepVars == <<sweepPc, sweepCut, chunk, pending>>
delVars   == <<deletePc, deleteKeys>>
vars == <<now, camera, rows, objects, recVars, sweepVars, delVars, faults, leaked>>

-----------------------------------------------------------------------------
(* Segment arithmetic. *)

segment_boundary(t, width) == (t \div width) * width

\* Faulty variant: every segment of the day gets one key.
DayKey(start) == 0

\* record_url passes no seg_seconds, so the key is aligned to the default.
segment_key(start) == segment_boundary(start, KeySeconds)

Keys == {segment_key(t) : t \in Time}

\* A row of video_segments.  end is start plus the duration of the file.
Row == [id : Ids, key : Keys, start : Time, end : Int]

NoSeg == [id |-> 0, key |-> 0, start |-> 0, end |-> 0]

Scheduled(id, t) ==
    LET start == segment_boundary(t, SegSeconds)
    IN  [id |-> id, key |-> segment_key(start), start |-> start,
         end |-> start + SegSeconds]

-----------------------------------------------------------------------------
Init ==
    /\ now = 0
    /\ camera = TRUE
    /\ rows = {}
    /\ objects = [k \in Keys |-> NoClip]
    /\ recPc = "loop"
    /\ seg = NoSeg
    /\ capture = 0
    /\ ffmpeg = "none"
    /\ written = 0
    /\ launched = 0
    /\ sweepPc = "idle"
    /\ sweepCut = 0
    /\ chunk = {}
    /\ pending = {}
    /\ deletePc = "none"
    /\ deleteKeys = {}
    /\ faults = 0
    /\ leaked = {}

\* A failing call or a crash, within the bound.
Fault == faults < MaxFaults /\ faults' = faults + 1

Tick ==
    /\ now < MaxTime
    /\ now' = now + 1
    /\ UNCHANGED <<camera, rows, objects, recVars, sweepVars, delVars, faults, leaked>>

-----------------------------------------------------------------------------
(* The record thread. *)

\* The top of _record_loop: record_url launches ffmpeg for the bucket of now.
RecordUrl ==
    /\ recPc = "loop"
    /\ launched < MaxSegments
    /\ launched' = launched + 1
    /\ seg' = Scheduled(launched + 1, now)
    /\ capture' = now
    /\ ffmpeg' = "running"
    /\ written' = 0
    /\ recPc' = "waiting"
    /\ UNCHANGED <<now, camera, rows, objects, sweepVars, delVars, faults, leaked>>

\* ffmpeg ends: at the -t limit, at an early end of the stream (also code 0),
\* or with an error.  Stalls make the media shorter than the time elapsed.
FfmpegExits ==
    /\ recPc = "waiting"
    /\ ffmpeg = "running"
    /\ ffmpeg' \in {"ok", "failed"}
    /\ \E n \in 0..SegSeconds : n <= now - capture /\ written' = n
    /\ UNCHANGED <<now, camera, rows, objects, recPc, seg, capture, launched,
                   sweepVars, delVars, faults, leaked>>

\* finalize_last returns None: ffmpeg failed, or the file is empty.
DiscardSegment ==
    /\ recPc = "waiting"
    /\ ffmpeg = "failed" \/ (ffmpeg = "ok" /\ written = 0)
    /\ recPc' = "loop"
    /\ seg' = NoSeg
    /\ ffmpeg' = "none"
    /\ UNCHANGED <<now, camera, rows, objects, capture, written, launched,
                   sweepVars, delVars, faults, leaked>>

\* finalize_last uploads the clip, replacing what the key held.  The duration
\* is the one ffprobe reports, or the scheduled one when the probe fails.
FinalizeLast ==
    /\ recPc = "waiting"
    /\ ffmpeg = "ok"
    /\ written > 0
    /\ objects' = [objects EXCEPT ![seg.key] =
                      [id |-> seg.id, from |-> capture, len |-> written]]
    /\ seg' \in {[seg EXCEPT !.end = seg.start + written], seg}
    /\ ffmpeg' = "none"
    /\ recPc' = "persist"
    /\ UNCHANGED <<now, camera, rows, capture, written, launched,
                   sweepVars, delVars, faults, leaked>>

\* put_stream raises: an OSError makes finalize_last return None, any other
\* exception pauses the loop.  Nothing was published.
PutFails ==
    /\ recPc = "waiting"
    /\ ffmpeg = "ok"
    /\ written > 0
    /\ Fault
    /\ recPc' \in {"loop", "paused"}
    /\ seg' = NoSeg
    /\ ffmpeg' = "none"
    /\ UNCHANGED <<now, camera, rows, objects, capture, written, launched,
                   sweepVars, delVars, leaked>>

\* The loop saves the row; the foreign key needs the camera's row.
PersistSegment ==
    /\ recPc = "persist"
    /\ camera
    /\ rows' = rows \union {seg}
    /\ recPc' = "loop"
    /\ seg' = NoSeg
    /\ UNCHANGED <<now, camera, objects, capture, ffmpeg, written, launched,
                   sweepVars, delVars, faults, leaked>>

\* The insert raises, because the camera was deleted or the database is down:
\* the loop logs it and goes on, and nothing knows the object any more.
PersistFails ==
    /\ recPc = "persist"
    /\ \/ ~camera /\ UNCHANGED faults
       \/ camera /\ Fault
    /\ leaked' = leaked \union {seg.key}
    /\ recPc' = "loop"
    /\ seg' = NoSeg
    /\ UNCHANGED <<now, camera, rows, objects, capture, ffmpeg, written, launched,
                   sweepVars, delVars>>

\* record_url raises (URL refused, ffmpeg not launched): the loop waits 2 s.
RecordUrlFails ==
    /\ recPc = "loop"
    /\ Fault
    /\ recPc' = "paused"
    /\ UNCHANGED <<now, camera, rows, objects, seg, capture, ffmpeg, written,
                   launched, sweepVars, delVars, leaked>>

ResumeLoop ==
    /\ recPc = "paused"
    /\ recPc' = "loop"
    /\ UNCHANGED <<now, camera, rows, objects, seg, capture, ffmpeg, written,
                   launched, sweepVars, delVars, faults, leaked>>

-----------------------------------------------------------------------------
(* The retention sweep. *)

SweepStart ==
    /\ sweepPc = "idle"
    /\ sweepCut' = now - Retention
    /\ sweepPc' = "query"
    /\ UNCHANGED <<now, camera, rows, objects, recVars, chunk, pending, delVars,
                   faults, leaked>>

\* Faulty variants: the sweep goes by the start of a row, or passes over rows
\* whose file is gone already.
PastCutByStart == {r \in rows : r.start <= sweepCut}
PastCutPresent == {r \in rows : r.end < sweepCut /\ objects[r.key] # NoClip}

\* Rows the running sweep considers expired: end_ts < rec_cut.
PastCut == {r \in rows : r.end < sweepCut}

SweepQuery ==
    /\ sweepPc = "query"
    /\ PastCut # {}
    /\ \E c \in SUBSET PastCut :
          /\ Cardinality(c) <= SweepChunk
          /\ c # PastCut => Cardinality(c) = SweepChunk
          /\ chunk' = c
          /\ pending' = c
    /\ sweepPc' = "delete"
    /\ UNCHANGED <<now, camera, rows, objects, recVars, sweepCut, delVars, faults, leaked>>

SweepEnds ==
    /\ sweepPc = "query"
    /\ PastCut = {}
    /\ sweepPc' = "idle"
    /\ UNCHANGED <<now, camera, rows, objects, recVars, sweepCut, chunk, pending,
                   delVars, faults, leaked>>

\* Faulty variant: the row is dropped and its object never deleted.
SweepRowOnly(r) ==
    /\ sweepPc = "delete"
    /\ r \in pending
    /\ pending' = pending \ {r}
    /\ UNCHANGED <<now, camera, rows, objects, recVars, sweepPc, sweepCut, chunk,
                   delVars, faults, leaked>>

SweepDeleteObject(r) ==
    /\ sweepPc = "delete"
    /\ r \in pending
    /\ objects' = [objects EXCEPT ![r.key] = NoClip]
    /\ pending' = pending \ {r}
    /\ UNCHANGED <<now, camera, rows, recVars, sweepPc, sweepCut, chunk, delVars,
                   faults, leaked>>

\* storage.delete raises: logged, and the row is dropped all the same.
SweepDeleteFails(r) ==
    /\ sweepPc = "delete"
    /\ r \in pending
    /\ Fault
    /\ leaked' = leaked \union {r.key}
    /\ pending' = pending \ {r}
    /\ UNCHANGED <<now, camera, rows, objects, recVars, sweepPc, sweepCut, chunk, delVars>>

SweepCommit ==
    /\ sweepPc = "delete"
    /\ pending = {}
    /\ rows' = rows \ chunk
    /\ chunk' = {}
    /\ sweepPc' = "query"
    /\ UNCHANGED <<now, camera, objects, recVars, sweepCut, pending, delVars,
                   faults, leaked>>

\* The query or the commit raises: the transaction is rolled back,
\* _retention_loop logs it and tries again an hour later.  The objects deleted
\* so far stay deleted.
SweepAborts ==
    /\ sweepPc \in {"query", "delete"}
    /\ pending = {}
    /\ Fault
    /\ chunk' = {}
    /\ sweepPc' = "idle"
    /\ UNCHANGED <<now, camera, rows, objects, recVars, sweepCut, pending, delVars, leaked>>

-----------------------------------------------------------------------------
(* DELETE /api/cameras/{id}. *)

DeleteCollect ==
    /\ deletePc = "none"
    /\ camera
    /\ deleteKeys' = {r.key : r \in rows}
    /\ deletePc' = "collected"
    /\ UNCHANGED <<now, camera, rows, objects, recVars, sweepVars, faults, leaked>>

\* The camera and, by cascade, its rows go.  A row inserted since the keys
\* were collected leaves its object behind.
DeleteCommit ==
    /\ deletePc = "collected"
    /\ camera' = FALSE
    /\ rows' = {}
    /\ leaked' = leaked \union ({r.key : r \in rows} \ deleteKeys)
    /\ deletePc' = "objects"
    /\ UNCHANGED <<now, objects, recVars, sweepVars, deleteKeys, faults>>

DeleteObject(k) ==
    /\ deletePc = "objects"
    /\ k \in deleteKeys
    /\ objects' = [objects EXCEPT ![k] = NoClip]
    /\ deleteKeys' = deleteKeys \ {k}
    /\ UNCHANGED <<now, camera, rows, recVars, sweepVars, deletePc, faults, leaked>>

\* storage.delete raises and is ignored.
DeleteObjectFails(k) ==
    /\ deletePc = "objects"
    /\ k \in deleteKeys
    /\ Fault
    /\ leaked' = leaked \union {k}
    /\ deleteKeys' = deleteKeys \ {k}
    /\ UNCHANGED <<now, camera, rows, objects, recVars, sweepVars, deletePc>>

\* The commit raises, or the API process dies: before the commit nothing has
\* happened, after it the keys not yet deleted are forgotten.
DeleteInterrupted ==
    /\ deletePc \in {"collected", "objects"}
    /\ Fault
    /\ deletePc' = IF deletePc = "collected" THEN "none" ELSE "done"
    /\ leaked' = IF deletePc = "collected" THEN leaked ELSE leaked \union deleteKeys
    /\ deleteKeys' = {}
    /\ UNCHANGED <<now, camera, rows, objects, recVars, sweepVars>>

DeleteReturns ==
    /\ deletePc = "objects"
    /\ deleteKeys = {}
    /\ deletePc' = "done"
    /\ UNCHANGED <<now, camera, rows, objects, recVars, sweepVars, deleteKeys,
                   faults, leaked>>

-----------------------------------------------------------------------------
\* The worker dies with its threads and children and is started again; it
\* starts a record thread only for a camera it finds in the database.
WorkerRestarts ==
    /\ Fault
    /\ leaked' = IF recPc = "persist" THEN leaked \union {seg.key} ELSE leaked
    /\ recPc' = IF camera THEN "loop" ELSE "off"
    /\ seg' = NoSeg
    /\ ffmpeg' = "none"
    /\ written' = 0
    /\ sweepPc' = "idle"
    /\ chunk' = {}
    /\ pending' = {}
    /\ UNCHANGED <<now, camera, rows, objects, capture, launched, sweepCut, delVars>>

Recording ==
    \/ RecordUrl
    \/ RecordUrlFails
    \/ ResumeLoop
    \/ FfmpegExits
    \/ DiscardSegment
    \/ FinalizeLast
    \/ PutFails
    \/ PersistSegment
    \/ PersistFails

SweepWork ==
    \/ SweepStart
    \/ SweepQuery
    \/ SweepEnds
    \/ \E r \in pending : SweepDeleteObject(r)
    \/ SweepCommit

Sweeping ==
    \/ SweepWork
    \/ \E r \in pending : SweepDeleteFails(r)
    \/ SweepAborts

Deleting ==
    \/ DeleteCollect
    \/ DeleteCommit
    \/ \E k \in deleteKeys : DeleteObject(k) \/ DeleteObjectFails(k)
    \/ DeleteInterrupted
    \/ DeleteReturns

Next == Tick \/ Recording \/ Sweeping \/ Deleting \/ WorkerRestarts

Spec == Init /\ [][Next]_vars

\* The retention thread is a live daemon thread: its steps are taken.
FairSpec == Spec /\ WF_vars(SweepWork)

-----------------------------------------------------------------------------
(* What the API shows.  A row has a size above 0, or it would not be there. *)

Covering(t) == {r \in rows : r.start <= t /\ t <= r.end}

\* The rows the query may return: the earliest start, ties in any order.
recording_at(t) ==
    {r \in Covering(t) : \A s \in Covering(t) : r.start <= s.start}

\* GET /events/{id}: an event is played from the segment that covers its start,
\* looked up at every read.
get_event(t) == recording_at(t)

Overlapping(lo, hi) == {r \in rows : r.start < hi /\ lo < r.end}

\* GET /cameras/{id}/recordings: an empty window is refused.
camera_recordings(lo, hi) == IF lo < hi THEN Overlapping(lo, hi) ELSE {}

\* GET /events/{id}/clip: the window of an event may be a single moment.
event_clip(start, end) == IF start <= end THEN Overlapping(start, end) ELSE {}

\* Wall-clock time of the footage shown for t: seek_offset_sec into the file.
ShownTime(r, t) == objects[r.key].from + (t - r.start)

Expired(r) == r.end < now - Retention

-----------------------------------------------------------------------------
(* Properties. *)

TypeOK ==
    /\ now \in Time
    /\ camera \in BOOLEAN
    /\ rows \subseteq Row
    /\ objects \in [Keys -> Clip \union {NoClip}]
    /\ recPc \in {"loop", "waiting", "persist", "paused", "off"}
    /\ recPc \in {"waiting", "persist"} => seg \in Row
    /\ capture \in Time
    /\ ffmpeg \in {"none", "running", "ok", "failed"}
    /\ written \in 0..SegSeconds
    /\ launched \in 0..MaxSegments
    /\ sweepPc \in {"idle", "query", "delete"}
    /\ sweepCut \in Int
    /\ chunk \subseteq Row /\ pending \subseteq chunk
    /\ deletePc \in {"none", "collected", "objects", "done"}
    /\ deleteKeys \subseteq Keys
    /\ faults \in 0..MaxFaults
    /\ leaked \subseteq Keys

\* A row whose file is gone belongs to a key window that began before the
\* retention cut: whatever fails, crashes or overlaps, the sweep and the
\* recorder together never leave a recent row pointing at nothing.
LossOnlyAfterExpiry ==
    \A r \in rows : objects[r.key] = NoClip => r.key < now - Retention

\* An object without a row is either about to get one, or about to be deleted
\* with its camera, or was left behind by one of the steps that lose it: a
\* failed insert or delete, a crash, a deletion racing with the recorder.
OrphansOnlyFromFailures ==
    \A k \in Keys :
        objects[k] # NoClip =>
            \/ \E r \in rows : r.key = k
            \/ recPc = "persist" /\ seg.key = k
            \/ deletePc = "objects" /\ k \in deleteKeys
            \/ k \in leaked

\* The footage shown for a time t was captured near t: alignment of starts
\* and keys, and replaced objects, displace it by less than one key window
\* back and one key window plus one segment forward.  What is listed for a
\* window of time was captured less than a key window and a segment off it.
PlaybackSkewBounded ==
    /\ \A t \in Time : \A r \in recording_at(t) \union get_event(t) :
          objects[r.key] # NoClip =>
              /\ ShownTime(r, t) > t - KeySeconds
              /\ ShownTime(r, t) < t + KeySeconds + SegSeconds
    /\ \A lo, hi \in Time :
          \A r \in camera_recordings(lo, hi) \union event_clip(lo, hi) :
              objects[r.key] # NoClip =>
                  /\ objects[r.key].from > lo - KeySeconds - SegSeconds
                  /\ objects[r.key].from < hi + KeySeconds + SegSeconds

\* Every row past its retention is removed in the end, although sweeps fail,
\* are cut off by a crash, or only take a chunk at a time.
RetentionEnforced ==
    \A i \in Ids :
        (\E r \in rows : r.id = i /\ Expired(r)) ~> ~(\E r \in rows : r.id = i)

\* What makes those three inductive.  (1) Every row, and the segment in
\* flight, sits in the bucket and the key window of its capture, under an id
\* of its own; (2) so does every object; (3) a deleted camera has no rows;
\* (4) the sweep works on rows older than a cut that stays in the past.
Active == recPc \in {"waiting", "persist"}

PlacementInv ==
    /\ Active =>
          /\ seg.id = launched
          /\ seg.start = segment_boundary(capture, SegSeconds)
          /\ seg.key = segment_key(seg.start)
          /\ seg.start <= seg.end /\ seg.end <= seg.start + SegSeconds
    /\ \A r \in rows \union chunk :
          /\ r.id <= launched
          /\ Active => r.id # seg.id
          /\ r.key = segment_key(r.start)
          /\ r.start <= r.end /\ r.end <= r.start + SegSeconds

ObjectInv ==
    \A k \in Keys :
        objects[k] # NoClip =>
            k = segment_key(segment_boundary(objects[k].from, SegSeconds))

CameraInv ==
    /\ deletePc = "objects" => ~camera
    /\ ~camera => rows = {}

SweepInv ==
    /\ sweepPc # "idle" => sweepCut <= now - Retention
    /\ \A r \in chunk : r.end < sweepCut
    /\ chunk # {} => sweepPc = "delete"

\* The segment about to be saved is as safe as a saved row.
LossInv ==
    /\ LossOnlyAfterExpiry
    /\ recPc = "persist" /\ camera =>
          (objects[seg.key] = NoClip => seg.key < now - Retention)

\* Rows the running sweep is through with do not count any more.
AccountedInv ==
    \A k \in Keys :
        objects[k] # NoClip =>
            \/ \E r \in rows \ (chunk \ pending) : r.key = k
            \/ recPc = "persist" /\ seg.key = k
            \/ deletePc = "objects" /\ k \in deleteKeys
            \/ k \in leaked

IInv ==
    /\ TypeOK
    /\ PlacementInv
    /\ ObjectInv
    /\ CameraInv
    /\ SweepInv
    /\ LossInv
    /\ AccountedInv

\* cameras.py: an operator never scrubs into a hole that 404s.  A row that is
\* not past its own retention has a file.
UnexpiredRowPlayable ==
    \A r \in rows : ~Expired(r) => objects[r.key] # NoClip

\* A retention that a camera's own `retention` field may ask for: longer than the
\* global policy.
CameraRetention == Retention + 1

\* docs/USER_GUIDE.md, lines 203-206, docs/operations/runbook.md, lines 80-81, and the
\* comment on Camera.retention (models.py 124-125): the field overrides the global
\* policy for the data of its camera, so no row goes before it says so.  Does not
\* hold: the sweep reads the global policy alone (main.py 196-201).
OverrideHonoured ==
    [][camera' => \A r \in rows \ rows' : r.end < now - CameraRetention]_vars

=============================================================================
