---------------------------- MODULE EventReports ----------------------------
(* The reports over the rows of EventStore, each a query of its own in the     *)
(* code, and what the store, its sweep and the reports promise together.       *)
EXTENDS EventStore, FiniteSetsExt, Functions

(* routers/events.py: what an event says it has, and what following the signed *)
(* link of get_event gives while the link is valid (routers/video.py).         *)
has_snapshot(i) == events[i].kind = "presence"
serve_video(i) == i \in objects

(* The CSV of the current result set in the list's order, up to a limit.        *)
export_events_csv(c, view, tie) ==
  {i \in Matching(c) : Cardinality({j \in Matching(c) : Before(j, i, view, tie)}) < ExportRows}

AnyAction == ""   \* no filter by action

(* routers/audit.py: the trail filtered by action and time, both ends           *)
(* included, in pages and as CSV.  "tie" orders the rows of one tick, by their *)
(* random ids.                                                                 *)
audit_query(action, from, to) ==
  {a \in audit : (action = AnyAction \/ a.action = action) /\ from <= a.ts /\ a.ts <= to}

AuditBefore(a, b, direction, tie) ==
  IF a.ts = b.ts THEN tie[a.action] > tie[b.action] ELSE (a.ts < b.ts) = (direction = "asc")

list_audit(found, direction, offset, tie) ==
  {a \in found : Cardinality({b \in found : AuditBefore(b, a, direction, tie)})
                    \in offset .. offset + Page - 1}

export_audit_csv(found, direction, tie) ==
  {a \in found : Cardinality({b \in found : AuditBefore(b, a, direction, tie)}) < ExportRows}

midnight(t) == t - (t % Day)

(* routers/timeline.py: the intervals of one day and its markers, the earliest *)
(* of them when there are too many; rows of one instant come in any order.     *)
OnDayClosed(i, day) == events[i].start >= day /\ events[i].start <= day + Day
OnDay(i, day) == events[i].start >= day /\ events[i].start < day + Day
OfDay(day, kind) == {i \in DOMAIN events : events[i].kind = kind /\ OnDay(i, day)}

markers(day) ==
  LET all == OfDay(day, "rule")
  IN  {R \in SUBSET all : /\ Cardinality(R) = Min({Markers, Cardinality(all)})
                          /\ \A i \in R, j \in all \ R : events[i].start <= events[j].start}

\* The answers a request can get.
timeline(day) == {[intervals |-> OfDay(day, "presence"), markers |-> R] : R \in markers(day)}

(* routers/analytics.py: the Overview's count of the day so far.               *)
events_today == Cardinality({i \in DOMAIN events : events[i].start >= midnight(now)})

(* domain/analytics.py: the events of a window by type, and the tracks of a    *)
(* window, as a number of people and bucket by bucket.                         *)
Within(c, from, to) == {i \in Matching(c) : events[i].start >= from /\ events[i].end <= to}

event_type_breakdown(c, from, to) ==
  [k \in Kind |-> Cardinality({i \in Within(c, from, to) : events[i].kind = k})]

Counted(by_type) == by_type["presence"] + by_type["rule"]

\* The route's window when none is given: from 2000 to 2100.
breakdown(c) == event_type_breakdown(c, 0, MaxTime)

\* The average's sum and count.
dwell_time(c, from, to) ==
  LET S == {i \in Within(c, from, to) : events[i].kind = "presence"}
  IN  <<MapThenSumSet(LAMBDA i : events[i].end - events[i].start, S), Cardinality(S)>>

\* The answers a search for the best top_k can give, whatever the embedder
\* thinks of them; the rows it looks at are not in any order.
semantic_search(c, from, to, top_k) ==
  LET S == Within(c, from, to)
  IN  {R \in SUBSET S : Cardinality(R) = Min({top_k, Scan, Cardinality(S)})}

people_counting(c, from, to) ==
  {i \in OfCamera(tracks, c) : tracks[i].first >= from /\ tracks[i].last <= to}

occupancy_trend(c, from, to, step) ==
  [b \in 0 .. ((to - from + step - 1) \div step) - 1 |->
     LET cur == from + b * step
     IN  {i \in OfCamera(tracks, c) :
            /\ tracks[i].last >= from /\ tracks[i].first <= to
            /\ tracks[i].last >= cur /\ tracks[i].first < cur + step}]

-----------------------------------------------------------------------------
StoreTypeOK ==
  /\ now \in 1..MaxTime /\ cameras \subseteq Camera /\ faults \in 0..MaxFaults
  /\ DOMAIN events \subseteq Id /\ \A i \in DOMAIN events : events[i] \in EventRow
  /\ DOMAIN tracks \subseteq Id /\ \A i \in DOMAIN tracks : tracks[i] \in TrackRow
  /\ DOMAIN snaps \subseteq Id /\ \A i \in DOMAIN snaps : snaps[i] \in SnapRow
  /\ objects \subseteq Id /\ unused \subseteq Id /\ excused \subseteq Id
  /\ audit \subseteq AuditRow
  /\ sweep \in [stage : {"idle", "events", "snapshots", "audit"}, at : 0..now,
                chunk : SUBSET IF sweep.stage = "audit" THEN AuditRow ELSE Id,
                doing : SUBSET Id]
  /\ sweep.doing \subseteq sweep.chunk /\ (sweep.doing # {} => sweep.stage = "snapshots")
  /\ deletion \in [camera : Camera \union {0}, keys : SUBSET Id, committed : BOOLEAN]
  /\ deletion.camera = 0 => deletion = NoDeletion
  /\ walk \in [pc : {"idle", "asking"}, sort : {"timestamp", "camera"}, direction : {"asc", "desc"},
               offset : Nat, seen : SUBSET Id, present : SUBSET Id, removed : Nat]

(* Paging by offset over a table that changes: an operator who reads page      *)
(* after page misses at most as many of the events that were and stayed there  *)
(* as were removed meanwhile, and none because of new ones.  It rests on the   *)
(* tie-break of _apply_sort.                                                   *)
MissedOnlyByRemoval ==
  [][walk # NoWalk /\ walk' = NoWalk =>
       \E tie \in TieOrders :
         LET page == list_events(0, walk, tie)
         IN  /\ Cardinality(page) < Page
             /\ Cardinality(walk.present \ (walk.seen \union page)) <= walk.removed]_storeVars

(* An event that says it has a snapshot has one until the snapshot's own       *)
(* retention has passed, however long the event itself is kept; and a snapshot *)
(* nobody has a row for stems from a failed removal or from a camera deleted   *)
(* while the worker was storing, or its removal is under way.                  *)
SnapshotsAccounted ==
  /\ \A i \in DOMAIN events : has_snapshot(i) /\ ~serve_video(i) =>
       events[i].end < now - SnapshotDays
  /\ \A i \in objects \ DOMAIN snaps : i \in excused \union deletion.keys

View(v, offset) == [sort |-> v[1], direction |-> v[2], offset |-> offset]

(* The timeline of today shows as many presences and rule events as the        *)
(* breakdown counts, but for the rule events past its limit, and the two kinds *)
(* make up the Overview's number; an event is on the timeline of one day only, *)
(* and is missing there only if the limit is reached.                          *)
DayAgrees ==
  LET by_type == event_type_breakdown(0, midnight(now), now)
  IN  /\ Counted(by_type) = events_today
      /\ \A answer \in timeline(midnight(now)) :
           /\ Cardinality(answer.intervals) = by_type["presence"]
           /\ Cardinality(answer.markers) = Min({Markers, by_type["rule"]})
      /\ \A i \in DOMAIN events : \E day \in 0..now :
           /\ day % Day = 0
           /\ \A answer \in timeline(day) :
                i \in answer.intervals \union answer.markers \/ Cardinality(answer.markers) = Markers
           /\ \A other \in 0..now \ {day} : other % Day = 0 =>
                \A answer \in timeline(other) : i \notin answer.intervals \union answer.markers

(* The reports of one window: whoever is counted in it is present in one of    *)
(* its buckets, but for a track that begins at its very end; the dwell time is  *)
(* the average of the presences the breakdown counts, and none is longer than  *)
(* the window; a search that asks for all finds the events the breakdown       *)
(* counts, up to its limit; and the breakdown of all time counts the list.      *)
WindowAgrees(c) ==
  /\ Counted(breakdown(c)) = Cardinality(Matching(c))
  /\ \A from, to \in 0..now : from < to =>
       LET by_type == event_type_breakdown(c, from, to)
           dwell   == dwell_time(c, from, to)
       IN  /\ \A step \in 1..Day, i \in people_counting(c, from, to) :
                tracks[i].first < to =>
                  LET buckets == occupancy_trend(c, from, to, step)
                  IN  \E b \in DOMAIN buckets : i \in buckets[b]
           /\ dwell[2] = by_type["presence"] /\ dwell[1] <= dwell[2] * (to - from)
           /\ \A R \in semantic_search(c, from, to, MaxEvents) :
                Cardinality(R) = Min({Scan, Counted(by_type)})

(* An export is the beginning of its list: the list as a whole, or as much as  *)
(* the limit lets through, and then no page within the limit lacks a row.      *)
BeginsList(export, pages) ==
  LET list == UNION {pages[n] : n \in DOMAIN pages}
  IN  /\ export \subseteq list
      /\ Cardinality(export) = Min({ExportRows, Cardinality(list)})
      /\ \A n \in DOMAIN pages : (n + 1) * Page <= ExportRows => pages[n] \subseteq export

(* What an operator can ask of the trail.                                      *)
Trails == {audit_query(action, from, now) : action \in Action \union {AnyAction}, from \in 0..now}

(* The pages of a list hold each row, and its export begins it.                *)
PagesAgree ==
  /\ \A c \in Camera \union {0}, v \in Views, tie \in TieOrders :
       LET pages == [n \in 0..MaxEvents |-> list_events(c, View(v, n * Page), tie)]
       IN  /\ UNION {pages[n] : n \in 0..MaxEvents} = Matching(c)
           /\ BeginsList(export_events_csv(c, View(v, 0), tie), pages)
  /\ \A found \in Trails, direction \in {"asc", "desc"} :
       \A tie \in {f \in [Action -> 1..2] : IsInjective(f)} :
         LET pages == [n \in 0..Cardinality(audit) |-> list_audit(found, direction, n * Page, tie)]
         IN  /\ UNION {pages[n] : n \in 0..Cardinality(audit)} = found
             /\ BeginsList(export_audit_csv(found, direction, tie), pages)

(* Ten queries, written one by one, tell one story of the same rows            *)
(* (routers/timeline.py, analytics.py, events.py, audit.py).                   *)
ReportsAgree ==
  /\ DayAgrees
  /\ \A c \in Camera : WindowAgrees(c)
  /\ PagesAgree

(* "Capped to the most recent 2000 events in range" (routers/analytics.py,     *)
(* line 119).  Does not hold: the query has no order.                          *)
SearchesRecent ==
  \A c \in Camera, from, to \in 0..now :
    \A R \in semantic_search(c, from, to, Scan) :
      \A i \in R, j \in Within(c, from, to) \ R : events[i].start >= events[j].start

(* Every expired row goes in the end: an error ends one sweep, and a chunk     *)
(* whose rows are gone one stage of it, but the next sweep starts over.        *)
Expired ==
  \/ \E i \in DOMAIN events : events[i].end < now - EventDays
  \/ \E i \in DOMAIN snaps : snaps[i].at < now - SnapshotDays
  \/ \E a \in audit : a.ts < now - AuditDays
ExpiredGone == Expired ~> ~Expired
=============================================================================
