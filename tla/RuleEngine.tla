----------------------------- MODULE RuleEngine ------------------------------
(***************************************************************************)
(* The behaviour rules of one camera (packages/ai/rules.py), fed frame by   *)
(* frame by process_frame.  The engine keeps memory per track and rule id,  *)
(* and rules that were stored without an id have the one of their type, so  *)
(* that they may share it.  A detection has one of a few centres, with      *)
(* integer coordinates, and a label, which may be another in the next       *)
(* frame.  The properties compare what the engine fires with the history of *)
(* the frames it was given.                                                 *)
(***************************************************************************)
EXTENDS Integers, FiniteSets, Sequences

CONSTANTS
    Tracks,         \* the tracks of the scene
    Sights,         \* track -> the detections that may be matched to it: the
                    \* centre, a point <<x, y>>, and the label
    Specs,          \* Camera.rules: a sequence of records with a type and, as
                    \* far as they were given, rule_id, labels, limit,
                    \* direction, the end points a and b, or the polygon zone
    MaxInterval,    \* bound: ticks between two frames
    MaxTime,        \* bound: ticks
    None

-----------------------------------------------------------------------------
(* Geometry, in whole numbers. *)

\* The points where the centre of a track may be.
Places == UNION {{s.centre : s \in Sights[t]} : t \in Tracks}

Orient(a, b, c) == (b[1] - a[1]) * (c[2] - a[2]) - (b[2] - a[2]) * (c[1] - a[1])

segments_intersect(p1, p2, p3, p4) ==
    /\ (Orient(p3, p4, p1) > 0) # (Orient(p3, p4, p2) > 0)
    /\ (Orient(p1, p2, p3) > 0) # (Orient(p1, p2, p4) > 0)

\* Which way the line from a to b is crossed.
crossing_direction(prev, cur, a, b) ==
    LET before == Orient(a, b, prev)
        after  == Orient(a, b, cur)
    IN  IF before = 0 /\ after = 0 THEN 0 ELSE IF after > before THEN 1 ELSE -1

\* The ray from p to the right meets the edge from a to b.
MeetsRay(p, a, b) ==
    LET height == b[2] - a[2]
        across == (b[1] - a[1]) * (p[2] - a[2])
    IN  /\ (a[2] > p[2]) # (b[2] > p[2])
        /\ IF height > 0 THEN (p[1] - a[1]) * height < across
                         ELSE (p[1] - a[1]) * height > across

point_in_polygon(p, poly) ==
    LET n == Len(poly)
        Before(i) == poly[IF i = 1 THEN n ELSE i - 1]
    IN  n >= 3 /\ Cardinality({i \in 1..n : MeetsRay(p, poly[i], Before(i))}) % 2 = 1

-----------------------------------------------------------------------------
(* The rules of the camera. *)

WellFormed(spec) ==
    \/ spec.type = "line_cross" /\ {"a", "b"} \subseteq DOMAIN spec
    \/ /\ spec.type \in {"intrusion", "loitering", "object_left", "crowd"}
       /\ "zone" \in DOMAIN spec

Given(spec, key, default) == IF key \in DOMAIN spec THEN spec[key] ELSE default

\* labels, dwell_sec, stationary_sec and threshold of a rule that names none.
DefaultLabels ==
    [line_cross |-> {"person", "vehicle"}, intrusion |-> {"person", "vehicle"},
     loitering |-> {"person"}, object_left |-> {"bag", "package"},
     crowd |-> {"person"}]

DefaultLimit ==
    [line_cross |-> 0, intrusion |-> 0, loitering |-> 30, object_left |-> 30, crowd |-> 10]

rule_from_dict(spec) ==
    LET labels == Given(spec, "labels", {})
    IN  [id        |-> Given(spec, "rule_id", spec.type),
         kind      |-> spec.type,
         labels    |-> IF labels = {} THEN DefaultLabels[spec.type] ELSE labels,
         limit     |-> Given(spec, "limit", DefaultLimit[spec.type]),
         direction |-> Given(spec, "direction", 0),
         ends      |-> IF spec.type = "line_cross" THEN <<spec.a, spec.b>> ELSE << >>,
         zone      |-> IF spec.type = "line_cross" THEN {}
                       ELSE {p \in Places : point_in_polygon(p, spec.zone)}]

\* rule_engine_from_json: a spec that cannot be built is left out.
Rules == [i \in {j \in DOMAIN Specs : WellFormed(Specs[j])} |-> rule_from_dict(Specs[i])]

\* A crowd rule with a threshold of 0 would ask for the largest of no tracks.
ASSUME RulesAssumption ==
    /\ IsFiniteSet(Tracks)
    /\ \A t \in Tracks : \A s \in Sights[t] : DOMAIN s = {"centre", "label"}
    /\ None \notin Places \union Int
    /\ Len(Specs) \in Nat /\ DOMAIN Specs = 1..Len(Specs)
    /\ \A i \in DOMAIN Rules :
          Rules[i].limit \in Int /\ (Rules[i].kind = "crowd" => Rules[i].limit > 0)
    /\ {MaxInterval, MaxTime} \subseteq Nat

\* Where a rule keeps what it knows of a track: the dictionary of its type,
\* under its id.  A rule has its memory for itself if no other rule has both.
Dict == [line_cross |-> "crossed_lines", intrusion |-> "inside_zones",
         loitering |-> "loiter_zones", object_left |-> "loiter_zones",
         crowd |-> "crowd_fired"]

Key(r) == <<Dict[r.kind], r.id>>
Keys == {Key(Rules[i]) : i \in DOMAIN Rules}

Own(i) == \A j \in DOMAIN Rules : Key(Rules[j]) = Key(Rules[i]) => j = i

VARIABLES
    mem,        \* RuleEngine._mem: the memory of the tracks of the last frame
    crowded,    \* RuleEngine._crowd_fired: the rules whose flag is set
    frames      \* history: [ts, at, out] of every frame, tracked or not

engineVars == <<mem, crowded, frames>>

Times == 0..MaxTime
Now == IF frames = << >> THEN 0 ELSE frames[Len(frames)].ts

\* What a rule keeps of a track: when the track came into its zone, and
\* whether it has fired and not been reset.
Unset == [since |-> None, fired |-> FALSE]

\* _TrackMem: an entry has one time, and a flag of each type of rule.
Fresh == [at |-> None, of |-> [k \in Keys |-> [since |-> None, fired |-> {}]]]

\* What rule r finds under its key, and the memory after it has left w there.
Found(of, r) == [since |-> of[Key(r)].since, fired |-> r.kind \in of[Key(r)].fired]

Put(of, r, w) ==
    LET others == of[Key(r)].fired \ {r.kind}
    IN  [of EXCEPT ![Key(r)] =
            [since |-> w.since, fired |-> IF w.fired THEN others \union {r.kind} ELSE others]]

EngineInit == mem = << >> /\ crowded = {} /\ frames = << >>

-----------------------------------------------------------------------------
(* The evaluators.  Each takes what rule r keeps of track t and answers     *)
(* with what it keeps afterwards and its events.                            *)

Event(r, t, kind) == [rule |-> r.id, track |-> t, kind |-> kind]

Silent(w) == [kept |-> w, out |-> {}]
Fires(w, e) == [kept |-> w, out |-> {e}]

\* The track crosses the tripwire in a direction that the rule watches.
Crosses(r, prev, cur) ==
    /\ segments_intersect(prev, cur, r.ends[1], r.ends[2])
    /\ r.direction \in {0, crossing_direction(prev, cur, r.ends[1], r.ends[2])}

EvalLine(r, t, prev, cur, w) ==
    IF prev # None /\ Crosses(r, prev, cur) /\ ~w.fired
    THEN Fires([w EXCEPT !.fired = TRUE], Event(r, t, "line_cross"))
    ELSE Silent(w)

Since(w, ts) == IF w.since = None THEN ts ELSE w.since

\* Faulty variant: the flag is not looked at.
InZoneRepeats(r, t, ts, w) ==
    IF ts - Since(w, ts) >= r.limit
    THEN Fires([since |-> Since(w, ts), fired |-> TRUE], Event(r, t, r.kind))
    ELSE Silent([w EXCEPT !.since = Since(w, ts)])

\* The time of entry is kept, and the rule fires once it is old enough.
InZone(r, t, ts, w) ==
    IF ts - Since(w, ts) >= r.limit /\ ~w.fired
    THEN Fires([since |-> Since(w, ts), fired |-> TRUE], Event(r, t, r.kind))
    ELSE Silent([w EXCEPT !.since = Since(w, ts)])

\* Faulty variant: leaving the zone keeps the time of entry.
EvalDwellKeeps(r, t, cur, ts, w) ==
    IF cur \in r.zone THEN InZone(r, t, ts, w) ELSE Silent([w EXCEPT !.fired = FALSE])

\* _eval_zone and _eval_loiter.
EvalDwell(r, t, cur, ts, w) ==
    IF cur \in r.zone THEN InZone(r, t, ts, w) ELSE Silent(Unset)

\* An object that was left and goes is reported as removed; its time of entry
\* is kept for another frame.
EvalLeft(r, t, s, ts, w) ==
    IF s.centre \in r.zone THEN InZone(r, t, ts, w)
    ELSE IF w.fired /\ s.label # "person"
         THEN Fires([w EXCEPT !.fired = FALSE], Event(r, t, "object_removed"))
         ELSE Silent(Unset)

Eval(r, t, prev, s, ts, w) ==
    CASE r.kind = "line_cross"                -> EvalLine(r, t, prev, s.centre, w)
      [] r.kind \in {"intrusion", "loitering"} -> EvalDwell(r, t, s.centre, ts, w)
      [] r.kind = "object_left"               -> EvalLeft(r, t, s, ts, w)
      [] r.kind = "crowd"                     -> Silent(w)

Remembered(t) == IF t \in DOMAIN mem THEN mem[t] ELSE Fresh

\* The i-th rule, for a track t seen as s; it skips the labels it does not watch.
Applied(i, t, s, ts, of) ==
    IF s.label \in Rules[i].labels
    THEN Eval(Rules[i], t, Remembered(t).at, s, ts, Found(of, Rules[i]))
    ELSE Silent(Found(of, Rules[i]))

\* One turn of evaluate's loop over the rules for a track: done is what the
\* turns before it have left in memory, and their events.
Turn(i, t, s, ts, done) ==
    LET res == Applied(i, t, s, ts, done.of)
    IN  IF i \in DOMAIN Rules
        THEN [of |-> Put(done.of, Rules[i], res.kept), out |-> done.out \union res.out]
        ELSE done

Loop(t, s, ts) ==
    LET done[n \in 0..Len(Specs)] ==
            IF n = 0 THEN [of |-> Remembered(t).of, out |-> {}]
                     ELSE Turn(n, t, s, ts, done[n - 1])
    IN  done[Len(Specs)]

-----------------------------------------------------------------------------
CrowdRules == {i \in DOMAIN Rules : Rules[i].kind = "crowd"}

Count(r, at) ==
    Cardinality({t \in DOMAIN at : at[t].label \in r.labels /\ at[t].centre \in r.zone})

Full(i, at) == Count(Rules[i], at) >= Rules[i].limit

Namesakes(i) == {j \in CrowdRules : Rules[j].id = Rules[i].id}

\* The flag of its id that the i-th rule finds in _eval_crowd's loop: the crowd
\* rules before it have written it.
FlagFound(i, at) ==
    LET before == {j \in Namesakes(i) : j < i}
    IN  IF before = {} THEN Rules[i].id \in crowded
        ELSE \E j \in before : Full(j, at) /\ \A k \in before : k <= j

\* Faulty variant: a flag once set stays set.
CrowdFlagsStick(at) == crowded \union {Rules[i].id : i \in {j \in CrowdRules : Full(j, at)}}

\* The flags after the loop: the last rule of an id writes it last.
CrowdFlags(at) ==
    {Rules[i].id : i \in {j \in CrowdRules : Full(j, at) /\ \A k \in Namesakes(j) : k <= j}}

CrowdEvents(at) ==
    {Event(Rules[i], None, "crowd") : i \in {j \in CrowdRules : Full(j, at) /\ ~FlagFound(j, at)}}

\* A frame shows some of the tracks, each by a detection matched to it.
Scenes == UNION {{at \in [S -> UNION {Sights[t] : t \in S}] : \A t \in S : at[t] \in Sights[t]} :
                    S \in SUBSET Tracks}

\* The memory after a frame: a track absent from it is forgotten.
Memory(ts, at) ==
    [t \in DOMAIN at |-> [at |-> at[t].centre, of |-> Loop(t, at[t], ts).of]]

TrackEvents(ts, at) == UNION {Loop(t, at[t], ts).out : t \in DOMAIN at}

\* A frame with tracks: RuleEngine.evaluate.
Evaluate(ts, at) ==
    /\ DOMAIN at # {}
    /\ mem' = Memory(ts, at)
    /\ crowded' = CrowdFlags(at)
    /\ frames' = Append(frames, [ts |-> ts, at |-> at,
                                 out |-> TrackEvents(ts, at) \union CrowdEvents(at)])

\* A frame without tracks, or without motion, does not reach the engine.
NotEvaluated(ts) ==
    /\ frames' = Append(frames, [ts |-> ts, at |-> << >>, out |-> {}])
    /\ UNCHANGED <<mem, crowded>>

EngineNext ==
    \E ts \in {s \in Times : Now < s /\ s <= Now + MaxInterval} :
        \/ NotEvaluated(ts)
        \/ \E at \in Scenes : Evaluate(ts, at)

EngineSpec == EngineInit /\ [][EngineNext]_engineVars

-----------------------------------------------------------------------------
(* Properties, of the rules that have their memory for themselves.  Frames  *)
(* without tracks are blank: the engine knows nothing of them.              *)

Blank(i) == DOMAIN frames[i].at = {}
Present(i, t) == t \in DOMAIN frames[i].at

Watched(i, t, r) == Present(i, t) /\ frames[i].at[t].label \in r.labels

\* The rule sees the track in its zone; it sees it out of its zone, or gone.
Inside(i, t, r) == Watched(i, t, r) /\ frames[i].at[t].centre \in r.zone
Outside(i, t, r) ==
    ~Blank(i) /\ (Present(i, t) => Watched(i, t, r) /\ frames[i].at[t].centre \notin r.zone)

\* Everywhere from frame i to frame j the track was in the zone, as far as the
\* engine can know.
Stayed(i, j, t, r) == Inside(i, t, r) /\ \A k \in i..j : ~Outside(k, t, r)

Fired(i, r, t, kind) == Event(r, t, kind) \in frames[i].out

RulesOf(kinds) == {i \in DOMAIN Rules : Rules[i].kind \in kinds}
OwnRules(kinds) == {Rules[i] : i \in {j \in RulesOf(kinds) : Own(j)}}

Pairs == {p \in (DOMAIN frames) \X (DOMAIN frames) : p[1] <= p[2]}

\* From frame i to frame j, the frames with tracks had as many as rule r counts.
Crowded(i, j, r) == \A k \in i..j : Blank(k) \/ Count(r, frames[k].at) >= r.limit

\* An intrusion or loitering event means that the track was in the zone for
\* the limit, in every frame in which the rule saw it.
DwellJustified ==
    \A r \in OwnRules({"intrusion", "loitering"}), t \in Tracks, j \in DOMAIN frames :
        Fired(j, r, t, r.kind) =>
            /\ Inside(j, t, r)
            /\ \E i \in 1..j : Stayed(i, j, t, r) /\ frames[j].ts - frames[i].ts >= r.limit

\* A removed object is one that was reported as left, stayed, and left the
\* zone in view.
RemovedWasLeft ==
    \A r \in OwnRules({"object_left"}), t \in Tracks, j \in DOMAIN frames :
        Fired(j, r, t, "object_removed") =>
            /\ Present(j, t) /\ Outside(j, t, r)
            /\ \E i \in 1..(j - 1) : Fired(i, r, t, "object_left") /\ Stayed(i, j - 1, t, r)

\* A tripwire fires for a crossing between the two latest frames with tracks,
\* and once while the track stays in view.
CrossingsJustified ==
    \A r \in OwnRules({"line_cross"}), t \in Tracks, j \in DOMAIN frames :
        Fired(j, r, t, "line_cross") =>
            \E i \in 1..(j - 1) :
                /\ Present(i, t) /\ Watched(j, t, r)
                /\ \A k \in (i + 1)..(j - 1) : Blank(k)
                /\ Crosses(r, frames[i].at[t].centre, frames[j].at[t].centre)
                /\ \A k \in 1..i : Fired(k, r, t, "line_cross") =>
                      \E l \in k..i : ~Blank(l) /\ ~Present(l, t)

\* No event is out of thin air: what the engine reports happened in the frames
\* it was given, whatever it remembers of earlier entries and tracks.
EventsJustified == DwellJustified /\ RemovedWasLeft /\ CrossingsJustified

\* A stay is not reported again before it has ended, nor is a crowd.
DwellOnce(r) ==
    \A t \in Tracks, p \in Pairs :
        Stayed(p[1], p[2], t, r) => Cardinality({k \in p[1]..p[2] : Fired(k, r, t, r.kind)}) <= 1

CrowdOnce(r) ==
    \A p \in Pairs :
        Crowded(p[1], p[2], r) => Cardinality({k \in p[1]..p[2] : Fired(k, r, None, "crowd")}) <= 1

\* A track that stays in the zone, and a crowd that stays over its limit, is
\* reported once, whatever frames without tracks, and labels that the rule
\* does not watch, come in between.
ReportedOnce ==
    /\ \A r \in OwnRules({"intrusion", "loitering"}) : DwellOnce(r)
    /\ \A r \in OwnRules({"crowd"}) : CrowdOnce(r)

\* A track that has been in the zone for the limit, and a crowd, has been
\* reported, once, since it came.
NothingMissed ==
    /\ \A r \in OwnRules({"intrusion", "loitering"}), t \in Tracks, p \in Pairs :
          LET i == p[1]  j == p[2]
          IN  /\ Stayed(i, j, t, r)
              /\ Inside(j, t, r)
              /\ frames[j].ts - frames[i].ts >= r.limit
              => \E k \in 1..j : Fired(k, r, t, r.kind) /\ Stayed(k, j, t, r)
    /\ \A r \in OwnRules({"crowd"}), j \in DOMAIN frames :
          ~Blank(j) /\ Count(r, frames[j].at) >= r.limit =>
              \E k \in 1..j : Fired(k, r, None, "crowd") /\ Crowded(k, j, r)

\* rules.py 235: "one event per entry".  A track seen on one side of the line
\* and, in the next frame, on the other, has crossed it.
EveryEntryReported ==
    \A r \in OwnRules({"line_cross"}), t \in Tracks, j \in DOMAIN frames :
        /\ j > 1 /\ Present(j - 1, t) /\ Watched(j, t, r)
        /\ Crosses(r, frames[j - 1].at[t].centre, frames[j].at[t].centre)
        => Fired(j, r, t, "line_cross")

\* rules.py 12: "it keeps per-track and per-zone memory across frames so a rule
\* fires only on a meaningful event".  Each rule, whether it was given an id
\* or not, reports a stay in its zone once.
MemoryPerZone == \A i \in RulesOf({"intrusion", "loitering"}) : DwellOnce(Rules[i])
==============================================================================
