---------------------------- MODULE PresenceProofs -----------------------------
(***************************************************************************)
(* Theorems about PresencePipeline, for all frames, gaps, failures and      *)
(* restarts: it implements PresenceLog, and what the store says of a window *)
(* follows its event.                                                       *)
(***************************************************************************)
EXTENDS PresencePipeline, FiniteSetTheorems, TLAPS

-----------------------------------------------------------------------------
(* The windows *)

Numbers ==
    /\ now \in Times /\ life \in 1..MaxLives /\ faults \in Nat
    /\ counter \in 0..MaxTracks /\ DOMAIN tracker \subseteq 1..counter
    /\ phase \in {"idle", "ok", "raised"}

\* A window is open in memory, or staged after the gap it has been quiet for.
OpenWindows ==
    /\ DOMAIN active \subseteq 1..counter
    /\ \A t \in DOMAIN active : active[t] \in Window /\ active[t].last <= now
    /\ staged \subseteq Event
    /\ \A e \in staged : /\ e.life = life
                         /\ e.track \in (1..counter) \ DOMAIN active
                         /\ now - e.last >= MergeGap
    /\ \A e, f \in staged : e.track = f.track => e = f
    /\ phase = "idle" => staged = {}

WInv == Numbers /\ OpenWindows

LEMMA Constants ==
    /\ MergeGap \in Nat \ {0} /\ MaxAge \in Nat \ {0}
    /\ MaxInterval \in Nat /\ MaxTime \in Nat /\ MaxTracks \in Nat
    /\ MaxFaults \in Nat /\ MaxLives \in Nat \ {0}
BY PresenceAssumption

\* The tracks of a frame, and what those that were entered make of _active.
InFrame(matched, n) == matched \union Fresh(n)
Windows(ts, entered) == Seen(ts, entered)

LEMMA SeenFacts ==
    ASSUME WInv, NEW ts \in NextFrame, NEW n \in 0..MaxTracks, NEW matched \in SUBSET DOMAIN tracker,
           NEW entered \in SUBSET InFrame(matched, n), counter + n <= MaxTracks
    PROVE  /\ ts \in Times /\ ts > now
           /\ entered \subseteq 1..(counter + n) /\ counter + n \in 0..MaxTracks
           /\ DOMAIN Windows(ts, entered) = DOMAIN active \union entered
           /\ \A t \in DOMAIN Windows(ts, entered) :
                 LET w == Windows(ts, entered)[t]
                 IN  /\ w \in Window /\ w.last <= ts
                     /\ w.first = IF t \in DOMAIN active THEN active[t].first ELSE ts
                     /\ w.last = IF t \in entered THEN ts ELSE active[t].last
<1> DEFINE seen == entered
           a    == Windows(ts, entered)
<1>1. ts \in Times /\ ts > now /\ now \in Nat  BY Constants DEF NextFrame, WInv, Numbers, Times
<1>2. seen \subseteq 1..(counter + n) /\ counter + n \in 0..MaxTracks
    BY Constants DEF WInv, Numbers, Fresh, InFrame
<1>3. DOMAIN a = DOMAIN active \union seen  BY DEF Seen, Windows
<1>4. \A t \in DOMAIN a :
        a[t] = [first |-> IF t \in DOMAIN active THEN active[t].first ELSE ts,
                last  |-> IF t \in seen THEN ts ELSE active[t].last]
    BY <1>3 DEF Seen, Windows
<1> HIDE DEF seen, a
<1>5. ASSUME NEW t \in DOMAIN a PROVE a[t] \in Window /\ a[t].last <= ts
    <2>1. t \in DOMAIN active =>
            /\ active[t].first \in Times /\ active[t].last \in Times /\ active[t].last <= now
        BY DEF WInv, OpenWindows, Window
    <2>2. t \in seen \/ t \in DOMAIN active  BY <1>3, <1>5
    <2>3. /\ (IF t \in DOMAIN active THEN active[t].first ELSE ts) \in Times
          /\ (IF t \in seen THEN ts ELSE active[t].last) \in Times
          /\ (IF t \in seen THEN ts ELSE active[t].last) <= ts
        BY <1>1, <2>1, <2>2 DEF Times
    <2> QED BY <1>4, <1>5, <2>3 DEF Window
<1>6. \A t \in DOMAIN a :
        /\ a[t].first = IF t \in DOMAIN active THEN active[t].first ELSE ts
        /\ a[t].last = IF t \in seen THEN ts ELSE active[t].last
    BY <1>4
<1> QED BY <1>1, <1>2, <1>3, <1>5, <1>6 DEF seen, a

\* A frame that has been processed, wholly or up to a failure: windows of
\* done are staged, the others stay.
Frame(ts, matched, n, entered, done) ==
    /\ phase = "idle" /\ now' = ts /\ counter + n <= MaxTracks /\ counter' = counter + n
    /\ done \subseteq Stale(Windows(ts, entered), ts, entered)
    /\ active' = Without(Windows(ts, entered), done)
    /\ staged' = EventsOf(done, Windows(ts, entered))
    /\ objects' = objects \union staged'
    /\ sightings' = sightings \union {[life |-> life, track |-> t, ts |-> ts] : t \in entered}
    /\ \A m \in missed' : m \in missed \/ (m.ts = ts /\ faults' = faults + 1)
    /\ UNCHANGED <<life, events, rows, lost>>
    /\ DOMAIN tracker' \subseteq DOMAIN tracker \union Fresh(n)
    /\ \/ /\ phase' = "ok" /\ UNCHANGED faults
          /\ done = Stale(Windows(ts, entered), ts, entered)
       \/ phase' = "raised" /\ faults' = faults + 1

\* A frame that is taken in: processed, or raised at some point.
TakenIn(ts, matched, n) ==
    ProcessFrame(ts, matched, n) \/ FrameRaises(ts, matched, n) \/ FrameFails(ts, matched, n)

LEMMA FrameCases ==
    ASSUME NEW ts \in NextFrame, NEW matched \in SUBSET DOMAIN tracker, NEW n \in 0..MaxTracks,
           WInv, TakenIn(ts, matched, n)
    PROVE  \E entered \in SUBSET InFrame(matched, n) :
              \E done : Frame(ts, matched, n, entered, done)
<1> DEFINE seen == InFrame(matched, n)
           a    == Windows(ts, seen)
<1>1. ASSUME NEW entered, Tracked(ts, matched, n, entered)
      PROVE  /\ DOMAIN tracker' \subseteq DOMAIN tracker \union Fresh(n)
             /\ \A m \in missed' : m \in missed \/ (m.ts = ts /\ seen \ entered # {})
             /\ sightings' = sightings \union {[life |-> life, track |-> t, ts |-> ts] : t \in entered}
    <2>1. DOMAIN tracker' \subseteq DOMAIN tracker \union Fresh(n)  BY <1>1 DEF Tracked, Update
    <2>2. missed' = missed \union SightingsOf(seen \ entered, ts)  BY <1>1 DEF Tracked, InFrame
    <2>3. \A m \in SightingsOf(seen \ entered, ts) : m.ts = ts /\ seen \ entered # {}
        BY DEF SightingsOf
    <2> HIDE DEF seen
    <2>4. \A m \in missed' : m \in missed \/ (m.ts = ts /\ seen \ entered # {})
        BY <2>2, <2>3
    <2>5. sightings' = sightings \union {[life |-> life, track |-> t, ts |-> ts] : t \in entered}
        BY <1>1 DEF Tracked, SightingsOf
    <2> QED BY <2>1, <2>4, <2>5
<1>2. CASE ProcessFrame(ts, matched, n)
    <2>1. Tracked(ts, matched, n, seen)  BY <1>2 DEF ProcessFrame, InFrame
    <2>2. /\ active' = Without(a, Stale(a, ts, seen)) /\ staged' = EventsOf(Stale(a, ts, seen), a)
          /\ objects' = objects \union staged' /\ phase' = "ok" /\ UNCHANGED faults
        BY <1>2 DEF ProcessFrame, Windows, InFrame
    <2>3. \A m \in missed' : m \in missed  BY <1>1, <2>1
    <2>4. /\ DOMAIN tracker' \subseteq DOMAIN tracker \union Fresh(n)
          /\ sightings' = sightings \union {[life |-> life, track |-> t, ts |-> ts] : t \in seen}
        BY <1>1, <2>1
    <2>5. Frame(ts, matched, n, seen, Stale(a, ts, seen))
        <3> HIDE DEF seen
        <3> QED BY <2>1, <2>2, <2>3, <2>4 DEF Tracked, Frame
    <2> QED BY <2>5
<1>3. CASE FrameRaises(ts, matched, n)
    <2>1. PICK done \in SUBSET Stale(a, ts, seen) :
            /\ active' = Without(a, done) /\ staged' = EventsOf(done, a)
            /\ objects' = objects \union staged'
            /\ phase' = "raised" /\ faults' = faults + 1
        BY <1>3 DEF FrameRaises, Windows, InFrame
    <2>2. Tracked(ts, matched, n, seen)  BY <1>3 DEF FrameRaises, InFrame
    <2>3. Frame(ts, matched, n, seen, done)  BY <1>1, <2>1, <2>2 DEF Tracked, Frame
    <2> QED BY <2>3
<1>4. CASE FrameFails(ts, matched, n) /\ staged = {}
    <2>1. PICK entered \in SUBSET seen :
            /\ Tracked(ts, matched, n, entered)
            /\ active' = Seen(ts, entered)
            /\ phase' = "raised" /\ faults' = faults + 1
            /\ UNCHANGED <<staged, objects>>
        BY <1>4 DEF FrameFails, InFrame
    <2>2. Without(Windows(ts, entered), {}) = Windows(ts, entered)
        BY DEF Without, Windows, Seen
    <2>3. EventsOf({}, Windows(ts, entered)) = {}  BY DEF EventsOf
    <2>4. Frame(ts, matched, n, entered, {})
        BY <1>1, <1>4, <2>1, <2>2, <2>3 DEF Tracked, Frame, Windows
    <2> QED BY <2>1, <2>4
<1> QED BY <1>2, <1>3, <1>4 DEF TakenIn, WInv, OpenWindows, FrameFails, Tracked

LEMMA FrameWindows ==
    ASSUME WInv, NEW ts \in NextFrame, NEW matched \in SUBSET DOMAIN tracker, NEW n \in 0..MaxTracks,
           NEW entered \in SUBSET InFrame(matched, n), NEW done,
           Frame(ts, matched, n, entered, done)
    PROVE  WInv'
<1> DEFINE seen == entered
           a    == Windows(ts, entered)
<1>1. /\ ts \in Times /\ ts > now
      /\ seen \subseteq 1..(counter + n) /\ counter + n \in 0..MaxTracks
      /\ DOMAIN a = DOMAIN active \union seen
      /\ \A t \in DOMAIN a : a[t] \in Window /\ a[t].last <= ts
    <2>0. counter + n <= MaxTracks  BY DEF Frame
    <2>1. ts \in Times /\ ts > now /\ seen \subseteq 1..(counter + n) /\ counter + n \in 0..MaxTracks
        BY <2>0, SeenFacts
    <2>2. DOMAIN a = DOMAIN active \union seen  BY <2>0, SeenFacts
    <2>3. \A t \in DOMAIN a : a[t] \in Window /\ a[t].last <= ts  BY <2>0, SeenFacts
    <2> QED BY <2>1, <2>2, <2>3
<1>2. /\ done \subseteq DOMAIN a \ seen /\ \A t \in done : ts - a[t].last >= MergeGap
    BY DEF Frame, Stale
<1>3. /\ now' = ts /\ counter' = counter + n /\ life' = life
      /\ active' = Without(a, done) /\ staged' = EventsOf(done, a)
      /\ phase' \in {"ok", "raised"} /\ faults' \in Nat
      /\ DOMAIN tracker' \subseteq 1..(counter + n)
    BY Constants DEF Frame, WInv, Numbers, Fresh
<1>4. DOMAIN a \subseteq 1..(counter + n)
    BY <1>1, Constants DEF WInv, OpenWindows, Numbers
<1> HIDE DEF a, seen
<1>5. /\ DOMAIN active' = DOMAIN a \ done
      /\ \A t \in DOMAIN active' : active'[t] = a[t]
    BY <1>3 DEF Without
<1>6. \A e \in staged' : \E t \in done :
          /\ e = [life |-> life, track |-> t, first |-> a[t].first, last |-> a[t].last]
          /\ e \in Event /\ t \in 1..MaxTracks
    <2>1. \A e \in staged' : \E t \in done :
            e = [life |-> life, track |-> t, first |-> a[t].first, last |-> a[t].last]
        BY <1>3 DEF EventsOf, EventOf
    <2>2. \A t \in done : t \in 1..MaxTracks /\ a[t].first \in Times /\ a[t].last \in Times
        BY <1>1, <1>2, <1>4, Constants DEF Window
    <2>3. life \in 1..MaxLives  BY DEF WInv, Numbers
    <2>4. \A t \in done :
            [life |-> life, track |-> t, first |-> a[t].first, last |-> a[t].last] \in Event
        BY <2>2, <2>3 DEF Event, Tracks
    <2> QED BY <2>1, <2>2, <2>4
<1>7. Numbers'  BY <1>1, <1>3 DEF WInv, Numbers
<1>8. OpenWindows'
    <2>1. \A t \in DOMAIN active' : active'[t] \in Window /\ active'[t].last <= now'
        BY <1>1, <1>3, <1>5
    <2>2. \A e \in staged' : /\ e \in Event /\ e.life = life' /\ now' - e.last >= MergeGap
                             /\ e.track \in (1..counter') \ DOMAIN active'
        BY <1>2, <1>3, <1>4, <1>5, <1>6
    <2>3. \A e, f \in staged' : e.track = f.track => e = f  BY <1>6
    <2> QED BY <1>3, <1>4, <1>5, <2>1, <2>2, <2>3 DEF OpenWindows
<1> QED BY <1>7, <1>8 DEF WInv

LEMMA InitWindows == Init => WInv
<1> SUFFICES ASSUME Init PROVE WInv  OBVIOUS
<1>1. DOMAIN active = {} /\ DOMAIN tracker = {}  BY DEF Init
<1>2. /\ now = 0 /\ life = 1 /\ faults = 0 /\ counter = 0
      /\ phase = "idle" /\ staged = {}
    BY DEF Init
<1>3. Numbers  BY <1>1, <1>2, Constants DEF Numbers, Times
<1>4. OpenWindows  BY <1>1, <1>2 DEF OpenWindows
<1> QED BY <1>3, <1>4 DEF WInv

LEMMA StepWindows == WInv /\ [Next]_vars => WInv'
<1> SUFFICES ASSUME WInv, [Next]_vars PROVE WInv'  OBVIOUS
<1> USE DEF WInv, Numbers, OpenWindows
<1>1. CASE UNCHANGED vars  BY <1>1 DEF vars, memory
<1>2. ASSUME NEW ts \in NextFrame, FrameDropped(ts) PROVE WInv'
    <2>1. ts \in Times /\ ts > now  BY DEF NextFrame
    <2> QED BY <1>2, <2>1, Constants DEF FrameDropped, memory, Times, Window
<1>3. CASE Commit  BY <1>3 DEF Commit, memory
<1>4. CASE Rollback  BY <1>4 DEF Rollback, memory
<1>5. CASE WorkerRestarts  BY <1>5, Constants DEF WorkerRestarts
<1>6. ASSUME NEW ts \in NextFrame, NEW matched \in SUBSET DOMAIN tracker, NEW n \in 0..MaxTracks,
             TakenIn(ts, matched, n)
      PROVE  WInv'
    BY <1>6, FrameCases, FrameWindows
<1> QED BY <1>1, <1>2, <1>3, <1>4, <1>5, <1>6 DEF Next, TakenIn

-----------------------------------------------------------------------------
(* The windows as PresenceLog sees them *)

\* Of each object a set says one thing.
OnePerObject(E) == \A v, w \in E : ObjectOf(v) = ObjectOf(w) => v = w

LEMMA WindowsSay ==
    \A E : OnePerObject(E) =>
        /\ DOMAIN WindowsOf(E) = {ObjectOf(e) : e \in E}
        /\ \A e \in E : /\ WindowsOf(E)[ObjectOf(e)].first = e.first
                        /\ WindowsOf(E)[ObjectOf(e)].last = e.last
<1> SUFFICES ASSUME NEW E, OnePerObject(E)
             PROVE  /\ DOMAIN WindowsOf(E) = {ObjectOf(e) : e \in E}
                    /\ \A e \in E : /\ WindowsOf(E)[ObjectOf(e)].first = e.first
                                    /\ WindowsOf(E)[ObjectOf(e)].last = e.last
    OBVIOUS
<1>1. DOMAIN WindowsOf(E) = {ObjectOf(e) : e \in E}  BY DEF WindowsOf
<1>2. ASSUME NEW e \in E
      PROVE  WindowsOf(E)[ObjectOf(e)].first = e.first /\ WindowsOf(E)[ObjectOf(e)].last = e.last
    <2> DEFINE w == CHOOSE v \in E : ObjectOf(v) = ObjectOf(e)
    <2>1. w \in E /\ ObjectOf(w) = ObjectOf(e)  OBVIOUS
    <2>2. w = e  BY <2>1 DEF OnePerObject
    <2>3. WindowsOf(E)[ObjectOf(e)] = [first |-> w.first, last |-> w.last]
        BY DEF WindowsOf
    <2> HIDE DEF w
    <2> QED BY <2>2, <2>3
<1> QED BY <1>1, <1>2

\* A window is its two ends.
LEMMA TwoEnds ==
    \A E : WindowsOf(E) = [o \in DOMAIN WindowsOf(E) |->
                              [first |-> WindowsOf(E)[o].first, last |-> WindowsOf(E)[o].last]]
BY DEF WindowsOf

\* Fewer windows are the same windows without the objects that are missing.
LEMMA FewerWindows ==
    \A E : OnePerObject(E) =>
        \A F \in SUBSET E :
            WindowsOf(F) = [o \in DOMAIN WindowsOf(E) \ {ObjectOf(e) : e \in E \ F} |-> WindowsOf(E)[o]]
<1> SUFFICES ASSUME NEW E, OnePerObject(E), NEW F \in SUBSET E
             PROVE  WindowsOf(F) =
                      [o \in DOMAIN WindowsOf(E) \ {ObjectOf(e) : e \in E \ F} |-> WindowsOf(E)[o]]
    OBVIOUS
<1> DEFINE V == WindowsOf(E)
           W == WindowsOf(F)
           kept == DOMAIN V \ {ObjectOf(e) : e \in E \ F}
<1>1. OnePerObject(F)  BY DEF OnePerObject
<1>2. DOMAIN V = {ObjectOf(e) : e \in E}  BY WindowsSay
<1>3. DOMAIN W = {ObjectOf(e) : e \in F}  BY <1>1, WindowsSay
<1>4. DOMAIN W = kept  BY <1>2, <1>3 DEF OnePerObject
<1>5. \A e \in E : V[ObjectOf(e)].first = e.first /\ V[ObjectOf(e)].last = e.last
    BY WindowsSay
<1>6. \A e \in F : W[ObjectOf(e)].first = e.first /\ W[ObjectOf(e)].last = e.last
    BY <1>1, WindowsSay
<1>7. \A o \in DOMAIN W : W[o].first = V[o].first /\ W[o].last = V[o].last
    BY <1>3, <1>5, <1>6
<1>8. /\ W = [o \in DOMAIN W |-> [first |-> W[o].first, last |-> W[o].last]]
      /\ V = [o \in DOMAIN V |-> [first |-> V[o].first, last |-> V[o].last]]
    BY TwoEnds
<1> HIDE DEF V, W
<1>9. \A o \in kept : W[o] = V[o]  BY <1>4, <1>7, <1>8
<1>10. W = [o \in kept |-> W[o]]  BY <1>4, <1>8
<1> QED BY <1>9, <1>10 DEF V, W

\* The windows of a run's tracks.
RowsOf(l, a) == {[life |-> l, track |-> t, first |-> a[t].first, last |-> a[t].last] : t \in DOMAIN a}

LEMMA RowsSay ==
    \A l, a :
        /\ OnePerObject(RowsOf(l, a))
        /\ DOMAIN WindowsOf(RowsOf(l, a)) = {<<l, t>> : t \in DOMAIN a}
        /\ \A t \in DOMAIN a :
              /\ WindowsOf(RowsOf(l, a))[<<l, t>>].first = a[t].first
              /\ WindowsOf(RowsOf(l, a))[<<l, t>>].last = a[t].last
<1> SUFFICES ASSUME NEW l, NEW a
             PROVE  /\ OnePerObject(RowsOf(l, a))
                    /\ DOMAIN WindowsOf(RowsOf(l, a)) = {<<l, t>> : t \in DOMAIN a}
                    /\ \A t \in DOMAIN a :
                          /\ WindowsOf(RowsOf(l, a))[<<l, t>>].first = a[t].first
                          /\ WindowsOf(RowsOf(l, a))[<<l, t>>].last = a[t].last
    OBVIOUS
<1> DEFINE R == RowsOf(l, a)
           row(t) == [life |-> l, track |-> t, first |-> a[t].first, last |-> a[t].last]
<1>1. \A t \in DOMAIN a : row(t) \in R /\ ObjectOf(row(t)) = <<l, t>>
    BY DEF RowsOf, ObjectOf
<1>2. \A e \in R : \E t \in DOMAIN a : e = row(t)  BY DEF RowsOf
<1>3. \A t \in DOMAIN a : row(t).first = a[t].first /\ row(t).last = a[t].last  OBVIOUS
<1> HIDE DEF R, row
<1>4. OnePerObject(R)  BY <1>1, <1>2 DEF OnePerObject
<1>5. DOMAIN WindowsOf(R) = {<<l, t>> : t \in DOMAIN a}
    <2>1. DOMAIN WindowsOf(R) = {ObjectOf(e) : e \in R}  BY <1>4, WindowsSay
    <2> QED BY <1>1, <1>2, <2>1
<1>6. \A e \in R : WindowsOf(R)[ObjectOf(e)].first = e.first /\ WindowsOf(R)[ObjectOf(e)].last = e.last
    BY <1>4, WindowsSay
<1>7. ASSUME NEW t \in DOMAIN a
      PROVE  WindowsOf(R)[<<l, t>>].first = a[t].first /\ WindowsOf(R)[<<l, t>>].last = a[t].last
    BY <1>1, <1>3, <1>6, <1>7
<1> QED BY <1>4, <1>5, <1>7 DEF R

\* The windows open before and after a step.
LEMMA OpenFacts ==
    WInv => /\ EventsOf(DOMAIN active, active) = RowsOf(life, active)
            /\ OnePerObject(Open)
<1> SUFFICES ASSUME WInv
             PROVE  EventsOf(DOMAIN active, active) = RowsOf(life, active) /\ OnePerObject(Open)
    OBVIOUS
<1>1. EventsOf(DOMAIN active, active) = RowsOf(life, active)
    BY DEF EventsOf, EventOf, RowsOf
<1>2. \A e \in RowsOf(life, active) : e.track \in DOMAIN active  BY DEF RowsOf
<1>3. OnePerObject(RowsOf(life, active))  BY RowsSay
<1>4. \A e \in staged : e.track \notin DOMAIN active  BY DEF WInv, OpenWindows
<1>5. \A v, w \in staged : v.track = w.track => v = w  BY DEF WInv, OpenWindows
<1>6. OnePerObject(Open)
    BY <1>1, <1>2, <1>3, <1>4, <1>5 DEF OnePerObject, Open, ObjectOf
<1> QED BY <1>1, <1>6

LEMMA LogInit == Init => Log!Init
<1> SUFFICES ASSUME Init PROVE Log!Init  OBVIOUS
<1>1. DOMAIN active = {} /\ staged = {} /\ events = {} /\ now = 0  BY DEF Init
<1>2. Open = {}  BY <1>1 DEF Open, EventsOf
<1>3. WindowsOf(Open) = << >>  BY <1>2 DEF WindowsOf
<1>4. LogOf(events) = {}  BY <1>1 DEF LogOf
<1> QED BY <1>1, <1>3, <1>4 DEF Log!Init

\* The windows a frame closes stay open until its transaction ends.
LEMMA FrameOpen ==
    ASSUME WInv, NEW ts \in NextFrame, NEW matched \in SUBSET DOMAIN tracker, NEW n \in 0..MaxTracks,
           NEW entered \in SUBSET InFrame(matched, n), NEW done,
           Frame(ts, matched, n, entered, done)
    PROVE  Open = RowsOf(life, active) /\ Open' = RowsOf(life, Windows(ts, entered))
<1> DEFINE a == Windows(ts, entered)
<1>1. /\ life' = life /\ staged = {} /\ done \subseteq DOMAIN a
      /\ active' = Without(a, done) /\ staged' = EventsOf(done, a)
    BY DEF Frame, WInv, OpenWindows, Stale
<1> HIDE DEF a
<1>2. Open = RowsOf(life, active)  BY <1>1, OpenFacts DEF Open
<1>3. Open' = RowsOf(life, a)
    <2>1. DOMAIN active' = DOMAIN a \ done /\ \A t \in DOMAIN active' : active'[t] = a[t]
        BY <1>1 DEF Without
    <2>2. EventsOf(DOMAIN active, active)' =
            {[life |-> life, track |-> t, first |-> a[t].first, last |-> a[t].last] : t \in DOMAIN a \ done}
        BY <1>1, <2>1 DEF EventsOf, EventOf
    <2>3. staged' = {[life |-> life, track |-> t, first |-> a[t].first, last |-> a[t].last] : t \in done}
        BY <1>1 DEF EventsOf, EventOf
    <2> QED BY <1>1, <2>2, <2>3 DEF Open, RowsOf
<1> QED BY <1>2, <1>3 DEF a

\* A frame observes its tracks.
LEMMA FrameObserves ==
    ASSUME WInv, NEW ts \in NextFrame, NEW matched \in SUBSET DOMAIN tracker, NEW n \in 0..MaxTracks,
           NEW entered \in SUBSET InFrame(matched, n), NEW done,
           Frame(ts, matched, n, entered, done)
    PROVE  Log!Observe({<<life, t>> : t \in entered})
<1> DEFINE seen == entered
           a    == Windows(ts, entered)
           S    == {<<life, t>> : t \in seen}
<1>0. counter + n <= MaxTracks  BY DEF Frame
<1>1. /\ ts > now /\ DOMAIN a = DOMAIN active \union seen
    BY <1>0, SeenFacts
<1>2. \A t \in DOMAIN a :
        /\ a[t].first = IF t \in DOMAIN active THEN active[t].first ELSE ts
        /\ a[t].last = IF t \in seen THEN ts ELSE active[t].last
    <2>1. \A t \in DOMAIN a :
            a[t] = [first |-> IF t \in DOMAIN active THEN active[t].first ELSE ts,
                    last  |-> IF t \in seen THEN ts ELSE active[t].last]
        BY <1>1 DEF Seen, Windows
    <2> HIDE DEF a, seen
    <2> QED BY <2>1
<1>3. now' = ts /\ life' = life /\ events' = events  BY DEF Frame
<1>4. Open = RowsOf(life, active) /\ Open' = RowsOf(life, a)  BY FrameOpen
<1> HIDE DEF a, seen
<1> DEFINE W == WindowsOf(RowsOf(life, active))
           V == WindowsOf(RowsOf(life, a))
<1>6. DOMAIN W = {<<life, t>> : t \in DOMAIN active} /\ DOMAIN V = {<<life, t>> : t \in DOMAIN a}
    BY RowsSay
<1>7. \A t \in DOMAIN active : /\ W[<<life, t>>].first = active[t].first
                               /\ W[<<life, t>>].last = active[t].last
    BY RowsSay
<1>8. \A t \in DOMAIN a : V[<<life, t>>].first = a[t].first /\ V[<<life, t>>].last = a[t].last
    BY RowsSay
<1>9. WindowsOf(Open) = W /\ WindowsOf(Open)' = V
    BY <1>4 DEF WindowsOf, ObjectOf
<1>10. V = [o \in DOMAIN V |-> [first |-> V[o].first, last |-> V[o].last]]
    BY TwoEnds
<1> HIDE DEF W, V
<1>11. DOMAIN V = DOMAIN W \union S  BY <1>1, <1>6
<1>12. \A o \in DOMAIN V :
          /\ V[o].first = IF o \in DOMAIN W THEN W[o].first ELSE ts
          /\ V[o].last = IF o \in S THEN ts ELSE W[o].last
    <2> SUFFICES ASSUME NEW t \in DOMAIN a
                 PROVE  /\ V[<<life, t>>].first =
                              IF <<life, t>> \in DOMAIN W THEN W[<<life, t>>].first ELSE ts
                        /\ V[<<life, t>>].last =
                              IF <<life, t>> \in S THEN ts ELSE W[<<life, t>>].last
        BY <1>6
    <2>1. (<<life, t>> \in DOMAIN W <=> t \in DOMAIN active) /\ (<<life, t>> \in S <=> t \in seen)
        BY <1>6
    <2>2. t \in seen \/ t \in DOMAIN active  BY <1>1
    <2> QED BY <1>2, <1>7, <1>8, <2>1, <2>2
<1>14. V = [o \in DOMAIN W \union S |->
              [first |-> IF o \in DOMAIN W THEN W[o].first ELSE ts,
               last  |-> IF o \in S THEN ts ELSE W[o].last]]
    BY <1>10, <1>11, <1>12
<1>13. LogOf(events)' = LogOf(events)  BY <1>3 DEF LogOf, ObjectOf
<1> QED BY <1>1, <1>3, <1>9, <1>13, <1>14 DEF Log!Observe, S, seen

\* A frame that is dropped observes nothing.
LEMMA DroppedObserves ==
    ASSUME WInv, NEW ts \in NextFrame, FrameDropped(ts)
    PROVE  Log!Observe({})
<1> DEFINE W == WindowsOf(Open)
<1>1. /\ now' = ts /\ ts > now
      /\ Open' = Open /\ events' = events
    BY DEF FrameDropped, memory, store, NextFrame, Open, EventsOf, EventOf
<1>2. WindowsOf(Open)' = W /\ LogOf(events)' = LogOf(events)
    BY <1>1 DEF WindowsOf, LogOf, ObjectOf
<1>3. W = [o \in DOMAIN W |-> [first |-> W[o].first, last |-> W[o].last]]
    BY TwoEnds
<1> HIDE DEF W
<1>4. W = [o \in DOMAIN W \union {} |->
             [first |-> IF o \in DOMAIN W THEN W[o].first ELSE ts,
              last  |-> IF o \in {} THEN ts ELSE W[o].last]]
    BY <1>3
<1> QED BY <1>1, <1>2, <1>4 DEF Log!Observe, W

\* The end of a transaction leaves the windows that are open in memory, and a
\* commit publishes the others.
LEMMA TransactionEnds ==
    ASSUME WInv, active' = active, life' = life, staged' = {}, now' = now
    PROVE  LET S == {ObjectOf(e) : e \in staged}
           IN  /\ S \subseteq DOMAIN WindowsOf(Open)
               /\ WindowsOf(Open)' = [o \in DOMAIN WindowsOf(Open) \ S |-> WindowsOf(Open)[o]]
               /\ \A e \in staged : /\ WindowsOf(Open)[ObjectOf(e)].first = e.first
                                     /\ WindowsOf(Open)[ObjectOf(e)].last = e.last
<1> DEFINE S == {ObjectOf(e) : e \in staged}
           F == RowsOf(life, active)
<1>1. OnePerObject(Open) /\ EventsOf(DOMAIN active, active) = F  BY OpenFacts
<1>2. DOMAIN WindowsOf(Open) = {ObjectOf(e) : e \in Open}  BY <1>1, WindowsSay
<1>3. \A e \in Open : /\ WindowsOf(Open)[ObjectOf(e)].first = e.first
                      /\ WindowsOf(Open)[ObjectOf(e)].last = e.last
    BY <1>1, WindowsSay
<1>4. Open = staged \union F /\ Open' = F
    BY <1>1 DEF Open, EventsOf, EventOf, RowsOf
<1>5. Open \ F = staged
    <2>1. \A e \in F : e.track \in DOMAIN active  BY DEF RowsOf
    <2>2. \A e \in staged : e.track \notin DOMAIN active  BY DEF WInv, OpenWindows
    <2> QED BY <1>4, <2>1, <2>2
<1>6. WindowsOf(F) = [o \in DOMAIN WindowsOf(Open) \ {ObjectOf(e) : e \in Open \ F} |-> WindowsOf(Open)[o]]
    <2>1. \A G \in SUBSET Open :
            WindowsOf(G) = [o \in DOMAIN WindowsOf(Open) \ {ObjectOf(e) : e \in Open \ G} |-> WindowsOf(Open)[o]]
        BY <1>1, FewerWindows
    <2>2. F \in SUBSET Open  BY <1>4
    <2> HIDE DEF F
    <2> QED BY <2>1, <2>2
<1>7. WindowsOf(Open)' = WindowsOf(F)  BY <1>4 DEF WindowsOf, ObjectOf
<1> HIDE DEF F
<1> QED BY <1>2, <1>3, <1>4, <1>5, <1>6, <1>7

LEMMA CommitPublishes ==
    ASSUME WInv, Commit
    PROVE  \E S \in SUBSET DOMAIN WindowsOf(Open) : Log!Publish(S)
<1> DEFINE S == {ObjectOf(e) : e \in staged}
           W == WindowsOf(Open)
<1>0. /\ active' = active /\ life' = life /\ staged' = {} /\ now' = now
      /\ events' = events \union staged
    BY DEF Commit, memory
<1>1. /\ S \subseteq DOMAIN W
      /\ WindowsOf(Open)' = [o \in DOMAIN W \ S |-> W[o]]
      /\ \A e \in staged : W[ObjectOf(e)].first = e.first /\ W[ObjectOf(e)].last = e.last
    BY <1>0, TransactionEnds
<1>2. \A e \in staged : now - e.last >= MergeGap  BY DEF WInv, OpenWindows
<1> HIDE DEF W
<1>3. \A o \in S : now - W[o].last >= MergeGap  BY <1>1, <1>2
<1>4. LogOf(events)' = LogOf(events) \union {[object |-> o, first |-> W[o].first, last |-> W[o].last] : o \in S}
    <2>1. LogOf(events)' = LogOf(events) \union
            {[object |-> ObjectOf(e), first |-> e.first, last |-> e.last] : e \in staged}
        BY <1>0 DEF LogOf, ObjectOf
    <2>2. {[object |-> ObjectOf(e), first |-> e.first, last |-> e.last] : e \in staged}
            = {[object |-> o, first |-> W[o].first, last |-> W[o].last] : o \in S}
        BY <1>1
    <2> QED BY <2>1, <2>2
<1>5. Log!Publish(S)
    BY <1>0, <1>1, <1>3, <1>4 DEF Log!Publish, Log!Published, W
<1> QED BY <1>1, <1>5 DEF W

LEMMA RollbackDrops ==
    ASSUME WInv, Rollback
    PROVE  \E S \in SUBSET DOMAIN WindowsOf(Open) : Log!Drop(S)
<1> DEFINE S == {ObjectOf(e) : e \in staged}
<1>0. /\ active' = active /\ life' = life /\ staged' = {} /\ now' = now
      /\ events' = events
    BY DEF Rollback, memory, store
<1>1. /\ S \subseteq DOMAIN WindowsOf(Open)
      /\ WindowsOf(Open)' = [o \in DOMAIN WindowsOf(Open) \ S |-> WindowsOf(Open)[o]]
    BY <1>0, TransactionEnds
<1>2. LogOf(events)' = LogOf(events)  BY <1>0 DEF LogOf, ObjectOf
<1>3. Log!Drop(S)  BY <1>0, <1>1, <1>2 DEF Log!Drop
<1> QED BY <1>1, <1>3

LEMMA RestartDrops ==
    ASSUME WInv, WorkerRestarts
    PROVE  \E S \in SUBSET DOMAIN WindowsOf(Open) : Log!Drop(S)
<1> DEFINE W == WindowsOf(Open)
<1>0. active' = << >> /\ staged' = {} /\ now' = now /\ events' = events
    BY DEF WorkerRestarts, store
<1>1. DOMAIN active' = {}  BY <1>0
<1>2. Open' = {}  BY <1>0, <1>1 DEF Open, EventsOf
<1>3. WindowsOf(Open)' = [o \in {} |-> W[o]]
    BY <1>2 DEF WindowsOf
<1>4. LogOf(events)' = LogOf(events)  BY <1>0 DEF LogOf, ObjectOf
<1> HIDE DEF W
<1>5. WindowsOf(Open)' = [o \in DOMAIN W \ DOMAIN W |-> W[o]]  BY <1>3
<1>6. Log!Drop(DOMAIN W)  BY <1>0, <1>4, <1>5 DEF Log!Drop, W
<1> QED BY <1>6 DEF W

LEMMA LogStep ==
    WInv /\ [Next]_vars => [Log!Next]_<<now, WindowsOf(Open), LogOf(events)>>
<1> SUFFICES ASSUME WInv, [Next]_vars
             PROVE  [Log!Next]_<<now, WindowsOf(Open), LogOf(events)>>
    OBVIOUS
<1>1. CASE UNCHANGED vars
    <2>1. now' = now /\ Open' = Open /\ events' = events
        BY <1>1 DEF vars, memory, store, Open, EventsOf, EventOf
    <2>2. WindowsOf(Open)' = WindowsOf(Open) /\ LogOf(events)' = LogOf(events)
        BY <2>1 DEF WindowsOf, LogOf, ObjectOf
    <2> QED BY <2>1, <2>2
<1>2. ASSUME NEW ts \in NextFrame, FrameDropped(ts) PROVE Log!Next
    <2>1. Log!Observe({})  BY <1>2, DroppedObserves
    <2> QED BY <2>1 DEF Log!Next
<1>3. CASE Commit
    BY <1>3, CommitPublishes DEF Log!Next
<1>4. CASE Rollback
    BY <1>4, RollbackDrops DEF Log!Next
<1>5. CASE WorkerRestarts
    BY <1>5, RestartDrops DEF Log!Next
<1>6. ASSUME NEW ts \in NextFrame, NEW matched \in SUBSET DOMAIN tracker, NEW n \in 0..MaxTracks,
             TakenIn(ts, matched, n)
      PROVE  Log!Next
    <2>1. PICK entered \in SUBSET InFrame(matched, n) : \E done : Frame(ts, matched, n, entered, done)  BY <1>6, FrameCases
    <2>0. PICK done : Frame(ts, matched, n, entered, done)  BY <2>1
    <2>2. Log!Observe({<<life, t>> : t \in entered})  BY <2>0, FrameObserves
    <2>3. counter + n <= MaxTracks  BY <2>0 DEF Frame
    <2>4. InFrame(matched, n) \subseteq Tracks
        BY <2>3, Constants DEF InFrame, Fresh, Tracks, WInv, Numbers
    <2>5. {<<life, t>> : t \in entered} \in SUBSET ((1..MaxLives) \X Tracks)
        BY <2>4 DEF WInv, Numbers
    <2> QED BY <2>2, <2>5 DEF Log!Next
<1> QED BY <1>1, <1>2, <1>3, <1>4, <1>5, <1>6 DEF Next, TakenIn

\* Whatever fails and whenever the worker restarts, the presence events and the
\* windows still open behave as PresenceLog promises: CameraPipeline closes
\* only what has been quiet for the gap, a transaction publishes its windows
\* whole or not at all, and nothing published is touched again.
THEOREM PresenceImplementsLog == Spec => ImplementsLog
<1>1. Init => WInv /\ Log!Init  BY InitWindows, LogInit
<1>2. WInv /\ [Next]_vars => WInv'  BY StepWindows
<1>3. WInv /\ [Next]_vars => [Log!Next]_<<now, WindowsOf(Open), LogOf(events)>>
    BY LogStep
<1> QED BY <1>1, <1>2, <1>3, PTL DEF Spec, ImplementsLog, Log!Spec

-----------------------------------------------------------------------------
(* The store *)

Snapshots ==
    /\ events \subseteq objects
    /\ staged \subseteq objects
    /\ objects \subseteq events \union staged \union lost

\* Ends of rows and events are times that have passed.
EndsPassed ==
    /\ \A t \in DOMAIN rows : rows[t].last \in Times /\ rows[t].last <= now
    /\ \A e \in events : e.last \in Times

\* Before anything has failed: a row may lag behind its open window while a
\* transaction is under way, never behind a window that has been closed.
RowsFollow ==
    faults = 0 =>
        /\ phase \in {"idle", "ok"}
        /\ phase = "idle" => \A t \in DOMAIN active : t \in DOMAIN rows /\ rows[t] = active[t]
        /\ \A t \in DOMAIN active : t \in DOMAIN rows => rows[t].last <= active[t].last
        /\ \A e \in events \union staged : e.track \in DOMAIN rows /\ rows[e.track].last >= e.last

StoreInv == Snapshots /\ EndsPassed /\ RowsFollow

LEMMA FrameStore ==
    ASSUME WInv, StoreInv, NEW ts \in NextFrame, NEW matched \in SUBSET DOMAIN tracker,
           NEW n \in 0..MaxTracks, NEW entered \in SUBSET InFrame(matched, n), NEW done,
           Frame(ts, matched, n, entered, done)
    PROVE  StoreInv'
<1> DEFINE seen == entered
           a    == Windows(ts, entered)
<1>0. ts \in Times /\ ts > now /\ now \in Times
    BY Constants DEF NextFrame, WInv, Numbers, Times
<1>1. /\ now' = ts /\ events' = events /\ rows' = rows /\ lost' = lost /\ staged = {}
      /\ phase = "idle"
      /\ objects' = objects \union staged' /\ active' = Without(a, done)
      /\ staged' = EventsOf(done, a)
      /\ done \subseteq DOMAIN a \ seen
    BY DEF Frame, WInv, OpenWindows, Stale
<1>2. \A t \in DOMAIN a : /\ t \in seen \/ t \in DOMAIN active
                         /\ a[t].last = IF t \in seen THEN ts ELSE active[t].last
    <2>1. /\ DOMAIN a = DOMAIN active \union seen
          /\ \A t \in DOMAIN a :
                a[t] = [first |-> IF t \in DOMAIN active THEN active[t].first ELSE ts,
                        last  |-> IF t \in seen THEN ts ELSE active[t].last]
        BY DEF Seen, Windows
    <2> HIDE DEF a, seen
    <2>2. \A t \in DOMAIN a : t \in seen \/ t \in DOMAIN active  BY <2>1
    <2>3. ASSUME NEW t \in DOMAIN a PROVE a[t].last = IF t \in seen THEN ts ELSE active[t].last
        <3>1. a[t] = [first |-> IF t \in DOMAIN active THEN active[t].first ELSE ts,
                      last  |-> IF t \in seen THEN ts ELSE active[t].last]
            BY <2>1
        <3> QED BY <3>1
    <2> QED BY <2>2, <2>3
<1> HIDE DEF a, seen
<1>3. Snapshots'  BY <1>1 DEF StoreInv, Snapshots
<1>4. EndsPassed'  BY <1>0, <1>1 DEF StoreInv, EndsPassed, Times
<1>5. ASSUME faults' = 0 PROVE faults = 0 /\ phase' = "ok"
    BY <1>5 DEF Frame, WInv, Numbers
<1>6. ASSUME faults' = 0
      PROVE  \A t \in DOMAIN active' : t \in DOMAIN rows' => rows'[t].last <= active'[t].last
    <2> SUFFICES ASSUME NEW t \in DOMAIN a, t \in DOMAIN rows PROVE rows[t].last <= a[t].last
        BY <1>1 DEF Without
    <2>1. rows[t].last \in Times /\ rows[t].last <= now  BY DEF StoreInv, EndsPassed
    <2>2. CASE t \in seen
        <3>1. a[t].last = ts  BY <1>2, <2>2
        <3> QED BY <1>0, <2>1, <3>1 DEF Times
    <2>3. CASE t \notin seen
        <3>1. a[t].last = active[t].last /\ t \in DOMAIN active  BY <1>2, <2>3
        <3>2. rows[t].last <= active[t].last  BY <1>1, <1>5, <1>6, <3>1 DEF StoreInv, RowsFollow
        <3> QED BY <3>1, <3>2
    <2> QED BY <2>2, <2>3
<1>7. ASSUME faults' = 0, NEW e \in staged'
      PROVE  e.track \in DOMAIN rows /\ rows[e.track].last >= e.last
    <2>1. PICK t \in done : e.track = t /\ e.last = a[t].last
        BY <1>1 DEF EventsOf, EventOf
    <2>2. a[t].last = active[t].last /\ t \in DOMAIN active  BY <1>1, <1>2, <2>1
    <2>3. t \in DOMAIN rows /\ rows[t] = active[t]
        BY <1>1, <1>5, <1>7, <2>2 DEF StoreInv, RowsFollow
    <2>4. rows[t].last \in Times  BY <2>3 DEF StoreInv, EndsPassed
    <2> QED BY <2>1, <2>2, <2>3, <2>4 DEF Times
<1>8. RowsFollow'
    <2> SUFFICES ASSUME faults' = 0 PROVE RowsFollow'  BY DEF RowsFollow
    <2>1. \A e \in events : e.track \in DOMAIN rows /\ rows[e.track].last >= e.last
        BY <1>5 DEF StoreInv, RowsFollow
    <2>2. \A e \in events' \union staged' : e.track \in DOMAIN rows' /\ rows'[e.track].last >= e.last
        BY <1>1, <1>7, <2>1
    <2> QED BY <1>5, <1>6, <2>2 DEF RowsFollow
<1> QED BY <1>3, <1>4, <1>8 DEF StoreInv

LEMMA CommitStore ==
    ASSUME WInv, StoreInv, Commit
    PROVE  StoreInv'
<1>1. /\ events' = events \union staged /\ staged' = {} /\ objects' = objects /\ lost' = lost
      /\ now' = now /\ phase = "ok" /\ phase' = "idle" /\ active' = active /\ faults' = faults
    BY DEF Commit, memory
<1>2. /\ DOMAIN rows' = DOMAIN rows \union DOMAIN active
      /\ \A t \in DOMAIN rows' : rows'[t] = IF t \in DOMAIN active THEN active[t] ELSE rows[t]
    BY DEF Commit, UpsertTracks
<1>3. Snapshots'  BY <1>1 DEF StoreInv, Snapshots
<1>4. \A t \in DOMAIN active : active[t].last \in Times /\ active[t].last <= now
    BY DEF WInv, OpenWindows, Window
<1>5. EndsPassed'
    <2>1. \A e \in staged : e.last \in Times  BY DEF WInv, OpenWindows, Event
    <2> QED BY <1>1, <1>2, <1>4, <2>1 DEF StoreInv, EndsPassed
<1>6. ASSUME faults = 0, NEW e \in events \union staged
      PROVE  e.track \in DOMAIN rows' /\ rows'[e.track].last >= e.last
    <2>1. e.track \in DOMAIN rows /\ rows[e.track].last >= e.last
        BY <1>6 DEF StoreInv, RowsFollow
    <2>2. rows[e.track].last \in Times /\ e.last \in Times
        BY <2>1 DEF StoreInv, EndsPassed, WInv, OpenWindows, Event
    <2>3. CASE e.track \in DOMAIN active
        <3>1. active[e.track].last >= rows[e.track].last /\ active[e.track].last \in Times
            BY <1>4, <1>6, <2>1, <2>2, <2>3 DEF StoreInv, RowsFollow, Times
        <3>2. rows'[e.track] = active[e.track]  BY <1>2, <2>3
        <3> QED BY <1>2, <2>1, <2>2, <3>1, <3>2 DEF Times
    <2>4. CASE e.track \notin DOMAIN active
        BY <1>2, <2>1, <2>4
    <2> QED BY <2>3, <2>4
<1>7. \A t \in DOMAIN active : t \in DOMAIN rows' /\ rows'[t] = active[t]  BY <1>2
<1>8. \A t \in DOMAIN active : rows'[t].last <= active[t].last
    BY <1>4, <1>7 DEF Times
<1>9. RowsFollow'  BY <1>1, <1>6, <1>7, <1>8 DEF RowsFollow
<1> QED BY <1>3, <1>5, <1>9 DEF StoreInv

LEMMA StepStore == WInv /\ StoreInv /\ [Next]_vars => StoreInv'
<1> SUFFICES ASSUME WInv, StoreInv, [Next]_vars PROVE StoreInv'  OBVIOUS
<1>1. CASE UNCHANGED vars
    BY <1>1 DEF vars, memory, store, StoreInv, Snapshots, EndsPassed, RowsFollow
<1>2. ASSUME NEW ts \in NextFrame, FrameDropped(ts) PROVE StoreInv'
    <2>1. now' = ts /\ ts > now /\ ts \in Nat /\ now \in Nat
        BY <1>2 DEF FrameDropped, NextFrame, WInv, Numbers, Times
    <2>2. Snapshots'  BY <1>2 DEF FrameDropped, store, StoreInv, Snapshots
    <2>3. EndsPassed'
        BY <1>2, <2>1 DEF FrameDropped, store, StoreInv, EndsPassed, Times
    <2>4. faults' # 0  BY <1>2 DEF FrameDropped, WInv, Numbers
    <2> QED BY <2>2, <2>3, <2>4 DEF StoreInv, RowsFollow
<1>3. CASE Commit  BY <1>3, CommitStore
<1>4. CASE Rollback
    <2>1. /\ lost' = lost \union staged /\ staged' = {} /\ events' = events /\ objects' = objects
          /\ rows' = rows /\ now' = now
        BY <1>4 DEF Rollback, store
    <2>2. faults' # 0  BY <1>4 DEF Rollback, WInv, Numbers, StoreInv, RowsFollow
    <2> QED BY <2>1, <2>2 DEF StoreInv, Snapshots, EndsPassed, RowsFollow
<1>5. CASE WorkerRestarts
    <2>1. /\ staged \subseteq lost' /\ lost \subseteq lost' /\ staged' = {}
          /\ events' = events /\ objects' = objects
          /\ rows' = rows /\ now' = now /\ phase' = "idle" /\ faults' = faults /\ active' = << >>
        BY <1>5 DEF WorkerRestarts, store
    <2>2. DOMAIN active' = {}  BY <2>1
    <2>3. Snapshots' /\ EndsPassed'  BY <2>1 DEF StoreInv, Snapshots, EndsPassed
    <2>4. RowsFollow'  BY <2>1, <2>2 DEF StoreInv, RowsFollow
    <2> QED BY <2>3, <2>4 DEF StoreInv
<1>6. ASSUME NEW ts \in NextFrame, NEW matched \in SUBSET DOMAIN tracker, NEW n \in 0..MaxTracks,
             TakenIn(ts, matched, n)
      PROVE  StoreInv'
    BY <1>6, FrameCases, FrameStore
<1> QED BY <1>1, <1>2, <1>3, <1>4, <1>5, <1>6 DEF Next, TakenIn

LEMMA InitStore == Init => StoreInv
<1> SUFFICES ASSUME Init PROVE StoreInv  OBVIOUS
<1>1. /\ DOMAIN active = {} /\ DOMAIN rows = {} /\ phase = "idle"
      /\ staged = {} /\ events = {} /\ objects = {}
    BY DEF Init
<1> QED BY <1>1 DEF StoreInv, Snapshots, EndsPassed, RowsFollow

\* A committed event has its snapshot, a snapshot without one belongs to a lost
\* window, and while nothing fails the Track rows reach the events of their
\* tracks, over any number of frames and restarts.
THEOREM StoreFollows == Spec => []StoreFollowsEvents
<1>1. Init => WInv /\ StoreInv  BY InitWindows, InitStore
<1>2. WInv /\ StoreInv /\ [Next]_vars => (WInv /\ StoreInv)'  BY StepWindows, StepStore
<1>3. WInv /\ StoreInv => StoreFollowsEvents
    BY DEF StoreInv, Snapshots, RowsFollow, StoreFollowsEvents, SnapshotsMatchEvents, TrackRowsFollow
<1> QED BY <1>1, <1>2, <1>3, PTL DEF Spec

-----------------------------------------------------------------------------
(* The sightings *)

\* How long a window may stay open without its track being seen: every frame
\* that failed adds an interval.
Slack(f) == MergeGap + MaxInterval * f

LEMMA SlackGrows ==
    \A f \in Nat : /\ Slack(f) \in Nat /\ Slack(f) > 0
                   /\ Slack(f + 1) = Slack(f) + MaxInterval
                   /\ MergeGap + MaxInterval * (1 + f) = Slack(f) + MaxInterval
<1> SUFFICES ASSUME NEW f \in Nat
             PROVE  /\ Slack(f) \in Nat /\ Slack(f) > 0
                    /\ Slack(f + 1) = Slack(f) + MaxInterval
                    /\ MergeGap + MaxInterval * (1 + f) = Slack(f) + MaxInterval
    OBVIOUS
<1> DEFINE m == MaxInterval * f
<1>1. m \in Nat  BY Constants
<1>2. MaxInterval * (f + 1) = m + MaxInterval /\ MaxInterval * (1 + f) = m + MaxInterval
    BY Constants
<1> HIDE DEF m
<1>3. Slack(f) = MergeGap + m  BY DEF Slack, m
<1> QED BY <1>1, <1>2, <1>3, Constants DEF Slack

\* A window seen from outside: when it is, and what it covers.
WindowsSpan == \A w \in Known : w \in Event /\ w.first <= w.last /\ w.last <= now

\* No window is behind the sightings of its own track.
LastIsLast ==
    \A s \in sightings :
        /\ s.ts \in Times /\ s.ts <= now
        /\ s.life = life /\ s.track \in DOMAIN active => s.ts <= active[s.track].last

NotForgotten == \A t \in DOMAIN active : now - active[t].last < Slack(faults)

\* The failed frames are as many as the times of what they missed, or more.
MissedTimes == {s.ts : s \in missed}
MissedFinite == IsFiniteSet(MissedTimes) /\ MissedByFailures

SightInv ==
    WindowsSpan /\ LastIsLast /\ NotForgotten /\ SightingsKept /\ GapBounded /\ MissedFinite

LEMMA MissedCounted ==
    ASSUME MissedFinite, faults \in Nat, faults' \in Nat, faults' >= faults, NEW ts,
           \A m \in missed' : m \in missed \/ (m.ts = ts /\ faults' = faults + 1)
    PROVE  MissedFinite'
<1> DEFINE M == MissedTimes
<1>1. IsFiniteSet(M) /\ Cardinality(M) <= faults /\ Cardinality(M) \in Nat
    BY FS_CardinalityType DEF MissedFinite, MissedByFailures, MissedTimes
<1>2. CASE missed' \subseteq missed
    <2>1. MissedTimes' \subseteq M  BY <1>2 DEF MissedTimes
    <2>2. IsFiniteSet(MissedTimes') /\ Cardinality(MissedTimes') <= Cardinality(M)
        BY <1>1, <2>1, FS_Subset
    <2>3. Cardinality(MissedTimes') \in Nat  BY <2>2, FS_CardinalityType
    <2> HIDE DEF M
    <2>4. Cardinality(MissedTimes') <= faults'  BY <1>1, <2>2, <2>3
    <2> QED BY <2>2, <2>4 DEF MissedFinite, MissedByFailures, MissedTimes
<1>3. CASE ~(missed' \subseteq missed)
    <2>1. faults' = faults + 1  BY <1>3
    <2>2. MissedTimes' \subseteq M \union {ts}  BY DEF MissedTimes
    <2>3. /\ IsFiniteSet(M \union {ts})
          /\ Cardinality(M \union {ts}) = IF ts \in M THEN Cardinality(M) ELSE Cardinality(M) + 1
        BY <1>1, FS_AddElement
    <2>4. IsFiniteSet(MissedTimes') /\ Cardinality(MissedTimes') <= Cardinality(M \union {ts})
        BY <2>2, <2>3, FS_Subset
    <2>5. Cardinality(MissedTimes') \in Nat  BY <2>4, FS_CardinalityType
    <2> HIDE DEF M
    <2>6. Cardinality(MissedTimes') <= faults'  BY <1>1, <2>1, <2>3, <2>4, <2>5
    <2> QED BY <2>4, <2>6 DEF MissedFinite, MissedByFailures, MissedTimes
<1> QED BY <1>2, <1>3


\* Of what is known nothing is lost by a step that takes no frame in.
LEMMA KnownKept ==
    ASSUME WInv, Commit \/ Rollback \/ WorkerRestarts \/ \E ts \in NextFrame : FrameDropped(ts)
    PROVE  Known' = Known
<1>1. phase = "idle" => staged = {}  BY DEF WInv, OpenWindows
<1>2. CASE Commit  BY <1>2 DEF Commit, memory, Known, Open, EventsOf, EventOf
<1>3. CASE Rollback  BY <1>3 DEF Rollback, memory, store, Known, Open, EventsOf, EventOf
<1>4. CASE WorkerRestarts
    <2>1. DOMAIN active' = {}  BY <1>4 DEF WorkerRestarts
    <2>2. Open' = {}  BY <1>4, <2>1 DEF WorkerRestarts, Open, EventsOf
    <2> QED BY <1>4, <2>2 DEF WorkerRestarts, store, Known, Open
<1>5. CASE \E ts \in NextFrame : FrameDropped(ts)
    BY <1>5 DEF FrameDropped, memory, store, Known, Open, EventsOf, EventOf
<1> QED BY <1>2, <1>3, <1>4, <1>5

\* A bound that holds goes on holding when failures are added.
LEMMA GapKept ==
    ASSUME GapBounded, faults \in Nat, faults' \in Nat, faults' >= faults, Known' = Known,
           sightings' = sightings, \A s \in sightings : s.ts \in Times
    PROVE  GapBounded'
<1>1. MaxInterval * (1 + faults) <= MaxInterval * (1 + faults')
    <2>1. faults' = faults \/ \E d \in Nat : faults' = faults + d  OBVIOUS
    <2>2. PICK d \in Nat : faults' = faults + d  BY <2>1
    <2>3. MaxInterval * (1 + (faults + d)) = MaxInterval * (1 + faults) + MaxInterval * d
        BY Constants
    <2>4. MaxInterval * d \in Nat /\ MaxInterval * (1 + faults) \in Nat  BY Constants
    <2> QED BY <2>2, <2>3, <2>4
<1> DEFINE b == MaxInterval * (1 + faults)
           c == MaxInterval * (1 + faults')
<1>2. b \in Nat /\ c \in Nat
    <2>1. \A i \in Nat : MaxInterval * (1 + i) \in Nat  BY Constants
    <2> QED BY <2>1
<1>3. \A w \in Known, s \in sightings :
        Covers(w, s) /\ s.ts < w.last =>
            \E r \in sightings : Covers(w, r) /\ s.ts < r.ts /\ r.ts < s.ts + MergeGap + b
    BY DEF GapBounded
<1>4. b <= c  BY <1>1
<1> HIDE DEF b, c
<1>5. \A w \in Known, s \in sightings :
        Covers(w, s) /\ s.ts < w.last =>
            \E r \in sightings : Covers(w, r) /\ s.ts < r.ts /\ r.ts < s.ts + MergeGap + c
    BY <1>2, <1>3, <1>4, Constants DEF Times
<1> QED BY <1>5 DEF GapBounded, Covers, Same, c

\* What a frame does to the windows: those outside memory stay, those in it
\* are the tracks' of before and of the frame, as Windows has them.
LEMMA FrameKnown ==
    ASSUME WInv, NEW ts \in NextFrame, NEW matched \in SUBSET DOMAIN tracker, NEW n \in 0..MaxTracks,
           NEW entered \in SUBSET InFrame(matched, n), NEW done,
           Frame(ts, matched, n, entered, done)
    PROVE  /\ Known = events \union lost \union RowsOf(life, active)
           /\ Known' = events \union lost \union RowsOf(life, Windows(ts, entered))
BY FrameOpen DEF Frame, Known

LEMMA FrameSightings ==
    ASSUME WInv, SightInv, NEW ts \in NextFrame, NEW matched \in SUBSET DOMAIN tracker,
           NEW n \in 0..MaxTracks, NEW entered \in SUBSET InFrame(matched, n), NEW done,
           Frame(ts, matched, n, entered, done)
    PROVE  SightInv'
<1> DEFINE seen == entered
           a    == Windows(ts, entered)
           old(t) == [life |-> life, track |-> t, first |-> active[t].first, last |-> active[t].last]
           row(t) == [life |-> life, track |-> t, first |-> a[t].first, last |-> a[t].last]
           sight(t) == [life |-> life, track |-> t, ts |-> ts]
<1>0. counter + n <= MaxTracks  BY DEF Frame
<1>1. ts \in Times /\ ts > now /\ ts <= now + MaxInterval /\ now \in Times
    BY Constants DEF NextFrame, WInv, Numbers
<1>2. /\ DOMAIN a = DOMAIN active \union seen
      /\ seen \subseteq Tracks
      /\ DOMAIN active \subseteq Tracks
    <2>1. DOMAIN a = DOMAIN active \union seen  BY <1>0, SeenFacts
    <2>2. seen \subseteq 1..(counter + n) /\ counter + n \in 0..MaxTracks  BY <1>0, SeenFacts
    <2>3. DOMAIN active \subseteq 1..counter /\ counter \in 0..MaxTracks
        BY DEF WInv, Numbers, OpenWindows
    <2> QED BY <2>1, <2>2, <2>3, Constants DEF Tracks
<1>3. ASSUME NEW t \in DOMAIN a
      PROVE  /\ a[t].first = IF t \in DOMAIN active THEN active[t].first ELSE ts
             /\ a[t].last = IF t \in seen THEN ts ELSE active[t].last
    <2>1. a[t] = [first |-> IF t \in DOMAIN active THEN active[t].first ELSE ts,
                  last  |-> IF t \in seen THEN ts ELSE active[t].last]
        BY <1>2 DEF Seen, Windows
    <2> HIDE DEF a, seen
    <2> QED BY <2>1
<1>4. /\ now' = ts /\ life' = life
      /\ active' = Without(a, done) /\ done \subseteq DOMAIN a
      /\ sightings' = sightings \union {sight(t) : t \in seen}
    BY DEF Frame, Stale
<1>5. /\ Known = events \union lost \union {old(t) : t \in DOMAIN active}
      /\ Known' = events \union lost \union {row(t) : t \in DOMAIN a}
    <2>1. /\ Known = events \union lost \union RowsOf(life, active)
          /\ Known' = events \union lost \union RowsOf(life, a)
        BY FrameKnown
    <2> QED BY ONLY <2>1 DEF RowsOf
<1>6. /\ faults \in Nat /\ faults' \in Nat
      /\ faults' = faults \/ faults' = faults + 1
      /\ \A t \in DOMAIN a \ done : t \in seen \/ ts - a[t].last < MergeGap \/ faults' = faults + 1
    <2>1. faults \in Nat /\ (faults' = faults \/ faults' = faults + 1)
        BY DEF Frame, WInv, Numbers
    <2>2. CASE faults' = faults + 1  BY <2>1, <2>2
    <2>3. CASE faults' # faults + 1
        <3>1. done = Stale(a, ts, seen)  BY <2>3 DEF Frame
        <3>2. \A t \in DOMAIN a : ts - a[t].last \in Int
            <4>1. \A t \in DOMAIN a : a[t] \in Window /\ a[t].last <= ts  BY <1>0, SeenFacts
            <4> HIDE DEF a
            <4>2. \A t \in DOMAIN a : a[t].last \in Times  BY <4>1 DEF Window
            <4> QED BY <1>1, <4>2 DEF Times
        <3>3. \A t \in DOMAIN a \ done : t \in seen \/ ~(ts - a[t].last >= MergeGap)
            BY <3>1 DEF Stale
        <3>4. \A t \in DOMAIN a \ done : t \in seen \/ ts - a[t].last < MergeGap
            BY <3>2, <3>3, Constants
        <3> QED BY <2>1, <3>4
    <2> QED BY <2>2, <2>3
<1> HIDE DEF a, seen
<1>7. ASSUME NEW t \in DOMAIN active
      PROVE  /\ active[t].first \in Times /\ active[t].last \in Times
             /\ active[t].first <= active[t].last /\ active[t].last <= now
             /\ now - active[t].last < Slack(faults)
    <2>1. old(t) \in Known  BY <1>5
    <2>2. old(t).first <= old(t).last  BY <2>1 DEF SightInv, WindowsSpan
    <2> QED BY <2>2 DEF WInv, OpenWindows, Window, SightInv, NotForgotten
<1>8. ASSUME NEW t \in DOMAIN a
      PROVE  /\ a[t].first \in Times /\ a[t].last \in Times
             /\ a[t].first <= a[t].last /\ a[t].last <= ts
    <2>1. t \in seen \/ t \in DOMAIN active  BY <1>2
    <2>2. CASE t \in DOMAIN active  BY <1>1, <1>3, <1>7, <2>2 DEF Times
    <2>3. CASE t \notin DOMAIN active  BY <1>1, <1>3, <2>1, <2>3 DEF Times
    <2> QED BY <2>2, <2>3
<1>9. WindowsSpan'
    <2>1. \A w \in events \union lost : w \in Event /\ w.first <= w.last /\ w.last <= ts
        BY <1>1, <1>5 DEF SightInv, WindowsSpan, Event, Times
    <2>2. \A t \in DOMAIN a : row(t) \in Event /\ row(t).first <= row(t).last /\ row(t).last <= ts
        BY <1>2, <1>8 DEF Event, WInv, Numbers
    <2> QED BY <1>4, <1>5, <2>1, <2>2 DEF WindowsSpan
<1>10. \A s \in sightings : s.ts \in Times /\ s.ts <= now  BY DEF SightInv, LastIsLast
<1>11. LastIsLast'
    <2>1. ASSUME NEW s \in sightings', s.life = life, s.track \in DOMAIN a
          PROVE  s.ts <= a[s.track].last
        <3>1. CASE s.track \in seen
            <4>1. a[s.track].last = ts  BY <1>3, <2>1, <3>1
            <4>2. s.ts = ts \/ s \in sightings  BY <1>4
            <4> QED BY <1>1, <1>10, <4>1, <4>2 DEF Times
        <3>2. CASE s.track \notin seen
            <4>1. s \in sightings  BY <1>4, <3>2
            <4>2. s.track \in DOMAIN active /\ a[s.track].last = active[s.track].last
                BY <1>2, <1>3, <2>1, <3>2
            <4> QED BY <2>1, <4>1, <4>2 DEF SightInv, LastIsLast
        <3> QED BY <3>1, <3>2
    <2>2. \A s \in sightings' : s.ts \in Times /\ s.ts <= ts
        BY <1>1, <1>4, <1>10 DEF Times
    <2>3. DOMAIN active' = DOMAIN a \ done /\ \A t \in DOMAIN active' : active'[t] = a[t]
        BY <1>4 DEF Without
    <2> QED BY <1>4, <2>1, <2>2, <2>3 DEF LastIsLast
<1>12. Slack(faults) \in Nat /\ Slack(faults) > 0 /\ Slack(faults + 1) = Slack(faults) + MaxInterval
       /\ MergeGap <= Slack(faults)
    <2>1. MaxInterval * faults \in Nat  BY <1>6, Constants
    <2>2. MergeGap <= Slack(faults)  BY <2>1, Constants DEF Slack
    <2> QED BY <1>6, <2>2, SlackGrows
<1>13. NotForgotten'
    <2>1. DOMAIN active' = DOMAIN a \ done /\ \A t \in DOMAIN active' : active'[t] = a[t]
        BY <1>4 DEF Without
    <2>2. Slack(faults)' = Slack(faults')  BY DEF Slack
    <2> SUFFICES ASSUME NEW t \in DOMAIN a \ done PROVE ts - a[t].last < Slack(faults')
        BY <1>4, <2>1, <2>2 DEF NotForgotten
    <2>3. CASE t \in seen
        <3>1. a[t].last = ts  BY <1>3, <2>3
        <3> QED BY <1>1, <1>6, <1>12, <3>1, Constants DEF Times
    <2>4. CASE t \notin seen
        <3>1. t \in DOMAIN active /\ a[t].last = active[t].last  BY <1>2, <1>3, <2>4
        <3>2. now - a[t].last < Slack(faults) /\ a[t].last \in Times  BY <1>7, <3>1
        <3>3. ts - a[t].last < MergeGap \/ faults' = faults + 1  BY <1>6, <2>4
        <3> QED BY <1>1, <1>6, <1>12, <3>2, <3>3, Constants DEF Times
    <2> QED BY <2>3, <2>4
<1>14. SightingsKept'
    <2>1. ASSUME NEW s \in sightings PROVE \E v \in Known' : Covers(v, s)
        <3>1. PICK w \in Known : Covers(w, s)  BY DEF SightInv, SightingsKept
        <3>2. CASE w \in events \union lost  BY <1>5, <3>1, <3>2
        <3>3. ASSUME NEW t \in DOMAIN active, w = old(t) PROVE \E v \in Known' : Covers(v, s)
            <4>1. row(t) \in Known'  BY <1>2, <1>5
            <4>2. /\ s.life = life /\ s.track = t /\ s.ts \in Times
                  /\ active[t].first <= s.ts /\ s.ts <= active[t].last
                BY <1>7, <1>10, <3>1, <3>3 DEF Covers, Same, Times
            <4>3. a[t].first = active[t].first /\ a[t].last >= active[t].last
                BY <1>1, <1>2, <1>3, <1>7 DEF Times
            <4>4. Covers(row(t), s)
                BY <1>2, <1>7, <1>8, <4>2, <4>3 DEF Covers, Same, Times
            <4> QED BY <4>1, <4>4
        <3> QED BY <1>5, <3>2, <3>3
    <2>2. ASSUME NEW t \in seen PROVE \E v \in Known' : Covers(v, sight(t))
        <3>1. row(t) \in Known'  BY <1>2, <1>5
        <3>2. a[t].last = ts /\ a[t].first <= ts /\ a[t].first \in Times
            BY <1>2, <1>3, <1>8
        <3>3. Covers(row(t), sight(t))  BY <1>1, <3>2 DEF Covers, Same, Times
        <3> QED BY <3>1, <3>3
    <2> QED BY <1>4, <2>1, <2>2 DEF SightingsKept, Covers, Same
<1>15. GapBounded'
    <2> DEFINE b == MaxInterval * (1 + faults)
               c == MaxInterval * (1 + faults')
    <2>1. /\ MergeGap + b = Slack(faults) + MaxInterval
          /\ MergeGap + c = Slack(faults') + MaxInterval
          /\ b \in Nat /\ c \in Nat
        <3>1. \A i \in Nat : MaxInterval * (1 + i) \in Nat  BY Constants
        <3> QED BY <1>6, <3>1, SlackGrows
    <2>2. b <= c
        <3>1. Slack(faults) <= Slack(faults')  BY <1>6, <1>12, Constants
        <3>2. Slack(faults) \in Nat /\ Slack(faults') \in Nat  BY <1>6, SlackGrows
        <3> HIDE DEF b, c
        <3> QED BY <2>1, <3>1, <3>2, Constants
    <2>3. \A w \in Known, s \in sightings :
            Covers(w, s) /\ s.ts < w.last =>
                \E r \in sightings : Covers(w, r) /\ s.ts < r.ts /\ r.ts < s.ts + MergeGap + b
        BY DEF SightInv, GapBounded
    <2> HIDE DEF b, c
    <2>4. ASSUME NEW v \in Known', NEW s \in sightings', Covers(v, s), s.ts < v.last
          PROVE  \E r \in sightings' : Covers(v, r) /\ s.ts < r.ts /\ r.ts < s.ts + MergeGap + c
        <3>1. v.last <= ts /\ v.last \in Times  BY <1>4, <1>9 DEF WindowsSpan, Event
        <3>2. s \in sightings  BY <1>1, <1>4, <2>4, <3>1 DEF Times
        <3>3. s.ts \in Times /\ s.ts <= now  BY <1>10, <3>2
        <3>4. CASE v \in events \union lost
            <4>1. v \in Known  BY <1>5, <3>4
            <4>2. PICK r \in sightings : Covers(v, r) /\ s.ts < r.ts /\ r.ts < s.ts + MergeGap + b
                BY <2>3, <2>4, <3>2, <4>1
            <4>3. r.ts < s.ts + MergeGap + c
                BY <1>10, <2>1, <2>2, <3>3, <4>2, Constants DEF Times
            <4> QED BY <1>4, <4>2, <4>3
        <3>5. ASSUME NEW t \in DOMAIN a, v = row(t)
              PROVE  \E r \in sightings' : Covers(v, r) /\ s.ts < r.ts /\ r.ts < s.ts + MergeGap + c
            <4>1. /\ s.life = life /\ s.track = t
                  /\ a[t].first <= s.ts /\ s.ts < a[t].last
                BY <1>8, <2>4, <3>3, <3>5 DEF Covers, Same, Times
            <4>2. t \in DOMAIN active
                BY <1>1, <1>3, <3>3, <4>1 DEF Times
            <4>3. s.ts <= active[t].last  BY <3>2, <4>1, <4>2 DEF SightInv, LastIsLast
            <4>4. old(t) \in Known /\ a[t].first = active[t].first  BY <1>3, <1>5, <4>2
            <4>5. CASE s.ts < active[t].last
                <5>1. Covers(old(t), s)
                    BY <1>7, <3>3, <4>1, <4>2, <4>4, <4>5 DEF Covers, Same, Times
                <5>2. PICK r \in sightings : Covers(old(t), r) /\ s.ts < r.ts /\ r.ts < s.ts + MergeGap + b
                    BY <2>3, <3>2, <4>4, <4>5, <5>1
                <5>3. r.ts < s.ts + MergeGap + c
                    BY <1>10, <2>1, <2>2, <3>3, <5>2, Constants DEF Times
                <5>4. a[t].last >= active[t].last  BY <1>1, <1>3, <1>7, <4>2 DEF Times
                <5>5. r.life = life /\ r.track = t /\ active[t].first <= r.ts /\ r.ts <= active[t].last
                    BY <1>7, <1>10, <4>2, <5>2 DEF Covers, Same, Times
                <5>6. Covers(row(t), r)
                    BY <1>7, <1>8, <1>10, <4>2, <4>4, <5>4, <5>5 DEF Covers, Same, Times
                <5> QED BY <1>4, <3>5, <5>2, <5>3, <5>6
            <4>6. CASE s.ts = active[t].last
                <5>1. t \in seen /\ a[t].last = ts  BY <1>3, <3>3, <4>1, <4>6 DEF Times
                <5>2. sight(t) \in sightings'  BY <1>4, <5>1
                <5>3. Covers(row(t), sight(t))
                    BY <1>1, <1>8, <5>1 DEF Covers, Same, Times
                <5>4. now - s.ts < Slack(faults)  BY <1>7, <4>2, <4>6
                <5>5. ts < s.ts + MergeGap + b
                    BY <1>1, <1>12, <2>1, <3>3, <5>4, Constants DEF Times
                <5>6. ts < s.ts + MergeGap + c
                    BY <1>1, <2>1, <2>2, <3>3, <5>5, Constants DEF Times
                <5>7. s.ts < ts  BY <1>1, <3>3 DEF Times
                <5> QED BY <3>5, <5>2, <5>3, <5>6, <5>7
            <4> QED BY <1>7, <3>3, <4>2, <4>3, <4>5, <4>6 DEF Times
        <3> QED BY <1>5, <3>4, <3>5
    <2> QED BY <2>4 DEF GapBounded, Covers, Same, c
<1>16. MissedFinite'
    <2>1. \A m \in missed' : m \in missed \/ (m.ts = ts /\ faults' = faults + 1)  BY DEF Frame
    <2>2. faults' >= faults  BY <1>6
    <2>3. MissedFinite  BY DEF SightInv
    <2> QED BY <1>6, <2>1, <2>2, <2>3, MissedCounted
<1> QED BY <1>9, <1>11, <1>13, <1>14, <1>15, <1>16 DEF SightInv

LEMMA StepSightings == WInv /\ SightInv /\ [Next]_vars => SightInv'
<1> SUFFICES ASSUME WInv, SightInv, [Next]_vars PROVE SightInv'  OBVIOUS
<1>1. CASE UNCHANGED vars
    <2>1. /\ Known' = Known /\ sightings' = sightings /\ now' = now /\ life' = life
          /\ active' = active /\ faults' = faults
        BY <1>1 DEF vars, memory, store, observed, Known, Open, EventsOf, EventOf
    <2>2. MissedFinite'
        BY <1>1 DEF vars, observed, SightInv, MissedFinite, MissedTimes, MissedByFailures
    <2> QED BY <2>1, <2>2 DEF SightInv, WindowsSpan, LastIsLast, NotForgotten, SightingsKept,
                        GapBounded, Covers, Same, Slack
<1>2. CASE Commit \/ Rollback \/ WorkerRestarts \/ \E ts \in NextFrame : FrameDropped(ts)
    <2>1. Known' = Known  BY <1>2, KnownKept
    <2>2. /\ sightings' = sightings /\ faults \in Nat /\ faults' \in Nat
          /\ faults' = faults \/ faults' = faults + 1
          /\ now \in Times /\ now' \in Times /\ now' >= now
        BY <1>2 DEF Commit, Rollback, WorkerRestarts, FrameDropped, observed, NextFrame, WInv, Numbers, Times
    <2>3. WindowsSpan'
        BY <2>1, <2>2 DEF SightInv, WindowsSpan, Event, Times
    <2>4. \/ active' = active /\ life' = life
          \/ DOMAIN active' = {}
        BY <1>2 DEF Commit, Rollback, WorkerRestarts, FrameDropped, memory
    <2>5. LastIsLast'
        <3>1. \A s \in sightings : s.ts \in Times /\ s.ts <= now  BY DEF SightInv, LastIsLast
        <3>2. \A s \in sightings' : s.ts \in Times /\ s.ts <= now'
            BY <2>2, <3>1 DEF Times
        <3> QED BY <2>2, <2>4, <3>2 DEF SightInv, LastIsLast
    <2>6. NotForgotten'
        <3>1. Slack(faults)' = Slack(faults')  BY DEF Slack
        <3>2. now' = now \/ (now' <= now + MaxInterval /\ faults' = faults + 1)
            BY <1>2 DEF Commit, Rollback, WorkerRestarts, FrameDropped, NextFrame
        <3>3. /\ Slack(faults) \in Nat /\ Slack(faults') \in Nat
              /\ Slack(faults + 1) = Slack(faults) + MaxInterval
            BY <2>2, SlackGrows
        <3>4. ASSUME NEW t \in DOMAIN active
              PROVE  now' - active[t].last < Slack(faults')
            <4>1. now - active[t].last < Slack(faults) /\ active[t].last \in Times
                BY DEF SightInv, NotForgotten, WInv, OpenWindows, Window
            <4> QED BY <2>2, <3>2, <3>3, <4>1, Constants DEF Times
        <3> QED BY <2>4, <3>1, <3>4 DEF NotForgotten
    <2>7. SightingsKept'
        BY <2>1, <2>2 DEF SightInv, SightingsKept, Covers, Same
    <2>8. GapBounded'
        BY <2>1, <2>2, GapKept DEF SightInv, LastIsLast
    <2>9. MissedFinite'
        <3>1. missed' = missed
            BY <1>2 DEF Commit, Rollback, WorkerRestarts, FrameDropped, observed
        <3>2. MissedFinite /\ faults' >= faults  BY <2>2 DEF SightInv
        <3> QED BY <2>2, <3>1, <3>2, MissedCounted
    <2> QED BY <2>3, <2>5, <2>6, <2>7, <2>8, <2>9 DEF SightInv
<1>3. ASSUME NEW ts \in NextFrame, NEW matched \in SUBSET DOMAIN tracker, NEW n \in 0..MaxTracks,
             TakenIn(ts, matched, n)
      PROVE  SightInv'
    BY <1>3, FrameCases, FrameSightings
<1> QED BY <1>1, <1>2, <1>3 DEF Next, TakenIn

LEMMA InitSightings == Init => SightInv
<1> SUFFICES ASSUME Init PROVE SightInv  OBVIOUS
<1>1. DOMAIN active = {} /\ staged = {} /\ events = {} /\ lost = {} /\ sightings = {}
    BY DEF Init
<1>2. Known = {}  BY <1>1 DEF Known, Open, EventsOf
<1>3. MissedFinite
    <2>1. missed = {} /\ faults = 0  BY DEF Init
    <2>2. MissedTimes = {}  BY <2>1 DEF MissedTimes
    <2> QED BY <2>1, <2>2, FS_EmptySet DEF MissedFinite, MissedByFailures, MissedTimes
<1> QED BY <1>1, <1>2, <1>3
        DEF SightInv, WindowsSpan, LastIsLast, NotForgotten, SightingsKept, GapBounded

\* Every sighting entered in _active lies in an event, an open window or one that
\* a failure or a restart has cost; those that were not entered are of no more
\* frames than have failed; and no window bridges more time than the gap, a
\* frame's interval and those of the frames that failed (pipeline.py 286-400).
THEOREM NoSightingForgotten == Spec => []SightingsAccounted
<1>1. Init => WInv /\ SightInv  BY InitWindows, InitSightings
<1>2. WInv /\ SightInv /\ [Next]_vars => (WInv /\ SightInv)'  BY StepWindows, StepSightings
<1>3. SightInv => SightingsAccounted  BY DEF SightInv, MissedFinite, SightingsAccounted
<1> QED BY <1>1, <1>2, <1>3, PTL DEF Spec

-----------------------------------------------------------------------------
(* Types *)

\* What is left of the type invariant: the ages of tracks, the rows, the faults.
Remaining ==
    /\ faults \in 0..MaxFaults
    /\ \A t \in DOMAIN tracker : tracker[t] \in 0..MaxAge
    /\ DOMAIN rows \subseteq Tracks /\ \A t \in DOMAIN rows : rows[t] \in Window

\* A track is kept only as long as it is no older than MaxAge.
LEMMA AgesKept ==
    ASSUME WInv, Remaining, NEW ts \in NextFrame, NEW matched \in SUBSET DOMAIN tracker,
           NEW n \in 0..MaxTracks, NEW entered, Tracked(ts, matched, n, entered)
    PROVE  \A t \in DOMAIN tracker' : tracker'[t] \in 0..MaxAge
<1>1. CASE UNCHANGED tracker  BY <1>1 DEF Remaining
<1>2. CASE Update(matched, Fresh(n))
    <2>1. \A t \in DOMAIN tracker' :
            tracker'[t] = AgeAfter(t, matched) /\ AgeAfter(t, matched) <= MaxAge
        BY <1>2 DEF Update
    <2>2. \A t : AgeAfter(t, matched) \in Nat  BY Constants DEF AgeAfter, Remaining
    <2> QED BY <2>1, <2>2, Constants
<1> QED BY <1>1, <1>2 DEF Tracked

LEMMA FaultCounted ==
    ASSUME Remaining, faults < MaxFaults, faults' = faults + 1
    PROVE  faults' \in 0..MaxFaults
BY Constants DEF Remaining

LEMMA StepRemaining == WInv /\ Remaining /\ [Next]_vars => Remaining'
<1> SUFFICES ASSUME WInv, Remaining, [Next]_vars PROVE Remaining'  OBVIOUS
<1>1. ASSUME NEW ts \in NextFrame, NEW matched \in SUBSET DOMAIN tracker, NEW n \in 0..MaxTracks,
             TakenIn(ts, matched, n)
      PROVE  Remaining'
    <2>1. \E entered : Tracked(ts, matched, n, entered)
        BY <1>1 DEF TakenIn, ProcessFrame, FrameRaises, FrameFails
    <2>2. faults' \in 0..MaxFaults
        BY <1>1, FaultCounted DEF TakenIn, ProcessFrame, FrameRaises, FrameFails, Remaining
    <2>3. rows' = rows  BY <2>1 DEF Tracked
    <2>4. \A t \in DOMAIN tracker' : tracker'[t] \in 0..MaxAge  BY <2>1, AgesKept
    <2> QED BY <2>2, <2>3, <2>4 DEF Remaining
<1>2. ASSUME NEW ts \in NextFrame, FrameDropped(ts) PROVE Remaining'
    BY <1>2, FaultCounted DEF FrameDropped, memory, store, Remaining
<1>3. CASE Commit
    <2>1. /\ DOMAIN rows' = DOMAIN rows \union DOMAIN active
          /\ \A t \in DOMAIN rows' : rows'[t] = IF t \in DOMAIN active THEN active[t] ELSE rows[t]
          /\ UNCHANGED <<faults, tracker>>
        BY <1>3 DEF Commit, UpsertTracks, memory
    <2>2. DOMAIN active \subseteq Tracks /\ \A t \in DOMAIN active : active[t] \in Window
        BY Constants DEF WInv, Numbers, OpenWindows, Tracks
    <2> QED BY <2>1, <2>2 DEF Remaining
<1>4. CASE Rollback
    BY <1>4, FaultCounted DEF Rollback, memory, store, Remaining
<1>5. CASE WorkerRestarts
    <2>1. DOMAIN tracker' = {} /\ UNCHANGED <<faults, rows>>  BY <1>5 DEF WorkerRestarts, store
    <2> QED BY <2>1 DEF Remaining
<1>6. CASE UNCHANGED vars  BY <1>6 DEF vars, memory, store, Remaining
<1> QED BY <1>1, <1>2, <1>3, <1>4, <1>5, <1>6 DEF Next, TakenIn

\* Every reachable state of tracker, windows, transaction and store is well
\* typed, for all gaps, frames, failures and restarts.
THEOREM PipelineTypeCorrect == Spec => []TypeOK
<1>1. WInv /\ StoreInv /\ SightInv /\ Remaining => TypeOK
    <2> SUFFICES ASSUME WInv, StoreInv, SightInv, Remaining PROVE TypeOK  OBVIOUS
    <2>1. objects \subseteq Known  BY DEF StoreInv, Snapshots, Known, Open
    <2>2. Known \union objects \subseteq Event /\ \A w \in Known : w.first <= w.last /\ w.last <= now
        BY <2>1 DEF SightInv, WindowsSpan
    <2> QED BY <2>2 DEF TypeOK, WInv, Numbers, OpenWindows, Remaining
<1>2. Init => WInv /\ StoreInv /\ SightInv /\ Remaining
    <2> SUFFICES ASSUME Init PROVE Remaining  BY InitWindows, InitStore, InitSightings
    <2>1. DOMAIN tracker = {} /\ DOMAIN rows = {} /\ faults = 0  BY DEF Init
    <2> QED BY <2>1, Constants DEF Remaining
<1>3. WInv /\ StoreInv /\ SightInv /\ Remaining /\ [Next]_vars
      => (WInv /\ StoreInv /\ SightInv /\ Remaining)'
    BY StepWindows, StepStore, StepSightings, StepRemaining
<1> QED BY <1>1, <1>2, <1>3, PTL DEF Spec

=============================================================================
