--------------------------- MODULE EnrollmentCache ----------------------------
(***************************************************************************)
(* Who a camera knows: persons and their reference embeddings               *)
(* (apps/api/routers/persons.py), the decrypted copy of the embeddings each *)
(* camera keeps (CameraPipeline._refresh_enrolled, packages/ai/pipeline.py) *)
(* and what a recognition leaves in the windows, track rows and events.     *)
(* Faces and vectors are abstracted: a recognition names any person with a  *)
(* vector in the copy, or nobody ("unknown", "uncertain" or no face).       *)
(* Time is kept as ages, so nothing bounds how long the camera runs.        *)
(***************************************************************************)
EXTENDS Integers, FiniteSets

CONSTANTS
    Person,         \* the ids Person rows may get; none is given out twice
    Nobody,         \* a recognition without a name
    Ttl,            \* _ENROLLED_TTL, in ticks
    Interval,       \* recognize_interval_sec
    MergeGap,       \* merge_gap_seconds
    MaxEmbeddings,  \* bound: references uploaded
    MaxTracks       \* bound: windows opened

ASSUME EnrollmentAssumption ==
    /\ Nobody \notin Person
    /\ {Ttl, Interval, MergeGap} \subseteq Nat \ {0}
    /\ {MaxEmbeddings, MaxTracks} \subseteq Nat

VARIABLES
    persons,    \* Person rows
    erased,     \* history: the persons deleted
    embeddings, \* PersonEmbedding rows: [id, person]
    nextId,     \* the id of the next row; ids grow with created_at
    thisSecond, \* rows whose created_at is the current second
    upload,     \* add_reference between its read of the person and its insert
    enrolled,   \* _enrolled: copies of rows
    newer,      \* rows with created_at > _enrolled_watermark
    marked,     \* _enrolled_watermark is the current second
    age,        \* ticks since _enrolled_at
    active,     \* _active: track -> [unseen, recognition, since]
    tracks,     \* windows opened so far
    events,     \* presence events: [track, identity]
    lost,       \* history: windows closed whose event was rolled back
    failing,    \* the last frame's transaction was rolled back
    matched     \* history: <<track, person>> of every recognition

store  == <<persons, erased, embeddings, nextId, thisSecond>>
cache  == <<enrolled, newer, marked, age>>
camera == <<active, tracks, events, lost, failing, matched>>
enrollmentVars == <<store, upload, cache, camera>>

Names == Person \union {Nobody}
Embedding == [id : 1..MaxEmbeddings, person : Person]
Window == [unseen : 0..MergeGap, recognition : Names, since : 0..Interval]

AtMost(n, bound) == IF n < bound THEN n ELSE bound

EnrollmentInit ==
    /\ persons = {} /\ erased = {} /\ embeddings = {} /\ nextId = 1
    /\ thisSecond = {} /\ upload = Nobody
    /\ enrolled = {} /\ newer = {} /\ marked = FALSE /\ age = Ttl + 1
    /\ active = << >> /\ tracks = 0 /\ events = {} /\ lost = {}
    /\ failing = FALSE /\ matched = {}

-----------------------------------------------------------------------------
(* The API *)

CreatePerson(p) ==
    /\ p \notin persons \union erased
    /\ persons' = persons \union {p}
    /\ UNCHANGED <<erased, embeddings, nextId, thisSecond, upload, cache, camera>>

\* add_reference finds the person, then awaits the uploaded file.
AddReferenceRead(p) ==
    /\ upload = Nobody /\ p \in persons
    /\ upload' = p
    /\ UNCHANGED <<store, cache, camera>>

Insert(p) ==
    LET row == [id |-> nextId, person |-> p]
    IN  /\ nextId <= MaxEmbeddings
        /\ embeddings' = embeddings \union {row}
        /\ nextId' = nextId + 1
        /\ thisSecond' = thisSecond \union {row}
        /\ newer' = IF marked THEN newer ELSE newer \union {row}

\* The row goes in; created_at is the second of the insert.
AddReferenceInsert ==
    /\ upload \in persons
    /\ Insert(upload)
    /\ upload' = Nobody
    /\ UNCHANGED <<persons, erased, enrolled, marked, age, camera>>

\* No face in the upload, or the person went while it was read: the foreign
\* key refuses the row.
AddReferenceFails ==
    /\ upload # Nobody
    /\ upload' = Nobody
    /\ UNCHANGED <<store, cache, camera>>

Drop(rows) ==
    /\ embeddings' = embeddings \ rows
    /\ thisSecond' = thisSecond \ rows
    /\ newer' = newer \ rows

\* Faulty variant: an event keeps the id of a person that is gone.
KeepIdentity(p) == events

\* Event.identity_id is SET NULL (Track.identity_id likewise).
ClearIdentity(p) ==
    {IF e.identity = p THEN [e EXCEPT !.identity = Nobody] ELSE e : e \in events}

\* delete_person: the embeddings go with the row.  No camera is told.
DeletePerson(p) ==
    /\ p \in persons
    /\ persons' = persons \ {p}
    /\ erased' = erased \union {p}
    /\ Drop({r \in embeddings : r.person = p})
    /\ events' = ClearIdentity(p)
    /\ UNCHANGED <<nextId, upload, enrolled, marked, age,
                   active, tracks, lost, failing, matched>>

\* The retention sweep removes the embeddings older than its cut.
SweepEmbeddings ==
    \E cut \in 1..MaxEmbeddings :
        LET old == {r \in embeddings : r.id <= cut}
        IN  /\ old # {} /\ old \intersect thisSecond = {}
            /\ Drop(old)
            /\ UNCHANGED <<persons, erased, nextId, upload, enrolled, marked, age, camera>>

-----------------------------------------------------------------------------
(* _refresh_enrolled: the copy is looked at again when it is older than the *)
(* TTL, and read again unless max(created_at) is not past the watermark.    *)

\* Faulty variant: a copy that holds anything is kept.
SkipIfAny(fresh) == enrolled # {}

\* `fresh`: the rows past the watermark.  After a delete there may be none.
Skip(fresh) == enrolled # {} /\ embeddings # {} /\ fresh = {}

AgeAfter(tick) == IF age + tick <= Ttl THEN age + tick ELSE 0

Refresh(tick) ==
    /\ age' = AgeAfter(tick)
    /\ IF age + tick <= Ttl \/ Skip(newer)
         THEN marked' = (marked /\ tick = 0) /\ UNCHANGED <<enrolled, newer>>
         ELSE /\ enrolled' = embeddings /\ newer' = {}
              /\ marked' = (tick = 0 /\ thisSecond # {})

-----------------------------------------------------------------------------
(* process_frame: the windows *)

Known == {r.person : r \in enrolled'}

NewWindow == [unseen |-> 0, recognition |-> Nobody, since |-> Interval]

Aged(w, tick) == [unseen |-> AtMost(w.unseen + tick, MergeGap),
                  recognition |-> w.recognition,
                  since |-> AtMost(w.since + tick, Interval)]

\* The last recognition replaces the one before, a face turned away included.
Recognised(w, who) == [unseen |-> w.unseen, recognition |-> who, since |-> 0]

\* _active once the frame's tracks are in; `who` names the ones recognised.
Seen(tick, seen, opened, who) ==
    [t \in DOMAIN active \union opened |->
        LET w == IF t \in opened THEN NewWindow ELSE Aged(active[t], tick)
            v == IF t \in seen THEN [w EXCEPT !.unseen = 0] ELSE w
        IN  IF t \in DOMAIN who THEN Recognised(v, who[t]) ELSE v]

\* _should_recognize, of the tracks in the frame.
Due(tick, seen) ==
    {t \in seen : t \in DOMAIN active => active[t].since + tick >= Interval}

Without(f, S) == [t \in DOMAIN f \ S |-> f[t]]
Stale(a, seen) == {t \in DOMAIN a \ seen : a[t].unseen >= MergeGap}

\* A row that names this window's person breaks the foreign key.
Unstorable(a) == {t \in DOMAIN a : a[t].recognition \notin persons \union {Nobody}}

\* Faulty variant: every event is filled from the first window.
EventsOfFirst(a, S) ==
    {[track |-> t, identity |-> a[CHOOSE u \in DOMAIN a : TRUE].recognition] : t \in S}

EventsOf(a, S) == {[track |-> t, identity |-> a[t].recognition] : t \in S}

\* Every window's row can be stored: the frame commits.
Commit(a, stale) ==
    /\ Unstorable(a) = {}
    /\ active' = Without(a, stale)
    /\ events' = events \union EventsOf(a, stale)
    /\ failing' = FALSE
    /\ UNCHANGED lost

\* A stale window's event is refused at its flush: the windows finalised
\* before it have left _active, it stays.
FinalizeRaises(a, stale) ==
    \E bad \in stale \intersect Unstorable(a) : \E done \in SUBSET (stale \ Unstorable(a)) :
        /\ active' = Without(a, done)
        /\ lost' = lost \union done
        /\ failing' = TRUE
        /\ UNCHANGED events

\* The stale windows are finalised, then the Track row of an active one is
\* refused: their events are rolled back.
UpsertRaises(a, stale) ==
    /\ Unstorable(a) # {} /\ stale \intersect Unstorable(a) = {}
    /\ active' = Without(a, stale)
    /\ lost' = lost \union stale
    /\ failing' = TRUE
    /\ UNCHANGED events

\* One frame, in the same second as the last (tick = 0) or a tick later.
Frame(tick) ==
    \E n \in 0..1, again \in SUBSET DOMAIN active :
    LET opened == (tracks + 1)..(tracks + n)
        seen   == again \union opened
    IN  /\ tracks + n <= MaxTracks
        /\ Refresh(tick)
        /\ \E who \in [Due(tick, seen) -> Known \union {Nobody}] :
             LET a == Seen(tick, seen, opened, who)
             IN  /\ \/ Commit(a, Stale(a, seen))
                    \/ FinalizeRaises(a, Stale(a, seen))
                    \/ UpsertRaises(a, Stale(a, seen))
                 /\ matched' = matched \union {<<t, who[t]>> : t \in {u \in DOMAIN who : who[u] # Nobody}}
        /\ tracks' = tracks + n
        /\ thisSecond' = IF tick = 0 THEN thisSecond ELSE {}
        /\ UNCHANGED <<persons, erased, embeddings, nextId, upload>>

EnrollmentNext ==
    \/ \E p \in Person : CreatePerson(p) \/ AddReferenceRead(p) \/ DeletePerson(p)
    \/ AddReferenceInsert \/ AddReferenceFails \/ SweepEmbeddings
    \/ \E tick \in 0..1 : Frame(tick)

EnrollmentSpec == EnrollmentInit /\ [][EnrollmentNext]_enrollmentVars

\* The camera delivers frames and time passes; nobody has to enrol or erase.
FairEnrollment == EnrollmentSpec /\ WF_enrollmentVars(Frame(1))

-----------------------------------------------------------------------------
EnrollmentTypeOK ==
    /\ persons \subseteq Person /\ erased \subseteq Person
    /\ embeddings \subseteq Embedding /\ nextId \in 1..(MaxEmbeddings + 1)
    /\ thisSecond \subseteq embeddings /\ newer \subseteq embeddings
    /\ upload \in Names
    /\ enrolled \subseteq Embedding /\ marked \in BOOLEAN /\ age \in 0..(Ttl + 1)
    /\ tracks \in 0..MaxTracks
    /\ DOMAIN active \subseteq 1..tracks
    /\ \A t \in DOMAIN active : active[t] \in Window
    /\ events \subseteq [track : 1..tracks, identity : Names]
    /\ lost \subseteq 1..tracks /\ failing \in BOOLEAN
    /\ matched \subseteq (1..tracks) \X Person

\* No stored row outlives its person: the references of a deleted person go
\* with it, one uploaded while it was deleted is refused, and events that
\* named it name nobody (models.py 156-168, 217-219; persons.py 97-136).
NothingNamesErased ==
    /\ \A r \in embeddings : r.person \in persons
    /\ \A e \in events : e.identity \in persons \union {Nobody}

\* An event names a person only if a recognition of that very window did
\* (pipeline.py 345-348, 417-424).
EventsNameWhoWasSeen ==
    \A e \in events : e.identity # Nobody => <<e.track, e.identity>> \in matched

\* A reference created in a later second than the copy's newest one reaches
\* the camera, unless it is removed first (pipeline.py 249-266).
CameraCatchesUp ==
    \A i \in 1..MaxEmbeddings :
        (\E r \in newer : r.id = i)
            ~> (\E r \in enrolled : r.id = i) \/ (\A r \in embeddings : r.id # i)

Copied(p) == \E r \in enrolled : r.person = p

\* A frame that is rolled back is followed by one that is stored.  Does not
\* hold: a window left behind by its track that names an erased person is
\* refused at every flush and never leaves _active, so no later frame of the
\* camera commits until the worker restarts (pipeline.py 385-398, 417-431).
FailureEnds == failing ~> ~failing

\* "the biometric data class must not outlive its subject" (models.py 157).
\* Does not hold of the cameras: a delete leaves no row past the watermark, so
\* the copy keeps the vectors until the next reference is enrolled.
ErasedForgotten == \A p \in Person : (p \in erased /\ Copied(p)) ~> ~Copied(p)

=============================================================================
