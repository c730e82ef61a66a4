----------------------- MODULE RecordingArchiveProofs -----------------------
(***************************************************************************)
(* Proofs that the safety properties of RecordingArchive hold for every     *)
(* segment length, key window, retention, chunk size and bound.             *)
(***************************************************************************)
EXTENDS RecordingArchive, TLAPS

\* segment_boundary floors: it never moves a time forward, and moves it back
\* by less than the width of the bucket.
LEMMA BoundaryBounds ==
    ASSUME NEW t \in Nat, NEW width \in Nat \ {0}
    PROVE  /\ segment_boundary(t, width) \in 0..t
           /\ t < segment_boundary(t, width) + width
<1>1. (t \div width) * width \in Nat  OBVIOUS
<1>2. (t \div width) * width <= t  OBVIOUS
<1>3. t < (t \div width) * width + width  OBVIOUS
<1> QED BY <1>1, <1>2, <1>3 DEF segment_boundary

\* The same for keys, which are boundaries of the key window.
LEMMA KeyBounds ==
    ASSUME NEW t \in Time
    PROVE  /\ segment_key(t) \in Keys
           /\ segment_key(t) \in Time
           /\ segment_key(t) <= t
           /\ t < segment_key(t) + KeySeconds
<1>1. t \in Nat  BY BoundAssumption DEF Time
<1>2. segment_key(t) \in 0..t /\ t < segment_key(t) + KeySeconds
    BY <1>1, BoundaryBounds, WidthAssumption DEF segment_key
<1> QED BY <1>1, <1>2, BoundAssumption DEF Keys, Time

\* A scheduled segment is a row, whose start is the bucket of its launch.
LEMMA ScheduledRow ==
    ASSUME NEW t \in Time, NEW i \in Ids
    PROVE  /\ Scheduled(i, t) \in Row
           /\ Scheduled(i, t).id = i
           /\ Scheduled(i, t).start = segment_boundary(t, SegSeconds)
           /\ Scheduled(i, t).key = segment_key(segment_boundary(t, SegSeconds))
           /\ Scheduled(i, t).start <= Scheduled(i, t).end
           /\ Scheduled(i, t).end <= Scheduled(i, t).start + SegSeconds
<1> DEFINE start == segment_boundary(t, SegSeconds)
<1>1. t \in Nat  BY BoundAssumption DEF Time
<1>2. start \in 0..t  BY <1>1, BoundaryBounds, WidthAssumption
<1>3. start \in Time  BY <1>1, <1>2, BoundAssumption DEF Time
<1>4. segment_key(start) \in Keys  BY <1>3, KeyBounds
<1>5. start + SegSeconds \in Int /\ start <= start + SegSeconds /\ start \in Int
    BY <1>2, WidthAssumption
<1>6. Scheduled(i, t) = [id |-> i, key |-> segment_key(start), start |-> start,
                         end |-> start + SegSeconds]
    BY DEF Scheduled
<1> HIDE DEF start
<1>7. Scheduled(i, t) \in Row  BY <1>3, <1>4, <1>5, <1>6 DEF Row
<1> QED BY <1>5, <1>6, <1>7 DEF start

\* Every key window begins at a time on the clock.
LEMMA KeysAreTimes == Keys \subseteq Time
BY KeyBounds DEF Keys

-----------------------------------------------------------------------------
(* Type correctness. *)

\* An empty archive is well typed.
LEMMA InitTypeOK == Init => TypeOK
<1> SUFFICES ASSUME Init PROVE TypeOK  OBVIOUS
<1>1. now \in Time /\ capture \in Time
    BY BoundAssumption DEF Init, Time
<1>2. objects \in [Keys -> Clip \union {NoClip}]  BY DEF Init
<1>3. written \in 0..SegSeconds /\ launched \in 0..MaxSegments /\ faults \in 0..MaxFaults
    BY WidthAssumption, BoundAssumption DEF Init
<1> QED BY <1>1, <1>2, <1>3 DEF Init, TypeOK

\* No call of the recorder, the sweep or the API leaves the types.
LEMMA StepTypeOK == TypeOK /\ [Next]_vars => TypeOK'
<1> SUFFICES ASSUME TypeOK, [Next]_vars PROVE TypeOK'  OBVIOUS
<1> USE DEF TypeOK
<1>1. CASE Tick  BY <1>1, BoundAssumption DEF Tick, Time, recVars, sweepVars, delVars
<1>2. CASE RecordUrl
    <2>1. launched + 1 \in Ids  BY <1>2, BoundAssumption DEF RecordUrl, Ids
    <2>2. seg' \in Row  BY <1>2, <2>1, ScheduledRow DEF RecordUrl
    <2> QED BY <1>2, <2>1, <2>2, WidthAssumption DEF RecordUrl, Ids, sweepVars, delVars
<1>3. CASE RecordUrlFails
    BY <1>3, BoundAssumption DEF RecordUrlFails, Fault, sweepVars, delVars
<1>4. CASE ResumeLoop  BY <1>4 DEF ResumeLoop, sweepVars, delVars
<1>5. CASE FfmpegExits  BY <1>5 DEF FfmpegExits, sweepVars, delVars
<1>6. CASE DiscardSegment  BY <1>6 DEF DiscardSegment, sweepVars, delVars
<1>7. CASE FinalizeLast
    <2>1. seg \in Row /\ seg.id \in Ids /\ seg.start \in Int  
        BY <1>7, BoundAssumption DEF FinalizeLast, Row, Time
    <2>2. [id |-> seg.id, from |-> capture, len |-> written] \in Clip
        BY <1>7, <2>1 DEF FinalizeLast, Clip
    <2>3. objects' \in [Keys -> Clip \union {NoClip}]  BY <1>7, <2>2 DEF FinalizeLast
    <2>4. seg.start + written \in Int  BY <2>1
    <2>5. seg' \in Row  BY <1>7, <2>1, <2>4 DEF FinalizeLast, Row
    <2> QED BY <1>7, <2>3, <2>5 DEF FinalizeLast, sweepVars, delVars
<1>8. CASE PutFails  BY <1>8, BoundAssumption DEF PutFails, Fault, sweepVars, delVars
<1>9. CASE PersistSegment  BY <1>9 DEF PersistSegment, sweepVars, delVars
<1>10. CASE PersistFails
    <2>1. seg.key \in Keys  BY <1>10 DEF PersistFails, Row
    <2> QED BY <1>10, <2>1, BoundAssumption DEF PersistFails, Fault, sweepVars, delVars
<1>11. CASE SweepStart
    <2>1. now - Retention \in Int  BY WidthAssumption, BoundAssumption DEF Time
    <2> QED BY <1>11, <2>1 DEF SweepStart, recVars, delVars
<1>12. CASE SweepQuery  BY <1>12 DEF SweepQuery, PastCut, recVars, delVars
<1>13. CASE SweepEnds  BY <1>13 DEF SweepEnds, recVars, delVars
<1>14. ASSUME NEW r \in pending, SweepDeleteObject(r) PROVE TypeOK'
    BY <1>14 DEF SweepDeleteObject, recVars, delVars
<1>15. ASSUME NEW r \in pending, SweepDeleteFails(r) PROVE TypeOK'
    <2>1. r.key \in Keys  BY DEF Row
    <2> QED BY <1>15, <2>1, BoundAssumption DEF SweepDeleteFails, Fault, recVars, delVars
<1>16. CASE SweepCommit  BY <1>16 DEF SweepCommit, recVars, delVars
<1>17. CASE SweepAborts  BY <1>17, BoundAssumption DEF SweepAborts, Fault, recVars, delVars
<1>18. CASE DeleteCollect
    <2>1. {r.key : r \in rows} \subseteq Keys  BY DEF Row
    <2> QED BY <1>18, <2>1 DEF DeleteCollect, recVars, sweepVars
<1>19. CASE DeleteCommit
    <2>1. {r.key : r \in rows} \subseteq Keys  BY DEF Row
    <2> QED BY <1>19, <2>1 DEF DeleteCommit, recVars, sweepVars
<1>20. ASSUME NEW k \in deleteKeys, DeleteObject(k) PROVE TypeOK'
    BY <1>20 DEF DeleteObject, recVars, sweepVars
<1>21. ASSUME NEW k \in deleteKeys, DeleteObjectFails(k) PROVE TypeOK'
    BY <1>21, BoundAssumption DEF DeleteObjectFails, Fault, recVars, sweepVars
<1>22. CASE DeleteInterrupted
    BY <1>22, BoundAssumption DEF DeleteInterrupted, Fault, recVars, sweepVars
<1>23. CASE DeleteReturns  BY <1>23 DEF DeleteReturns, recVars, sweepVars
<1>24. CASE WorkerRestarts
    <2>1. recPc = "persist" => seg.key \in Keys  BY DEF Row
    <2> QED BY <1>24, <2>1, BoundAssumption, WidthAssumption
            DEF WorkerRestarts, Fault, delVars
<1>25. CASE UNCHANGED vars
    BY <1>25 DEF vars, recVars, sweepVars, delVars
<1> QED
    BY <1>1, <1>2, <1>3, <1>4, <1>5, <1>6, <1>7, <1>8, <1>9, <1>10, <1>11, <1>12,
       <1>13, <1>14, <1>15, <1>16, <1>17, <1>18, <1>19, <1>20, <1>21, <1>22,
       <1>23, <1>24, <1>25
    DEF Next, Recording, Sweeping, SweepWork, Deleting

\* Every state of every behaviour is of the right type.
THEOREM TypeCorrect == Spec => []TypeOK
<1> QED BY InitTypeOK, StepTypeOK, PTL DEF Spec

-----------------------------------------------------------------------------
(* The strengthened invariant, one conjunct at a time.  Steps that leave    *)
(* the variables of a conjunct alone are taken together.                    *)

\* Every row and the segment in flight stay in the bucket and key window of
\* their capture: only record_url places one, under a fresh id.
LEMMA PlacementStep ==
    ASSUME TypeOK, PlacementInv, [Next]_vars PROVE PlacementInv'
<1> USE DEF PlacementInv, Active
<1>1. CASE UNCHANGED <<rows, chunk, recPc, seg, capture, launched>>
    BY <1>1
<1>2. CASE RecordUrl
    <2>1. now \in Time /\ launched + 1 \in Ids /\ launched \in Nat
        BY <1>2, BoundAssumption DEF RecordUrl, TypeOK, Ids
    <2>2. /\ seg'.id = launched'
          /\ seg'.start = segment_boundary(capture', SegSeconds)
          /\ seg'.key = segment_key(seg'.start)
          /\ seg'.start <= seg'.end /\ seg'.end <= seg'.start + SegSeconds
        BY <1>2, <2>1, ScheduledRow DEF RecordUrl
    <2>3. \A r \in rows \union chunk : r.id \in Nat
        BY BoundAssumption DEF TypeOK, Row, Ids
    <2>4. \A r \in rows \union chunk : r.id <= launched' /\ r.id # seg'.id
        BY <1>2, <2>1, <2>2, <2>3 DEF RecordUrl
    <2> QED BY <1>2, <2>2, <2>4 DEF RecordUrl, sweepVars
<1>3. CASE FinalizeLast
    <2>1. /\ seg \in Row /\ seg.start \in Nat
          /\ written \in Nat /\ SegSeconds \in Nat /\ written <= SegSeconds
        BY <1>3, BoundAssumption, WidthAssumption DEF FinalizeLast, TypeOK, Row, Time
    <2>2. /\ seg'.id = seg.id /\ seg'.start = seg.start /\ seg'.key = seg.key
          /\ seg'.start <= seg'.end /\ seg'.end <= seg'.start + SegSeconds
        BY <1>3, <2>1 DEF FinalizeLast, TypeOK, Row
    <2> QED BY <1>3, <2>2 DEF FinalizeLast, sweepVars
<1>4. CASE PersistSegment
    <2>1. launched \in Nat  BY DEF TypeOK
    <2> QED BY <1>4, <2>1 DEF PersistSegment, sweepVars
<1>5. CASE recPc' \in {"loop", "paused", "off"} /\ UNCHANGED launched
           /\ rows' \subseteq rows /\ chunk' \subseteq chunk
    BY <1>5
<1>6. CASE SweepQuery  BY <1>6 DEF SweepQuery, PastCut, recVars
<1>7. CASE SweepCommit  BY <1>7 DEF SweepCommit, recVars
<1>8. CASE SweepAborts  BY <1>8 DEF SweepAborts, recVars
<1>9. CASE DeleteCommit  BY <1>9 DEF DeleteCommit, recVars, sweepVars
<1>10. [Next]_vars =>
          \/ UNCHANGED <<rows, chunk, recPc, seg, capture, launched>>
          \/ recPc' \in {"loop", "paused", "off"} /\ UNCHANGED launched
             /\ rows' \subseteq rows /\ chunk' \subseteq chunk
          \/ RecordUrl \/ FinalizeLast \/ PersistSegment
          \/ SweepQuery \/ SweepCommit \/ SweepAborts \/ DeleteCommit
    BY DEF Next, Recording, Sweeping, SweepWork, Deleting, Tick, RecordUrlFails,
       ResumeLoop, FfmpegExits, DiscardSegment, PutFails, PersistFails, SweepStart,
       SweepEnds, SweepDeleteObject, SweepDeleteFails, DeleteCollect, DeleteObject,
       DeleteObjectFails, DeleteInterrupted, DeleteReturns, WorkerRestarts,
       vars, recVars, sweepVars, delVars
<1> QED BY <1>1, <1>2, <1>3, <1>4, <1>5, <1>6, <1>7, <1>8, <1>9, <1>10

\* Every object stays in the key window of its capture: finalize_last uploads
\* under the key of the segment in flight, all else deletes.
LEMMA ObjectStep ==
    ASSUME TypeOK, PlacementInv, ObjectInv, [Next]_vars PROVE ObjectInv'
<1>1. CASE FinalizeLast
    <2>1. seg.key \in Keys  BY <1>1 DEF FinalizeLast, TypeOK, Row
    <2>2. seg.key = segment_key(segment_boundary(capture, SegSeconds))
        BY <1>1 DEF FinalizeLast, PlacementInv, Active
    <2>3. objects'[seg.key].from = capture
        BY <1>1, <2>1 DEF FinalizeLast, TypeOK
    <2>4. \A k \in Keys \ {seg.key} : objects'[k] = objects[k]
        BY <1>1 DEF FinalizeLast, TypeOK
    <2> QED BY <2>2, <2>3, <2>4 DEF ObjectInv
<1>2. CASE \E k \in Keys : objects' = [objects EXCEPT ![k] = NoClip]
    BY <1>2 DEF ObjectInv, TypeOK
<1>3. CASE UNCHANGED objects  BY <1>3 DEF ObjectInv
<1>4. ASSUME NEW r \in pending, SweepDeleteObject(r)
      PROVE  \E k \in Keys : objects' = [objects EXCEPT ![k] = NoClip]
    BY <1>4 DEF SweepDeleteObject, TypeOK, Row
<1>5. ASSUME NEW k \in deleteKeys, DeleteObject(k)
      PROVE  \E j \in Keys : objects' = [objects EXCEPT ![j] = NoClip]
    BY <1>5 DEF DeleteObject, TypeOK
<1>6. \/ UNCHANGED objects
      \/ FinalizeLast
      \/ \E r \in pending : SweepDeleteObject(r)
      \/ \E k \in deleteKeys : DeleteObject(k)
    BY DEF Next, Recording, Sweeping, SweepWork, Deleting, Tick, RecordUrl,
       RecordUrlFails, ResumeLoop, FfmpegExits, DiscardSegment, PutFails,
       PersistSegment, PersistFails, SweepStart, SweepQuery, SweepEnds,
       SweepDeleteFails, SweepCommit, SweepAborts, DeleteCollect, DeleteCommit,
       DeleteObjectFails, DeleteInterrupted, DeleteReturns, WorkerRestarts, vars
<1> QED BY <1>1, <1>2, <1>3, <1>4, <1>5, <1>6

\* A deleted camera stays without rows: the insert needs the camera's row.
LEMMA CameraStep ==
    ASSUME CameraInv, [Next]_vars PROVE CameraInv'
<1> USE DEF CameraInv
<1>1. CASE UNCHANGED <<camera, rows, deletePc>>  BY <1>1
<1>2. CASE PersistSegment  BY <1>2 DEF PersistSegment, delVars
<1>3. CASE SweepCommit  BY <1>3 DEF SweepCommit, delVars
<1>4. CASE DeleteCollect  BY <1>4 DEF DeleteCollect
<1>5. CASE DeleteCommit  BY <1>5 DEF DeleteCommit
<1>6. CASE DeleteInterrupted  BY <1>6 DEF DeleteInterrupted
<1>7. CASE DeleteReturns  BY <1>7 DEF DeleteReturns
<1>8. \/ UNCHANGED <<camera, rows, deletePc>>
      \/ PersistSegment \/ SweepCommit \/ DeleteCollect \/ DeleteCommit
      \/ DeleteInterrupted \/ DeleteReturns
    BY DEF Next, Recording, Sweeping, SweepWork, Deleting, Tick, RecordUrl,
       RecordUrlFails, ResumeLoop, FfmpegExits, DiscardSegment, FinalizeLast,
       PutFails, PersistFails, SweepStart, SweepQuery, SweepEnds,
       SweepDeleteObject, SweepDeleteFails, SweepAborts, DeleteObject,
       DeleteObjectFails, WorkerRestarts, vars, delVars
<1> QED BY <1>1, <1>2, <1>3, <1>4, <1>5, <1>6, <1>7, <1>8

\* What the sweep works on stays past the cut, which time only moves further
\* into the past.
LEMMA SweepStep ==
    ASSUME TypeOK, SweepInv, [Next]_vars PROVE SweepInv'
<1> USE DEF SweepInv
<1>1. CASE Tick
    <2>1. now \in Int /\ sweepCut \in Int /\ Retention \in Int
        BY WidthAssumption, BoundAssumption DEF TypeOK, Time
    <2> QED BY <1>1, <2>1 DEF Tick, sweepVars
<1>2. CASE SweepStart
    <2>1. now - Retention \in Int
        BY WidthAssumption, BoundAssumption DEF TypeOK, Time
    <2>2. chunk' = {}  BY <1>2 DEF SweepStart
    <2> QED BY <1>2, <2>1, <2>2 DEF SweepStart
<1>3. CASE SweepQuery  BY <1>3 DEF SweepQuery, PastCut
<1>4. CASE SweepEnds  BY <1>4 DEF SweepEnds
<1>5. CASE SweepCommit  BY <1>5 DEF SweepCommit
<1>6. CASE SweepAborts  BY <1>6 DEF SweepAborts
<1>7. CASE WorkerRestarts  BY <1>7 DEF WorkerRestarts
<1>8. CASE UNCHANGED <<now, sweepPc, sweepCut, chunk>>  BY <1>8
<1>9. \/ UNCHANGED <<now, sweepPc, sweepCut, chunk>>
      \/ Tick \/ SweepStart \/ SweepQuery \/ SweepEnds \/ SweepCommit
      \/ SweepAborts \/ WorkerRestarts
    BY DEF Next, Recording, Sweeping, SweepWork, Deleting, RecordUrl,
       RecordUrlFails, ResumeLoop, FfmpegExits, DiscardSegment, FinalizeLast,
       PutFails, PersistSegment, PersistFails, SweepDeleteObject,
       SweepDeleteFails, DeleteCollect, DeleteCommit, DeleteObject,
       DeleteObjectFails, DeleteInterrupted, DeleteReturns, vars, sweepVars
<1> QED BY <1>1, <1>2, <1>3, <1>4, <1>5, <1>6, <1>7, <1>8, <1>9

\* A row in the running sweep's chunk is in a key window past the cut.
LEMMA ChunkKeysOld ==
    ASSUME TypeOK, PlacementInv, SweepInv, NEW r \in chunk
    PROVE  r.key \in Keys /\ r.key < now - Retention
<1>1. r \in Row /\ r.key \in Keys /\ r.start \in Time /\ r.end \in Int
    BY DEF TypeOK, Row
<1>2. r.key <= r.start /\ r.key \in Time
    BY <1>1, KeyBounds DEF PlacementInv
<1>3. r.end < sweepCut /\ sweepCut <= now - Retention /\ r.start <= r.end
    BY DEF SweepInv, PlacementInv
<1>4. now \in Int /\ Retention \in Int /\ sweepCut \in Int
      /\ r.key \in Int /\ r.start \in Int
    BY <1>1, <1>2, WidthAssumption, BoundAssumption DEF TypeOK, Time
<1> QED BY <1>1, <1>2, <1>3, <1>4

\* LossInv is kept: the clock only makes it weaker, the recorder publishes
\* before it saves, the sweep deletes objects of old windows only, and by the
\* time a deletion touches objects the camera has no rows.
LEMMA LossStep ==
    ASSUME TypeOK, PlacementInv, CameraInv, SweepInv, LossInv, [Next]_vars
    PROVE  LossInv'
<1> USE DEF LossInv, LossOnlyAfterExpiry
<1>1. now \in Int /\ Retention \in Int /\ Keys \subseteq Int
    BY KeysAreTimes, WidthAssumption, BoundAssumption DEF TypeOK, Time
<1>2. \A r \in rows : r.key \in Keys
    BY DEF TypeOK, Row
<1>3. recPc \in {"waiting", "persist"} => seg.key \in Keys
    BY DEF TypeOK, Row
<1>4. CASE Tick
    <2>1. now' = now + 1  BY <1>4 DEF Tick
    <2>2. \A k \in Keys : k < now - Retention => k < now' - Retention
        BY <1>1, <2>1
    <2> QED BY <1>2, <1>3, <1>4, <2>2 DEF Tick, recVars
<1>5. CASE FinalizeLast
    <2>1. /\ seg'.key = seg.key /\ seg.key \in Keys
          /\ [id |-> seg.id, from |-> capture, len |-> written] \in Clip
        BY <1>3, <1>5 DEF FinalizeLast, TypeOK, Row, Clip
    <2>2. objects'[seg.key] # NoClip
        BY <1>5, <2>1, NoClipAssumption DEF FinalizeLast, TypeOK
    <2>3. \A k \in Keys : objects'[k] = NoClip => objects[k] = NoClip
        BY <1>5, <2>1, <2>2 DEF FinalizeLast, TypeOK
    <2> QED BY <1>2, <1>5, <2>1, <2>2, <2>3 DEF FinalizeLast
<1>6. CASE PersistSegment  BY <1>6 DEF PersistSegment
<1>7. ASSUME NEW r \in pending, SweepDeleteObject(r) PROVE LossInv'
    <2>1. r.key \in Keys /\ r.key < now - Retention
        BY ChunkKeysOld DEF TypeOK
    <2>2. \A k \in Keys : objects'[k] = NoClip => objects[k] = NoClip \/ k = r.key
        BY <1>7 DEF SweepDeleteObject, TypeOK
    <2> QED BY <1>2, <1>3, <1>7, <2>1, <2>2 DEF SweepDeleteObject, recVars
<1>8. ASSUME NEW k \in deleteKeys, DeleteObject(k) PROVE LossInv'
    <2>1. ~camera /\ rows = {}  BY <1>8 DEF DeleteObject, CameraInv
    <2> QED BY <1>8, <2>1 DEF DeleteObject
<1>9. CASE DeleteCommit  BY <1>9 DEF DeleteCommit, recVars
<1>10. CASE /\ UNCHANGED <<now, objects, camera>>
            /\ rows' \subseteq rows
            /\ recPc' = "persist" => recPc = "persist" /\ seg' = seg
    BY <1>10
<1>11. \/ /\ UNCHANGED <<now, objects, camera>>
          /\ rows' \subseteq rows
          /\ recPc' = "persist" => recPc = "persist" /\ seg' = seg
       \/ Tick \/ FinalizeLast \/ PersistSegment \/ DeleteCommit
       \/ \E r \in pending : SweepDeleteObject(r)
       \/ \E k \in deleteKeys : DeleteObject(k)
    BY DEF Next, Recording, Sweeping, SweepWork, Deleting, RecordUrl,
       RecordUrlFails, ResumeLoop, FfmpegExits, DiscardSegment, PutFails,
       PersistFails, SweepStart, SweepQuery, SweepEnds, SweepDeleteFails,
       SweepCommit, SweepAborts, DeleteCollect, DeleteObjectFails,
       DeleteInterrupted, DeleteReturns, WorkerRestarts, vars, recVars
<1> QED BY <1>4, <1>5, <1>6, <1>7, <1>8, <1>9, <1>10, <1>11

\* AccountedInv is kept: an object appears together with the segment that is
\* about to be saved, and whoever drops a row has dealt with its object.
LEMMA AccountedStep ==
    ASSUME TypeOK, PlacementInv, AccountedInv, [Next]_vars
    PROVE  AccountedInv'
<1> USE DEF AccountedInv
<1>1. recPc \in {"waiting", "persist"} => seg.key \in Keys
    BY DEF TypeOK, Row
<1>2. CASE FinalizeLast
    <2>1. \A k \in Keys \ {seg.key} : objects'[k] = objects[k]
        BY <1>2 DEF FinalizeLast, TypeOK
    <2>2. seg'.key = seg.key /\ recPc' = "persist" /\ recPc = "waiting"
        BY <1>2 DEF FinalizeLast, TypeOK, Row
    <2> QED BY <1>2, <2>1, <2>2 DEF FinalizeLast, sweepVars, delVars
<1>3. CASE PersistSegment
    <2>1. seg \notin chunk  BY <1>3 DEF PersistSegment, PlacementInv, Active
    <2> QED BY <1>3, <2>1 DEF PersistSegment, sweepVars, delVars
<1>4. CASE PersistFails  BY <1>4 DEF PersistFails, sweepVars, delVars
<1>5. CASE SweepQuery  BY <1>5 DEF SweepQuery, recVars, delVars
<1>6. ASSUME NEW r \in pending, SweepDeleteObject(r) PROVE AccountedInv'
    <2>1. objects'[r.key] = NoClip
          /\ \A k \in Keys : k # r.key => objects'[k] = objects[k]
        BY <1>6 DEF SweepDeleteObject, TypeOK, Row
    <2> QED BY <1>6, <2>1 DEF SweepDeleteObject, recVars, delVars
<1>7. ASSUME NEW r \in pending, SweepDeleteFails(r) PROVE AccountedInv'
    BY <1>7 DEF SweepDeleteFails, recVars, delVars
<1>8. CASE SweepCommit  BY <1>8 DEF SweepCommit, recVars, delVars
<1>9. CASE SweepAborts  BY <1>9 DEF SweepAborts, recVars, delVars
<1>10. CASE DeleteCollect
    BY <1>10 DEF DeleteCollect, recVars, sweepVars
<1>11. CASE DeleteCommit
    BY <1>11 DEF DeleteCommit, recVars, sweepVars
<1>12. ASSUME NEW j \in deleteKeys, DeleteObject(j) PROVE AccountedInv'
    <2>1. objects'[j] = NoClip /\ \A k \in Keys : k # j => objects'[k] = objects[k]
        BY <1>12 DEF DeleteObject, TypeOK
    <2> QED BY <1>12, <2>1 DEF DeleteObject, recVars, sweepVars
<1>13. ASSUME NEW j \in deleteKeys, DeleteObjectFails(j) PROVE AccountedInv'
    BY <1>13 DEF DeleteObjectFails, recVars, sweepVars
<1>14. CASE DeleteInterrupted
    BY <1>14 DEF DeleteInterrupted, recVars, sweepVars
<1>15. CASE DeleteReturns  BY <1>15 DEF DeleteReturns, recVars, sweepVars
<1>16. CASE WorkerRestarts  BY <1>16 DEF WorkerRestarts, delVars
<1>17. CASE /\ UNCHANGED <<objects, rows, chunk, pending, leaked>>
            /\ UNCHANGED <<deletePc, deleteKeys>>
            /\ recPc = "persist" => recPc' = "persist" /\ seg' = seg
    BY <1>17
<1>18. \/ /\ UNCHANGED <<objects, rows, chunk, pending, leaked>>
          /\ UNCHANGED <<deletePc, deleteKeys>>
          /\ recPc = "persist" => recPc' = "persist" /\ seg' = seg
       \/ FinalizeLast \/ PersistSegment \/ PersistFails
       \/ SweepQuery \/ SweepCommit \/ SweepAborts
       \/ \E r \in pending : SweepDeleteObject(r) \/ SweepDeleteFails(r)
       \/ DeleteCollect \/ DeleteCommit \/ DeleteInterrupted \/ DeleteReturns
       \/ \E k \in deleteKeys : DeleteObject(k) \/ DeleteObjectFails(k)
       \/ WorkerRestarts
    BY DEF Next, Recording, Sweeping, SweepWork, Deleting, Tick, RecordUrl,
       RecordUrlFails, ResumeLoop, FfmpegExits, DiscardSegment, PutFails,
       SweepStart, SweepEnds, vars, recVars, sweepVars, delVars
<1> QED
    BY <1>2, <1>3, <1>4, <1>5, <1>6, <1>7, <1>8, <1>9, <1>10, <1>11, <1>12,
       <1>13, <1>14, <1>15, <1>16, <1>17, <1>18

\* The strengthened invariant holds of the empty archive.
LEMMA InitIInv == Init => IInv
<1> SUFFICES ASSUME Init PROVE IInv  OBVIOUS
<1>1. TypeOK  BY InitTypeOK
<1>2. PlacementInv  BY DEF Init, PlacementInv, Active
<1>3. ObjectInv  BY DEF Init, ObjectInv
<1>4. CameraInv /\ SweepInv  BY DEF Init, CameraInv, SweepInv
<1>5. LossInv  BY DEF Init, LossInv, LossOnlyAfterExpiry
<1>6. AccountedInv  BY DEF Init, AccountedInv
<1> QED BY <1>1, <1>2, <1>3, <1>4, <1>5, <1>6 DEF IInv

\* Every step keeps the strengthened invariant: the step lemmas together.
LEMMA StepIInv == IInv /\ [Next]_vars => IInv'
<1> SUFFICES ASSUME IInv, [Next]_vars PROVE IInv'  OBVIOUS
<1> USE DEF IInv
<1>1. TypeOK'  BY StepTypeOK
<1>2. PlacementInv'  BY PlacementStep
<1>3. ObjectInv'  BY ObjectStep
<1>4. CameraInv'  BY CameraStep
<1>5. SweepInv'  BY SweepStep
<1>6. LossInv'  BY LossStep
<1>7. AccountedInv'  BY AccountedStep
<1> QED BY <1>1, <1>2, <1>3, <1>4, <1>5, <1>6, <1>7

\* The strengthened invariant holds in every reachable state.
THEOREM Inductive == Spec => []IInv
<1> QED BY InitIInv, StepIInv, PTL DEF Spec

-----------------------------------------------------------------------------
(* The safety properties. *)

\* No recent row is ever left without its file, for any retention and widths.
THEOREM NoRecentLoss == Spec => []LossOnlyAfterExpiry
<1>1. IInv => LossOnlyAfterExpiry  BY DEF IInv, LossInv
<1> QED BY <1>1, Inductive, PTL

\* Every object without a row is owed to a named failure step.
THEOREM OrphansAccountedFor == Spec => []OrphansOnlyFromFailures
<1>1. IInv => OrphansOnlyFromFailures
    BY DEF IInv, AccountedInv, OrphansOnlyFromFailures
<1> QED BY <1>1, Inductive, PTL

\* Two captures filed under one key window are less than a window (and, for
\* the later one, a segment) apart: so are a row and the clip its key holds.
LEMMA ClipNearRow ==
    ASSUME IInv, NEW r \in rows, objects[r.key] # NoClip
    PROVE  /\ objects[r.key].from \in Int /\ r.start \in Int /\ r.end \in Int
           /\ r.end <= r.start + SegSeconds
           /\ objects[r.key].from > r.start - KeySeconds
           /\ objects[r.key].from < r.start + KeySeconds + SegSeconds
<1> DEFINE from == objects[r.key].from
           start == segment_boundary(from, SegSeconds)
<1>1. r \in Row /\ r.key \in Keys /\ r.start \in Time /\ r.end \in Int
    BY DEF IInv, TypeOK, Row
<1>2. objects[r.key] \in Clip /\ from \in Time
    BY <1>1 DEF IInv, TypeOK, Clip
<1>3. from \in Nat /\ r.start \in Nat /\ SegSeconds \in Nat /\ KeySeconds \in Nat
    BY <1>1, <1>2, WidthAssumption, BoundAssumption DEF Time
<1>4. start \in 0..from /\ from < start + SegSeconds
    BY <1>3, BoundaryBounds, WidthAssumption
<1>5. start \in Time  BY <1>2, <1>4, BoundAssumption DEF Time
<1>6. r.key = segment_key(start) /\ r.key = segment_key(r.start)
    BY <1>1 DEF IInv, ObjectInv, PlacementInv
<1>7. r.key <= start /\ start < r.key + KeySeconds
      /\ r.key <= r.start /\ r.start < r.key + KeySeconds /\ r.key \in Nat
    BY <1>1, <1>5, <1>6, KeyBounds, BoundAssumption DEF Time
<1>8. r.end <= r.start + SegSeconds  BY DEF IInv, PlacementInv
<1> HIDE DEF start
<1> QED BY <1>1, <1>3, <1>4, <1>7, <1>8

\* What a player shows for a time, and what is listed for a window, was
\* captured near it.
THEOREM SkewBounded == Spec => []PlaybackSkewBounded
<1>1. ASSUME IInv PROVE PlaybackSkewBounded
    <2>1. SegSeconds \in Nat /\ KeySeconds \in Nat /\ Time \subseteq Int
        BY WidthAssumption, BoundAssumption DEF Time
    <2>2. ASSUME NEW t \in Time, NEW r \in recording_at(t) \union get_event(t),
                 objects[r.key] # NoClip
          PROVE  /\ ShownTime(r, t) > t - KeySeconds
                 /\ ShownTime(r, t) < t + KeySeconds + SegSeconds
        <3>1. r \in rows  BY DEF recording_at, get_event, Covering
        <3> QED BY <1>1, <2>1, <2>2, <3>1, ClipNearRow DEF ShownTime
    <2>3. ASSUME NEW lo \in Time, NEW hi \in Time,
                 NEW r \in camera_recordings(lo, hi) \union event_clip(lo, hi),
                 objects[r.key] # NoClip
          PROVE  /\ objects[r.key].from > lo - KeySeconds - SegSeconds
                 /\ objects[r.key].from < hi + KeySeconds + SegSeconds
        <3>1. r \in Overlapping(lo, hi)
            BY DEF camera_recordings, event_clip
        <3>2. r \in rows /\ r.start < hi /\ lo < r.end
            BY <3>1 DEF Overlapping
        <3> QED BY <1>1, <2>1, <2>3, <3>2, ClipNearRow
    <2> QED BY <2>2, <2>3 DEF PlaybackSkewBounded
<1> QED BY <1>1, Inductive, PTL

-----------------------------------------------------------------------------
(* What may be removed. *)

\* Rows go by a sweep, past their retention, or with their camera.
LEMMA RowsGo ==
    ASSUME IInv, [Next]_vars, NEW r \in rows \ rows'
    PROVE  r.end < now - Retention \/ ~camera'
<1>1. CASE SweepCommit
    <2>1. r \in chunk /\ sweepPc = "delete"  BY <1>1 DEF SweepCommit
    <2>2. r.end < sweepCut /\ sweepCut <= now - Retention
        BY <2>1 DEF IInv, SweepInv
    <2>3. r.end \in Int /\ sweepCut \in Int /\ now - Retention \in Int
        BY WidthAssumption, BoundAssumption DEF IInv, TypeOK, Row, Time
    <2> QED BY <2>2, <2>3
<1>2. CASE DeleteCommit  BY <1>2 DEF DeleteCommit
<1>3. rows \subseteq rows' \/ SweepCommit \/ DeleteCommit
    BY DEF Next, Recording, Sweeping, SweepWork, Deleting, Tick, RecordUrl,
       RecordUrlFails, ResumeLoop, FfmpegExits, DiscardSegment, FinalizeLast,
       PutFails, PersistSegment, PersistFails, SweepStart, SweepQuery, SweepEnds,
       SweepDeleteObject, SweepDeleteFails, SweepAborts, DeleteCollect, DeleteObject,
       DeleteObjectFails, DeleteInterrupted, DeleteReturns, WorkerRestarts, vars
<1> QED BY <1>1, <1>2, <1>3

\* Objects go for a row of the running sweep, or after their camera.
LEMMA ObjectsGo ==
    ASSUME IInv, [Next]_vars, NEW k \in Keys, objects[k] # NoClip, objects'[k] = NoClip
    PROVE  k < now - Retention \/ ~camera
<1>0. TypeOK /\ PlacementInv /\ SweepInv /\ CameraInv  BY DEF IInv
<1>1. ASSUME NEW r \in pending, SweepDeleteObject(r) PROVE k < now - Retention
    <2>1. r \in chunk /\ r.key = k
        BY <1>0, <1>1 DEF SweepDeleteObject, TypeOK
    <2> QED BY <1>0, <2>1, ChunkKeysOld
<1>2. ASSUME NEW d \in deleteKeys, DeleteObject(d) PROVE ~camera
    BY <1>0, <1>2 DEF DeleteObject, CameraInv
<1>3. CASE FinalizeLast
    <2>0. recPc = "waiting" /\ written > 0  BY <1>3 DEF FinalizeLast
    <2>1. seg.id \in Ids /\ capture \in Time /\ written \in 1..SegSeconds
        BY <1>0, <2>0, WidthAssumption DEF TypeOK, Row
    <2>2. [id |-> seg.id, from |-> capture, len |-> written] # NoClip
        BY <2>1, NoClipAssumption DEF Clip
    <2> QED BY <1>0, <1>3, <2>2 DEF FinalizeLast, TypeOK
<1>4. \/ UNCHANGED objects \/ FinalizeLast
      \/ \E r \in pending : SweepDeleteObject(r)
      \/ \E d \in deleteKeys : DeleteObject(d)
    BY DEF Next, Recording, Sweeping, SweepWork, Deleting, Tick, RecordUrl,
       RecordUrlFails, ResumeLoop, FfmpegExits, DiscardSegment,
       PutFails, PersistSegment, PersistFails, SweepStart, SweepQuery, SweepEnds,
       SweepCommit, SweepDeleteFails, SweepAborts, DeleteCollect, DeleteCommit,
       DeleteObjectFails, DeleteInterrupted, DeleteReturns, WorkerRestarts, vars
<1> QED BY <1>1, <1>2, <1>3, <1>4

\* Footage is removed when it is due: a row only past its retention or with its
\* camera, an object only for a key window that began before the retention cut
\* or after its camera, whatever the sweep, the deletion and the recorder do
\* between two of their steps (_sweep_retention, delete_camera).
THEOREM RemovedOnlyWhenDue ==
    Spec => [][/\ \A r \in rows \ rows' : r.end < now - Retention \/ ~camera'
               /\ \A k \in Keys : objects[k] # NoClip /\ objects'[k] = NoClip =>
                     k < now - Retention \/ ~camera]_vars
<1>1. IInv /\ [Next]_vars =>
        [/\ \A r \in rows \ rows' : r.end < now - Retention \/ ~camera'
         /\ \A k \in Keys : objects[k] # NoClip /\ objects'[k] = NoClip =>
               k < now - Retention \/ ~camera]_vars
    BY RowsGo, ObjectsGo
<1> QED BY <1>1, Inductive, PTL DEF Spec

=============================================================================
