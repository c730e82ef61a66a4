----------------------------- MODULE PresenceLog -----------------------------
(***************************************************************************)
(* What one camera's pipeline promises about presence events: every tracked *)
(* object has at most one open window, a sighting opens the window or moves *)
(* its end, a window that has been quiet for MergeGap may be published, and *)
(* a published window is never touched again.  Windows of objects the       *)
(* worker can no longer publish are dropped, openly, by Drop.               *)
(***************************************************************************)
EXTENDS Integers

CONSTANTS
    Objects,    \* tracked objects
    MergeGap    \* event_merge_gap_seconds

VARIABLES
    clock,      \* the time of the last frame
    open,       \* object -> [first, last], for the objects with an open window
    log         \* published windows: [object, first, last]

Published(o) == [object |-> o, first |-> open[o].first, last |-> open[o].last]

Init == clock = 0 /\ open = << >> /\ log = {}

\* The objects of S are seen at a time after the last frame.
Observe(S) ==
    /\ clock' > clock
    /\ open' = [o \in DOMAIN open \union S |->
                   [first |-> IF o \in DOMAIN open THEN open[o].first ELSE clock',
                    last  |-> IF o \in S THEN clock' ELSE open[o].last]]
    /\ UNCHANGED log

\* The windows of S, all quiet for MergeGap, go to the log together.
Publish(S) ==
    /\ \A o \in S : clock - open[o].last >= MergeGap
    /\ log' = log \union {Published(o) : o \in S}
    /\ open' = [o \in DOMAIN open \ S |-> open[o]]
    /\ UNCHANGED clock

Drop(S) ==
    /\ open' = [o \in DOMAIN open \ S |-> open[o]]
    /\ UNCHANGED <<clock, log>>

Next ==
    \/ \E S \in SUBSET Objects : Observe(S)
    \/ \E S \in SUBSET DOMAIN open : Publish(S) \/ Drop(S)

Spec == Init /\ [][Next]_<<clock, open, log>>
==============================================================================
