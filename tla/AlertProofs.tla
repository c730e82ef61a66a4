----------------------------- MODULE AlertProofs -----------------------------
(***************************************************************************)
(* Proofs about AlertDelivery, for all routes, keys, cooldowns and kinds of   *)
(* alert, and every life of the route cache.                                 *)
(***************************************************************************)
EXTENDS AlertDelivery, NaturalsInduction, WellFoundedInduction, TLAPS

\* A cooldown is counted from a route's last selection at the earliest: what
\* is recorded under its key is never older.
Recorded ==
    \A r \in Routes : chosenAt[r] <= last[Key[r]] /\ last[Key[r]] <= now

\* A route in the cached list is in the table, or was deleted after the list
\* was read.
CacheAccounted ==
    /\ cache.at <= now
    /\ \A r \in cache.routes : r \in enabled \union EnvRoutes \/ cache.at <= droppedAt[r]

\* No alert on the queue is younger than the last one produced.
Numbered == \A i \in 1..Len(queue) : queue[i].id <= produced

AlertInv == TypeOK /\ Numbered /\ Recorded /\ CacheAccounted

-----------------------------------------------------------------------------
(* Type correctness *)

LEMMA KeyFacts == \A r \in Routes : Key[r] \in KeySet
BY DEF KeySet

LEMMA TimeFacts ==
    /\ 0 \in Time /\ Epoch \in Int /\ Epoch < 0
    /\ \A t \in Time \union {Epoch} : t \in Int
    /\ now \in Time => \A t \in {now, now + 1} : now < MaxTime => t \in Time
BY AlertAssumption DEF Time

LEMMA InitAlert == Init => AlertInv
<1> SUFFICES ASSUME Init PROVE AlertInv
  OBVIOUS
<1> USE AlertAssumption, TimeFacts, KeyFacts DEF Init
<1>1. SenderTyped /\ queue \in Seq(Alert)
  BY DEF Waiting, SenderTyped
<1>2. TypeOK
  <2>1. 0 \in 0..produced /\ 0 \in 0..MaxAlerts /\ 0 \in Time
    OBVIOUS
  <2>2. \A t \in {Epoch} : t \in Time \union {Epoch}
    OBVIOUS
  <2>3. last \in [KeySet -> Time \union {Epoch}]
    OBVIOUS
  <2>4. chosenAt \in [Routes -> Time \union {Epoch}] /\ droppedAt \in [Routes -> Time \union {Epoch}]
    OBVIOUS
  <2> QED
    BY <1>1, <2>1, <2>3, <2>4 DEF TypeOK
<1>5. Numbered
  BY DEF Numbered
<1>3. Recorded
  BY DEF Recorded
<1>4. CacheAccounted
  BY DEF CacheAccounted
<1> QED
  BY <1>2, <1>3, <1>4, <1>5 DEF AlertInv

\* Whoever waits for an alert has none in hand.
LEMMA WaitingTyped ==
    ASSUME NEW pc \in {"get", "exited"}, sender' = [Waiting EXCEPT !.pc = pc]
    PROVE  SenderTyped'
BY DEF Waiting, SenderTyped

LEMMA StepSender == TypeOK /\ Next => SenderTyped'
<1> SUFFICES ASSUME TypeOK, Next PROVE SenderTyped'
  OBVIOUS
<1>0. SenderTyped
  BY DEF TypeOK
<1>1. CASE Take
  <2>1. Head(queue) \in Alert
    BY <1>1 DEF Take, TypeOK
  <2> QED
    BY <1>1, <2>1 DEF Take, Waiting, SenderTyped
<1>2. CASE SenderStops
  BY <1>2, WaitingTyped DEF SenderStops
<1>3. CASE LoadRoutes
  BY <1>0, <1>3 DEF LoadRoutes, SenderTyped
<1>4. CASE BuildNotifiers
  <2>1. PICK refused : sender' = [sender EXCEPT !.pc = "send", !.todo = Selection(Candidates(refused))]
    BY <1>4 DEF BuildNotifiers
  <2>2. Selection(Candidates(refused)) \subseteq Routes /\ sender.pc = "build"
    BY <1>4 DEF BuildNotifiers, Selection, Candidates, TypeOK
  <2> QED
    BY <1>0, <2>1, <2>2 DEF SenderTyped
<1>5. CASE SendOk
  BY <1>0, <1>5 DEF SendOk, SenderTyped
<1>6. CASE sender' = Waiting
  BY <1>6 DEF Waiting, SenderTyped
<1>7. CASE UNCHANGED sender
  BY <1>0, <1>7 DEF SenderTyped
<1> QED
  BY <1>1, <1>2, <1>3, <1>4, <1>5, <1>6, <1>7
     DEF Next, Sender, Tick, Produce, EditRoute, SendFails, Dispatched, SetStop, WorkerRestarts, memVars

LEMMA StepTypes == TypeOK /\ Numbered /\ [Next]_vars => TypeOK'
<1> SUFFICES ASSUME TypeOK, Numbered, [Next]_vars PROVE TypeOK'
  OBVIOUS
<1>0. CASE Next
  <2>0. SenderTyped'
    BY <1>0, StepSender
  <2>1. CASE Tick
    <3>1. now' \in Time
      BY <2>1, TimeFacts DEF Tick, TypeOK
    <3>2. UNCHANGED <<enabled, cache, queue, last, stop, produced, handled, chosenAt, droppedAt>>
      BY <2>1 DEF Tick, memVars, countVars, histVars
    <3> QED
      BY <2>0, <3>1, <3>2 DEF TypeOK
  <2>2. ASSUME NEW kind \in Kinds, Produce(kind) PROVE TypeOK'
    <3>1. produced + 1 \in 1..MaxAlerts /\ produced' = produced + 1
      BY <2>2, AlertAssumption DEF Produce, TypeOK
    <3>2. [id |-> produced + 1, kind |-> kind] \in Alert
      BY <3>1 DEF Alert
    <3>3. queue' \in Seq(Alert)
      BY <2>2, <3>2 DEF Produce, TypeOK
    <3>4. UNCHANGED <<now, enabled, cache, last, stop, handled, chosenAt, droppedAt>>
      BY <2>2 DEF Produce, histVars
    <3>5. produced' \in 0..MaxAlerts /\ handled' \in 0..produced'
      BY <3>1, <3>4 DEF TypeOK
    <3> QED
      BY <2>0, <3>3, <3>4, <3>5 DEF TypeOK
  <2>3. ASSUME NEW r \in Routes, EditRoute(r) PROVE TypeOK'
    <3>1. enabled' \subseteq Routes \ EnvRoutes
      BY <2>3 DEF EditRoute, TypeOK
    <3>2. droppedAt' \in [Routes -> Time \union {Epoch}]
      BY <2>3 DEF EditRoute, TypeOK
    <3>3. UNCHANGED <<now, cache, queue, last, stop, produced, handled, chosenAt>>
      BY <2>3 DEF EditRoute, memVars
    <3> QED
      BY <2>0, <3>1, <3>2, <3>3 DEF TypeOK
  <2>4. CASE Take
    <3>1. queue[1] \in Alert /\ Head(queue) = queue[1] /\ queue' \in Seq(Alert)
      BY <2>4 DEF Take, TypeOK
    <3>2. 1 \in 1..Len(queue)
      BY <2>4 DEF Take, TypeOK
    <3>4. queue[1].id \in 1..MaxAlerts
      BY <3>1 DEF Alert
    <3>5. queue[1].id <= produced
      BY <3>2 DEF Numbered
    <3>3. Head(queue).id \in 0..produced
      BY <3>1, <3>4, <3>5, AlertAssumption DEF TypeOK
    <3>6. handled' = Head(queue).id /\ UNCHANGED <<now, enabled, cache, last, stop, produced, chosenAt, droppedAt>>
      BY <2>4 DEF Take, countVars
    <3> QED
      BY <2>0, <3>1, <3>3, <3>6 DEF TypeOK
  <2>5. CASE LoadRoutes
    <3>1. cache'.at \in Time \union {Epoch} /\ cache'.routes \subseteq Routes
      <4>1. CASE cache' = cache
        BY <4>1 DEF TypeOK
      <4>2. CASE \E n \in 0..NumRoutes : cache' = [at |-> now, routes |-> {r \in enabled : r <= n} \union EnvRoutes]
        <5>1. cache'.at = now /\ cache'.routes \subseteq enabled \union EnvRoutes
          BY <4>2
        <5>2. enabled \subseteq Routes /\ EnvRoutes \subseteq Routes /\ now \in Time
          BY AlertAssumption DEF TypeOK
        <5> QED
          BY <5>1, <5>2
      <4> QED
        BY <2>5, <4>1, <4>2 DEF LoadRoutes
    <3>2. UNCHANGED <<now, enabled, queue, last, stop, produced, handled, chosenAt, droppedAt>>
      BY <2>5 DEF LoadRoutes, countVars, histVars
    <3> QED
      BY <2>0, <3>1, <3>2 DEF TypeOK
  <2>6. CASE BuildNotifiers
    <3>1. last' \in [KeySet -> Time \union {Epoch}] /\ chosenAt' \in [Routes -> Time \union {Epoch}]
      BY <2>6 DEF BuildNotifiers, TypeOK
    <3>2. UNCHANGED <<now, enabled, cache, queue, stop, produced, handled, droppedAt>>
      BY <2>6 DEF BuildNotifiers, countVars
    <3> QED
      BY <2>0, <3>1, <3>2 DEF TypeOK
  <2>7. CASE SenderStops \/ SendOk \/ SendFails \/ Dispatched
    <3>1. UNCHANGED <<now, enabled, cache, queue, last, stop, produced, handled, chosenAt, droppedAt>>
      BY <2>7 DEF SenderStops, SendOk, SendFails, Dispatched, countVars, histVars
    <3> QED
      BY <2>0, <3>1 DEF TypeOK
  <2>8. CASE SetStop
    <3>1. stop' \in BOOLEAN /\ UNCHANGED <<now, enabled, cache, queue, last, produced, handled, chosenAt, droppedAt>>
      BY <2>8 DEF SetStop, countVars, histVars
    <3> QED
      BY <2>0, <3>1 DEF TypeOK
  <2>9. CASE WorkerRestarts
    <3>1. queue' \in Seq(Alert) /\ cache'.at = Epoch /\ cache'.routes = {}
      BY <2>9 DEF WorkerRestarts
    <3>2. /\ last' \in [KeySet -> Time \union {Epoch}]
          /\ chosenAt' \in [Routes -> Time \union {Epoch}]
      BY <2>9 DEF WorkerRestarts
    <3>3. stop' = FALSE /\ handled' = produced /\ UNCHANGED <<now, enabled, produced, droppedAt>>
      BY <2>9 DEF WorkerRestarts
    <3>4. produced \in 0..produced
      BY DEF TypeOK
    <3> QED
      BY <2>0, <3>1, <3>2, <3>3, <3>4 DEF TypeOK
  <2> QED
    BY <1>0, <2>1, <2>2, <2>3, <2>4, <2>5, <2>6, <2>7, <2>8, <2>9 DEF Next, Sender
<1>1. CASE UNCHANGED vars
  BY <1>1 DEF vars, memVars, countVars, histVars, TypeOK, SenderTyped
<1> QED
  BY <1>0, <1>1

LEMMA StepNumbered == TypeOK /\ Numbered /\ [Next]_vars => Numbered'
<1> SUFFICES ASSUME TypeOK, Numbered, [Next]_vars PROVE Numbered'
  OBVIOUS
<1>1. ASSUME NEW kind \in Kinds, Produce(kind) PROVE Numbered'
  <2>1. produced \in Nat /\ produced' = produced + 1 /\ queue \in Seq(Alert)
    BY AlertAssumption, <1>1 DEF Produce, TypeOK
  <2>2. queue' = Append(queue, [id |-> produced + 1, kind |-> kind])
    BY <1>1 DEF Produce
  <2>3. ASSUME NEW i \in 1..Len(queue) PROVE queue[i].id \in Nat
    <3>1. queue[i] \in Alert
      BY <2>1
    <3> QED
      BY <3>1 DEF Alert
  <2> QED
    BY <2>1, <2>2, <2>3 DEF Numbered
<1>2. CASE Take
  <2>1. Len(queue') = Len(queue) - 1 /\ \A i \in 1..Len(queue') : queue'[i] = queue[i + 1]
    BY <1>2 DEF Take, TypeOK
  <2>2. \A i \in 1..Len(queue') : i + 1 \in 1..Len(queue)
    BY <1>2, <2>1 DEF Take, TypeOK
  <2> QED
    BY <1>2, <2>1, <2>2 DEF Take, countVars, Numbered
<1>3. CASE WorkerRestarts
  BY <1>3 DEF WorkerRestarts, Numbered
<1>4. CASE UNCHANGED <<queue, produced>>
  BY <1>4 DEF Numbered
<1> QED
  BY <1>1, <1>2, <1>3, <1>4
     DEF Next, Sender, Tick, EditRoute, SenderStops, LoadRoutes, BuildNotifiers, SendOk,
         SendFails, Dispatched, SetStop, vars, memVars, countVars

\* The alerts on the queue are those after the last one taken, in the order in
\* which they were produced.
InOrder ==
    /\ handled + Len(queue) = produced
    /\ \A i \in 1..Len(queue) : queue[i].id = handled + i

LEMMA InitOrder == Init => InOrder
BY DEF Init, InOrder

LEMMA StepOrder == TypeOK /\ InOrder /\ [Next]_vars => InOrder'
<1> SUFFICES ASSUME TypeOK, InOrder, [Next]_vars PROVE InOrder'
  OBVIOUS
<1>0. produced \in Nat /\ handled \in Nat /\ queue \in Seq(Alert) /\ Len(queue) \in Nat
  BY AlertAssumption DEF TypeOK
<1>1. ASSUME NEW kind \in Kinds, Produce(kind) PROVE InOrder'
  <2>1. /\ produced' = produced + 1 /\ handled' = handled
        /\ queue' = Append(queue, [id |-> produced + 1, kind |-> kind])
    BY <1>1 DEF Produce, histVars
  <2>2. /\ Len(queue') = Len(queue) + 1
        /\ \A i \in 1..Len(queue') :
              queue'[i] = IF i = Len(queue) + 1 THEN [id |-> produced + 1, kind |-> kind] ELSE queue[i]
    BY <1>0, <2>1
  <2>3. \A i \in 1..Len(queue') : i # Len(queue) + 1 => i \in 1..Len(queue)
    BY <1>0, <2>2
  <2>4. ASSUME NEW i \in 1..Len(queue') PROVE queue'[i].id = handled' + i
    <3>1. CASE i = Len(queue) + 1
      <4>1. queue'[i].id = produced + 1
        BY <2>2, <3>1
      <4>2. handled + Len(queue) = produced
        BY DEF InOrder
      <4>3. produced + 1 = handled + (Len(queue) + 1)
        BY <1>0, <4>2
      <4> QED
        BY <2>1, <3>1, <4>1, <4>3
    <3>2. CASE i # Len(queue) + 1
      <4>1. queue[i].id = handled + i
        BY <2>3, <3>2 DEF InOrder
      <4> QED
        BY <2>1, <2>2, <3>2, <4>1
    <3> QED
      BY <3>1, <3>2
  <2>5. handled' + Len(queue') = produced'
    <3>1. handled + Len(queue) = produced
      BY DEF InOrder
    <3>2. handled + (Len(queue) + 1) = handled + Len(queue) + 1
      BY <1>0
    <3> QED
      BY <2>1, <2>2, <3>1, <3>2
  <2> QED
    BY <2>4, <2>5 DEF InOrder
<1>2. CASE Take
  <2>1. /\ Len(queue) # 0 /\ Len(queue') = Len(queue) - 1 /\ Head(queue) = queue[1]
        /\ \A i \in 1..Len(queue') : queue'[i] = queue[i + 1]
    BY <1>2 DEF Take, TypeOK
  <2>2. 1 \in 1..Len(queue) /\ \A i \in 1..Len(queue') : i + 1 \in 1..Len(queue)
    BY <1>0, <2>1
  <2>3. handled' = handled + 1 /\ produced' = produced
    BY <1>2, <2>1, <2>2 DEF Take, InOrder, countVars
  <2>4. ASSUME NEW i \in 1..Len(queue') PROVE queue'[i].id = handled' + i
    <3>1. queue[i + 1].id = handled + (i + 1)
      BY <2>2 DEF InOrder
    <3>2. handled + (i + 1) = (handled + 1) + i
      BY <1>0
    <3> QED
      BY <2>1, <2>3, <3>1, <3>2
  <2>5. handled' + Len(queue') = produced'
    <3>1. handled + Len(queue) = produced
      BY DEF InOrder
    <3>2. (handled + 1) + (Len(queue) - 1) = handled + Len(queue)
      BY <1>0
    <3>3. Len(queue') = Len(queue) - 1
      BY <2>1
    <3> QED
      BY <2>3, <3>1, <3>2, <3>3
  <2> QED
    BY <2>4, <2>5 DEF InOrder
<1>3. CASE WorkerRestarts
  <2>1. queue' = <<>> /\ handled' = produced /\ produced' = produced
    BY <1>3 DEF WorkerRestarts
  <2> QED
    BY <1>0, <2>1 DEF InOrder
<1>4. CASE UNCHANGED <<queue, produced, handled>>
  BY <1>4 DEF InOrder
<1> QED
  BY <1>1, <1>2, <1>3, <1>4
     DEF Next, Sender, Tick, EditRoute, SenderStops, LoadRoutes, BuildNotifiers, SendOk,
         SendFails, Dispatched, SetStop, vars, memVars, countVars, histVars

-----------------------------------------------------------------------------
(* Cooldowns *)

\* A selected route was not in its cooldown.
LEMMA SelectedRested ==
    ASSUME AlertInv, NEW refused, NEW r \in Selection(Candidates(refused))
    PROVE  r \in Routes /\ now - chosenAt[r] >= Cooldown[r]
<1>1. r \in Routes /\ ~is_in_cooldown(r, now - last[Key[r]])
  BY DEF Selection, Candidates, AlertInv, TypeOK
<1>2. chosenAt[r] \in Int /\ last[Key[r]] \in Int /\ now \in Int /\ Cooldown[r] \in Nat
  BY <1>1, AlertAssumption, TimeFacts, KeyFacts DEF AlertInv, TypeOK
<1>3. chosenAt[r] <= last[Key[r]] /\ last[Key[r]] <= now
  BY <1>1 DEF AlertInv, Recorded
<1> QED
  BY <1>1, <1>2, <1>3 DEF is_in_cooldown

LEMMA StepRecorded == AlertInv /\ [Next]_vars => Recorded'
<1> SUFFICES ASSUME AlertInv, [Next]_vars PROVE Recorded'
  OBVIOUS
<1>0. /\ now \in Int
      /\ \A r \in Routes : Key[r] \in KeySet /\ chosenAt[r] \in Int /\ last[Key[r]] \in Int
      /\ \A r \in Routes : chosenAt[r] <= last[Key[r]] /\ last[Key[r]] <= now
  BY TimeFacts, KeyFacts DEF AlertInv, TypeOK, Recorded
<1>1. CASE Tick
  BY <1>0, <1>1 DEF Tick, memVars, histVars, Recorded
<1>2. CASE BuildNotifiers
  <2>1. PICK chosen \in SUBSET Routes :
           /\ last' = [k \in KeySet |-> IF \E r \in chosen : Key[r] = k THEN now ELSE last[k]]
           /\ chosenAt' = [r \in Routes |-> IF r \in chosen THEN now ELSE chosenAt[r]]
    <3>1. PICK refused \in SUBSET {r \in Refusable : CanRefuse(r)} :
             /\ last' = [k \in KeySet |->
                           IF \E r \in Selection(Candidates(refused)) : Key[r] = k THEN now ELSE last[k]]
             /\ chosenAt' = [r \in Routes |->
                           IF r \in Selection(Candidates(refused)) THEN now ELSE chosenAt[r]]
      BY <1>2 DEF BuildNotifiers
    <3>2. Selection(Candidates(refused)) \in SUBSET Routes
      BY SelectedRested
    <3> QED
      BY <3>1, <3>2
  <2>2. now' = now
    BY <1>2 DEF BuildNotifiers
  <2>3. ASSUME NEW r \in Routes PROVE chosenAt'[r] <= last'[Key[r]] /\ last'[Key[r]] <= now
    BY <1>0, <2>1
  <2> QED
    BY <2>2, <2>3 DEF Recorded
<1>3. CASE WorkerRestarts
  BY <1>3, KeyFacts, TimeFacts DEF WorkerRestarts, Recorded, AlertInv, TypeOK, Time
<1>4. CASE UNCHANGED <<now, last, chosenAt>>
  BY <1>0, <1>4 DEF Recorded
<1> QED
  BY <1>1, <1>2, <1>3, <1>4
     DEF Next, Sender, Produce, EditRoute, Take, SenderStops, LoadRoutes, SendOk, SendFails,
         Dispatched, SetStop, vars, memVars, histVars

-----------------------------------------------------------------------------
(* The cached routes *)

LEMMA StepCache == AlertInv /\ [Next]_vars => CacheAccounted'
<1> SUFFICES ASSUME AlertInv, [Next]_vars PROVE CacheAccounted'
  OBVIOUS
<1>0. /\ now \in Int /\ cache.at \in Int /\ cache.at <= now /\ cache.routes \subseteq Routes
      /\ \A r \in Routes : droppedAt[r] \in Int
      /\ \A r \in cache.routes : r \in enabled \union EnvRoutes \/ cache.at <= droppedAt[r]
  BY TimeFacts DEF AlertInv, TypeOK, CacheAccounted
<1>1. CASE Tick
  BY <1>0, <1>1 DEF Tick, memVars, histVars, CacheAccounted
<1>2. ASSUME NEW r \in Routes, EditRoute(r) PROVE CacheAccounted'
  <2>1. cache' = cache /\ now' = now
    BY <1>2 DEF EditRoute, memVars
  <2>2. ASSUME NEW q \in cache.routes
        PROVE  q \in enabled' \union EnvRoutes \/ cache.at <= droppedAt'[q]
    <3>1. CASE r \in enabled /\ q = r
      BY <1>0, <1>2, <3>1 DEF EditRoute, AlertInv, TypeOK
    <3>2. CASE ~(r \in enabled /\ q = r)
      BY <1>0, <1>2, <3>2 DEF EditRoute, AlertInv, TypeOK
    <3> QED
      BY <3>1, <3>2
  <2> QED
    BY <1>0, <2>1, <2>2 DEF CacheAccounted
<1>3. CASE LoadRoutes
  <2>1. UNCHANGED <<now, enabled, droppedAt>>
    BY <1>3 DEF LoadRoutes, histVars
  <2>2. CASE cache' = cache
    BY <1>0, <2>1, <2>2 DEF CacheAccounted
  <2>3. CASE cache' # cache
    <3>1. cache'.at = now /\ cache'.routes \subseteq enabled \union EnvRoutes
      BY <1>3, <2>3 DEF LoadRoutes
    <3> QED
      BY <1>0, <2>1, <3>1 DEF CacheAccounted
  <2> QED
    BY <2>2, <2>3
<1>4. CASE WorkerRestarts
  <2>1. cache'.at = Epoch /\ cache'.routes = {} /\ now' = now
    BY <1>4 DEF WorkerRestarts
  <2> QED
    BY <2>1, TimeFacts DEF CacheAccounted, AlertInv, TypeOK, Time
<1>5. CASE UNCHANGED <<now, enabled, cache, droppedAt>>
  BY <1>0, <1>5 DEF CacheAccounted
<1> QED
  BY <1>1, <1>2, <1>3, <1>4, <1>5
     DEF Next, Sender, Produce, Take, SenderStops, BuildNotifiers, SendOk, SendFails,
         Dispatched, SetStop, vars, memVars, histVars

\* A list that is used is read now or young enough, and a route that was
\* deleted since is younger still.
LEMMA UsedFresh ==
    ASSUME AlertInv, LoadRoutes, NEW r \in cache'.routes
    PROVE  r \in enabled \union EnvRoutes \/ now - droppedAt[r] < CacheTtl
<1>1. CASE ~Cached
  BY <1>1 DEF LoadRoutes
<1>2. CASE Cached
  <2>1. r \in cache.routes /\ now - cache.at < CacheTtl
    BY <1>2 DEF LoadRoutes, Cached
  <2>2. r \in Routes /\ now \in Int /\ cache.at \in Int /\ droppedAt[r] \in Int /\ CacheTtl \in Int
    BY <2>1, TimeFacts, AlertAssumption DEF AlertInv, TypeOK
  <2>3. r \in enabled \union EnvRoutes \/ cache.at <= droppedAt[r]
    BY <2>1 DEF AlertInv, CacheAccounted
  <2> QED
    BY <2>1, <2>2, <2>3
<1> QED
  BY <1>1, <1>2

-----------------------------------------------------------------------------
(* The loop over the routes *)

\* The least number principle, from which induction over the routes follows.
LEMMA Least ==
    ASSUME NEW B \in SUBSET Nat, B # {}
    PROVE  \E m \in B : \A n \in B : m <= n
<1>1. IsWellFoundedOn(OpToRel(<, Nat), Nat)
  BY NatLessThanWellFounded
<1>2. PICK m \in B : \A n \in B : ~ (<<n, m>> \in OpToRel(<, Nat))
  BY <1>1, WFMin
<1>3. \A n \in B : <<n, m>> \in OpToRel(<, Nat) <=> n < m
  BY DEF OpToRel
<1>4. \A n \in B : ~(n < m)
  BY <1>2, <1>3, Zenon
<1> QED
  BY <1>4

\* The turns of the loop: after[n] is what it has when the routes up to n were
\* looked at.
TurnOf(after, n, routes, elapsed) ==
    IF n = 0 THEN [chosen |-> {}, elapsed |-> elapsed]
    ELSE IF n \in routes THEN Consider(after[n - 1], n)
    ELSE after[n - 1]
Turns(after, routes, elapsed) ==
    after = [n \in 0..NumRoutes |-> TurnOf(after, n, routes, elapsed)]

\* The recursion of LoopSelects is well founded: there are turns.
LEMMA TurnsExist ==
    ASSUME NEW routes, NEW elapsed
    PROVE  \E after : Turns(after, routes, elapsed)
<1> DEFINE Upto(n) == \E f : f = [i \in 0..n |-> TurnOf(f, i, routes, elapsed)]
           Bad == {n \in Nat : ~Upto(n)}
<1>1. Upto(0)
  <2> DEFINE f == [i \in 0..0 |-> [chosen |-> {}, elapsed |-> elapsed]]
  <2>1. \A i \in 0..0 : TurnOf(f, i, routes, elapsed) = [chosen |-> {}, elapsed |-> elapsed]
    BY DEF TurnOf
  <2>2. f = [i \in 0..0 |-> TurnOf(f, i, routes, elapsed)]
    BY <2>1
  <2> QED
    BY <2>2
<1>2. ASSUME NEW n \in Nat, Upto(n) PROVE Upto(n + 1)
  <2>1. PICK f : f = [i \in 0..n |-> TurnOf(f, i, routes, elapsed)]
    BY <1>2
  <2> DEFINE h == [i \in 0 .. n + 1 |-> TurnOf(f, i, routes, elapsed)]
  <2>2. \A i \in 0..n : h[i] = f[i]
    <3>1. \A i \in 0..n : i \in 0 .. n + 1
      OBVIOUS
    <3>2. \A i \in 0..n : f[i] = TurnOf(f, i, routes, elapsed)
      BY <2>1
    <3> QED
      BY <3>1, <3>2
  <2>3. ASSUME NEW i \in 0 .. n + 1 PROVE TurnOf(h, i, routes, elapsed) = TurnOf(f, i, routes, elapsed)
    <3>1. CASE i = 0
      BY <3>1 DEF TurnOf
    <3>2. CASE i # 0
      <4>1. i - 1 \in 0..n
        BY <3>2
      <4>2. h[i - 1] = f[i - 1]
        BY <2>2, <4>1
      <4> HIDE DEF h
      <4> QED
        BY <4>2 DEF TurnOf
    <3> QED
      BY <3>1, <3>2
  <2>4. h = [i \in 0 .. n + 1 |-> TurnOf(h, i, routes, elapsed)]
    BY <2>3
  <2> QED
    BY <2>4
<1>3. \A n \in Nat : Upto(n)
  <2> HIDE DEF Upto
  <2> SUFFICES ASSUME Bad # {} PROVE FALSE
    OBVIOUS
  <2>1. PICK m \in Bad : \A n \in Bad : m <= n
    BY Least
  <2>2. m # 0 /\ m \in Nat
    BY <1>1
  <2>3. m - 1 \in Nat /\ m - 1 \notin Bad
    BY <2>1, <2>2
  <2>4. Upto((m - 1) + 1)
    BY <1>2, <2>3
  <2>5. (m - 1) + 1 = m
    BY <2>2
  <2> QED
    BY <2>4, <2>5
<1> QED
  BY <1>3, AlertAssumption DEF Turns

\* What the loop has after the routes up to n: those selected so far, and no
\* time elapsed since the keys of these.
SelectedUpTo(n, chosen) == {r \in chosen : r <= n}
TurnHas(turn, n, chosen, elapsed) ==
    /\ turn.chosen = SelectedUpTo(n, chosen)
    /\ turn = [chosen |-> turn.chosen, elapsed |-> turn.elapsed]
    /\ turn.elapsed =
        [k \in KeySet |-> IF \E r \in SelectedUpTo(n, chosen) : Key[r] = k THEN 0 ELSE elapsed[k]]

LEMMA RouteFacts ==
    /\ NumRoutes \in Nat /\ Routes = 1..NumRoutes /\ Routes \in SUBSET Nat
    /\ 0 \in 0..NumRoutes /\ NumRoutes \in 0..NumRoutes
    /\ \A S : Selection(S) \subseteq S
<1>1. NumRoutes \in Nat /\ Routes = 1..NumRoutes /\ 0 \in 0..NumRoutes /\ NumRoutes \in 0..NumRoutes
  BY AlertAssumption DEF Routes
<1>2. Routes \in SUBSET Nat
  BY <1>1
<1>3. \A S : Selection(S) \subseteq S
  BY DEF Selection
<1> QED
  BY <1>1, <1>2, <1>3

\* The selected routes up to n are those up to n - 1, and n if it is selected.
LEMMA UpToNext ==
    ASSUME NEW chosen \in SUBSET Routes, NEW n \in Routes
    PROVE  SelectedUpTo(n, chosen) =
               IF n \in chosen THEN SelectedUpTo(n - 1, chosen) \union {n} ELSE SelectedUpTo(n - 1, chosen)
<1>1. n \in Nat /\ \A r \in chosen : r \in Nat
  BY RouteFacts
<1>2. \A r \in chosen : r <= n <=> r <= n - 1 \/ r = n
  BY <1>1
<1>3. ~(n <= n - 1)
  BY <1>1
<1> QED
  BY <1>2, <1>3, <1>1 DEF SelectedUpTo

\* Of the candidates with one key the first is selected.
LEMMA FirstSelected ==
    ASSUME NEW candidates \in SUBSET Routes, NEW q \in candidates
    PROVE  \E r \in Selection(candidates) : Key[r] = Key[q] /\ r <= q
<1> DEFINE Same == {r \in candidates : Key[r] = Key[q]}
<1>1. Same \in SUBSET Nat /\ Same # {}
  BY RouteFacts
<1>2. PICK m \in Same : \A n \in Same : m <= n
  BY <1>1, Least
<1>3. m \in Selection(candidates)
  BY <1>2 DEF Selection
<1> QED
  BY <1>2, <1>3

\* What a turn has depends only on the routes selected up to there.
LEMMA SameTurn ==
    ASSUME NEW m, NEW n, NEW chosen, NEW elapsed, NEW turn,
           SelectedUpTo(n, chosen) = SelectedUpTo(m, chosen), TurnHas(turn, m, chosen, elapsed)
    PROVE  TurnHas(turn, n, chosen, elapsed)
<1>1. turn.chosen = SelectedUpTo(n, chosen) /\ turn = [chosen |-> turn.chosen, elapsed |-> turn.elapsed]
  BY DEF TurnHas
<1>2. turn.elapsed =
        [k \in KeySet |-> IF \E r \in SelectedUpTo(n, chosen) : Key[r] = k THEN 0 ELSE elapsed[k]]
  BY DEF TurnHas
<1> QED
  BY <1>1, <1>2 DEF TurnHas

LEMMA NextTurn ==
    ASSUME NEW routes \in SUBSET Routes, NEW elapsed \in [KeySet -> Int], NEW n \in Routes, n \in routes,
           NEW candidates, candidates = {r \in routes : ~is_in_cooldown(r, elapsed[Key[r]])},
           NEW chosen, chosen = Selection(candidates),
           NEW turn, TurnHas(turn, n - 1, chosen, elapsed)
    PROVE  TurnHas(Consider(turn, n), n, chosen, elapsed)
<1>0. TurnHas(turn, n - 1, chosen, elapsed)
  OBVIOUS
<1>1. candidates \in SUBSET Routes /\ chosen \in SUBSET Routes /\ chosen \subseteq candidates
  BY RouteFacts
<1>7. n \in Nat /\ \A r \in Routes : r \in Nat
  BY RouteFacts
<1>2. Cooldown[n] \in Nat /\ Key[n] \in KeySet /\ elapsed[Key[n]] \in Int
  BY AlertAssumption, KeyFacts
<1>3. turn.elapsed[Key[n]] = IF \E r \in SelectedUpTo(n - 1, chosen) : Key[r] = Key[n]
                             THEN 0 ELSE elapsed[Key[n]]
  BY <1>0, <1>2 DEF TurnHas
<1>4. n \in chosen <=> ~is_in_cooldown(n, turn.elapsed[Key[n]])
  <2>1. CASE \E r \in SelectedUpTo(n - 1, chosen) : Key[r] = Key[n]
    <3>1. PICK r \in chosen : r <= n - 1 /\ Key[r] = Key[n]
      BY <2>1 DEF SelectedUpTo
    <3>2. r \in candidates /\ ~(n <= r)
      <4>1. r \in Nat /\ r \in candidates
        BY <1>1, <1>7, <3>1
      <4> QED
        BY <1>7, <3>1, <4>1
    <3>3. turn.elapsed[Key[n]] = 0
      BY <1>3, <2>1
    <3>4. CASE is_in_cooldown(n, 0)
      BY <3>1, <3>2, <3>3, <3>4 DEF Selection
    <3>5. CASE ~is_in_cooldown(n, 0)
      <4>1. Cooldown[n] = 0
        BY <1>2, <3>5 DEF is_in_cooldown
      <4>2. n \in candidates
        BY <4>1 DEF is_in_cooldown
      <4> QED
        BY <3>3, <3>5, <4>2 DEF Selection
    <3> QED
      BY <3>4, <3>5
  <2>2. CASE ~\E r \in SelectedUpTo(n - 1, chosen) : Key[r] = Key[n]
    <3>1. turn.elapsed[Key[n]] = elapsed[Key[n]]
      BY <1>3, <2>2
    <3>2. ASSUME n \in candidates, NEW q \in candidates, Key[q] = Key[n] PROVE n <= q
      <4>1. PICK r \in chosen : Key[r] = Key[q] /\ r <= q
        BY <1>1, FirstSelected
      <4>2. ~(r <= n - 1)
        BY <2>2, <3>2, <4>1 DEF SelectedUpTo
      <4>3. r \in Nat /\ q \in Nat
        BY <1>1, <1>7, <4>1
      <4> QED
        BY <1>7, <4>1, <4>2, <4>3
    <3> QED
      BY <1>1, <3>1, <3>2 DEF Selection
  <2> QED
    BY <2>1, <2>2
<1>5. CASE n \in chosen
  <2>1. Consider(turn, n) = [chosen |-> turn.chosen \union {n}, elapsed |-> [turn.elapsed EXCEPT ![Key[n]] = 0]]
    BY <1>4, <1>5 DEF Consider
  <2>2. SelectedUpTo(n, chosen) = SelectedUpTo(n - 1, chosen) \union {n}
    BY <1>1, <1>5, UpToNext
  <2>3. [turn.elapsed EXCEPT ![Key[n]] = 0] =
           [k \in KeySet |-> IF \E r \in SelectedUpTo(n, chosen) : Key[r] = k THEN 0 ELSE elapsed[k]]
    <3> DEFINE before == [k \in KeySet |-> IF \E r \in SelectedUpTo(n - 1, chosen) : Key[r] = k
                                           THEN 0 ELSE elapsed[k]]
               after == [k \in KeySet |-> IF \E r \in SelectedUpTo(n, chosen) : Key[r] = k
                                          THEN 0 ELSE elapsed[k]]
    <3>1. turn.elapsed = before
      BY <1>0 DEF TurnHas
    <3>2. ASSUME NEW k \in KeySet PROVE [before EXCEPT ![Key[n]] = 0][k] = after[k]
      BY <1>2, <2>2
    <3> QED
      BY <3>1, <3>2
  <2>4. turn.chosen \union {n} = SelectedUpTo(n, chosen)
    BY <1>0, <2>2 DEF TurnHas
  <2>5. TurnHas([chosen |-> SelectedUpTo(n, chosen),
                 elapsed |-> [k \in KeySet |-> IF \E r \in SelectedUpTo(n, chosen) : Key[r] = k
                                               THEN 0 ELSE elapsed[k]]], n, chosen, elapsed)
    BY DEF TurnHas
  <2> QED
    BY <2>1, <2>3, <2>4, <2>5
<1>6. CASE n \notin chosen
  <2>1. Consider(turn, n) = turn
    BY <1>4, <1>6 DEF Consider
  <2>2. SelectedUpTo(n, chosen) = SelectedUpTo(n - 1, chosen)
    BY <1>1, <1>6, UpToNext
  <2> QED
    BY <1>0, <2>1, <2>2, SameTurn
<1> QED
  BY <1>5, <1>6

LEMMA AllTurns ==
    ASSUME NEW routes \in SUBSET Routes, NEW elapsed \in [KeySet -> Int], NEW after, Turns(after, routes, elapsed),
           NEW candidates, candidates = {r \in routes : ~is_in_cooldown(r, elapsed[Key[r]])},
           NEW chosen, chosen = Selection(candidates)
    PROVE  \A n \in 0..NumRoutes : TurnHas(after[n], n, chosen, elapsed)
<1> DEFINE Bad == {n \in 0..NumRoutes : ~TurnHas(after[n], n, chosen, elapsed)}
<1>1. \A n \in 0..NumRoutes : after[n] = TurnOf(after, n, routes, elapsed)
  BY DEF Turns
<1>2. /\ chosen \subseteq routes /\ chosen \in SUBSET Routes /\ NumRoutes \in Nat
      /\ Routes = 1..NumRoutes /\ 0 \in 0..NumRoutes
  <2>1. chosen \subseteq candidates /\ candidates \subseteq routes
    BY RouteFacts, Zenon
  <2> QED
    BY <2>1, RouteFacts
<1>3. 0 \notin Bad
  <2>1. after[0] = [chosen |-> {}, elapsed |-> elapsed]
    BY <1>1, <1>2 DEF TurnOf
  <2>2. SelectedUpTo(0, chosen) = {}
    <3>1. \A r \in chosen : ~(r <= 0)
      BY <1>2
    <3> QED
      BY <3>1 DEF SelectedUpTo
  <2>3. elapsed = [k \in KeySet |-> elapsed[k]]
    OBVIOUS
  <2>4. elapsed = [k \in KeySet |->
                     IF \E r \in SelectedUpTo(0, chosen) : Key[r] = k THEN 0 ELSE elapsed[k]]
    BY <2>2, <2>3
  <2>5. TurnHas([chosen |-> {}, elapsed |-> elapsed], 0, chosen, elapsed)
    BY <2>2, <2>4 DEF TurnHas
  <2> QED
    BY <2>1, <2>5
<1>4. ASSUME NEW n \in 1..NumRoutes, n - 1 \notin Bad PROVE n \notin Bad
  <2>1. TurnHas(after[n - 1], n - 1, chosen, elapsed)
    BY <1>2, <1>4
  <2>2. n \in 0..NumRoutes /\ n # 0
    BY <1>2
  <2>3. CASE n \in routes
    <3>1. after[n] = Consider(after[n - 1], n)
      BY <1>1, <2>2, <2>3 DEF TurnOf
    <3>2. n \in Routes
      BY <1>2
    <3>3. TurnHas(Consider(after[n - 1], n), n, chosen, elapsed)
      BY <2>1, <2>3, <3>2, NextTurn
    <3> QED
      BY <3>1, <3>3
  <2>4. CASE n \notin routes
    <3>1. after[n] = after[n - 1]
      BY <1>1, <2>2, <2>4 DEF TurnOf
    <3>2. SelectedUpTo(n, chosen) = SelectedUpTo(n - 1, chosen)
      <4>1. n \in Routes /\ n \notin chosen
        BY <1>2, <2>4
      <4> QED
        BY <1>2, <4>1, UpToNext
    <3>3. TurnHas(after[n - 1], n, chosen, elapsed)
      <4> DEFINE Elapsed(S) == [k \in KeySet |-> IF \E r \in S : Key[r] = k THEN 0 ELSE elapsed[k]]
      <4>1. Elapsed(SelectedUpTo(n, chosen)) = Elapsed(SelectedUpTo(n - 1, chosen))
        BY <3>2
      <4>2. after[n - 1].elapsed = Elapsed(SelectedUpTo(n - 1, chosen))
        BY <2>1 DEF TurnHas
      <4>3. after[n - 1].elapsed = Elapsed(SelectedUpTo(n, chosen))
        BY <4>1, <4>2
      <4> QED
        BY <2>1, <3>2, <4>3 DEF TurnHas
    <3> QED
      BY <3>1, <3>3
  <2> QED
    BY <2>3, <2>4
<1>5. Bad = {}
  <2> SUFFICES ASSUME Bad # {} PROVE FALSE
    OBVIOUS
  <2>1. Bad \in SUBSET Nat
    BY <1>2
  <2>2. PICK m \in Bad : \A n \in Bad : m <= n
    BY <2>1, Least
  <2>3. m \in 1..NumRoutes /\ m - 1 \notin Bad
    BY <1>2, <1>3, <2>1, <2>2
  <2> HIDE DEF Bad
  <2> QED
    BY <1>4, <2>2, <2>3
<1> QED
  BY <1>5

\* _build_notifiers: of the routes that match and can be built, the loop, which
\* records each selected route before it looks at the next, selects those that
\* BuildNotifiers sends on: whatever the routes, their keys and their cooldowns.
THEOREM LoopIsSelection ==
    ASSUME NEW routes \in SUBSET Routes, NEW elapsed \in [KeySet -> Int]
    PROVE  LoopSelects(routes, elapsed) =
               Selection({r \in routes : ~is_in_cooldown(r, elapsed[Key[r]])})
<1> DEFINE chosen == Selection({r \in routes : ~is_in_cooldown(r, elapsed[Key[r]])})
           loop == CHOOSE after : Turns(after, routes, elapsed)
<1>1. Turns(loop, routes, elapsed)
  BY TurnsExist
<1>2. LoopSelects(routes, elapsed) = loop[NumRoutes].chosen
  BY Zenon DEF LoopSelects, Turns, TurnOf
<1>3. NumRoutes \in 0..NumRoutes /\ chosen \subseteq Routes /\ Routes = 1..NumRoutes
  <2>1. chosen \subseteq {r \in routes : ~is_in_cooldown(r, elapsed[Key[r]])}
    BY RouteFacts, Zenon
  <2> QED
    BY <2>1, RouteFacts
<1> HIDE DEF loop
<1>4. TurnHas(loop[NumRoutes], NumRoutes, chosen, elapsed)
  BY <1>1, <1>3, AllTurns
<1> HIDE DEF chosen
<1>5. loop[NumRoutes].chosen = {r \in chosen : r <= NumRoutes}
  BY <1>4 DEF TurnHas, SelectedUpTo
<1>6. \A r \in chosen : r <= NumRoutes
  BY <1>3
<1>7. loop[NumRoutes].chosen = chosen
  BY <1>5, <1>6
<1> QED
  BY <1>2, <1>7 DEF chosen

-----------------------------------------------------------------------------
(* The theorems *)

\* Types, what the cooldown keys record, and where the cached routes come from.
THEOREM AlertInductive == Spec => []AlertInv
<1>1. AlertInv /\ [Next]_vars => AlertInv'
  BY StepTypes, StepNumbered, StepRecorded, StepCache DEF AlertInv
<1> QED
  BY InitAlert, <1>1, PTL DEF Spec

\* Every reachable state of queue, cache, cooldowns and sender is well typed.
THEOREM AlertTypeCorrect == Spec => []TypeOK
<1>1. AlertInv => TypeOK
  BY DEF AlertInv
<1> QED
  BY AlertInductive, <1>1, PTL

\* _alert_sender: whatever fails in between, an alert that is taken is the one
\* produced after the last that was taken, or lost with a process: none is
\* skipped, overtaken or taken twice.  With a sender that does not stop, this is
\* what EveryAlertHandled adds up to.
THEOREM NoneOvertaken == Spec => [][Take => handled' = handled + 1 /\ handled' <= produced]_vars
<1>1. TypeOK /\ InOrder /\ [Next]_vars
      => [Take => handled' = handled + 1 /\ handled' <= produced]_vars
  <2> SUFFICES ASSUME TypeOK, InOrder, Take PROVE handled' = handled + 1 /\ handled' <= produced
    OBVIOUS
  <2>1. produced \in Nat /\ handled \in Nat /\ Len(queue) \in Nat \ {0} /\ Head(queue) = queue[1]
    BY AlertAssumption DEF TypeOK, Take
  <2> QED
    BY <2>1 DEF Take, InOrder
<1> QED
  BY AlertTypeCorrect, InitOrder, StepOrder, <1>1, PTL DEF Spec

\* Two selections of a route by one process are its cooldown apart, whatever
\* keys the routes share (CooldownTracker, _build_notifiers).
THEOREM CooldownsKept == Spec => CooldownHeld
<1>1. AlertInv /\ [Next]_vars
      => [\A r \in Routes : (BuildNotifiers /\ r \in sender'.todo)
                            => now - chosenAt[r] >= Cooldown[r]]_vars
  <2> SUFFICES ASSUME AlertInv, BuildNotifiers, NEW r \in Routes, r \in sender'.todo
               PROVE  now - chosenAt[r] >= Cooldown[r]
    OBVIOUS
  <2>1. PICK refused : sender' = [sender EXCEPT !.pc = "send", !.todo = Selection(Candidates(refused))]
    BY DEF BuildNotifiers
  <2>2. r \in Selection(Candidates(refused))
    BY <2>1 DEF AlertInv, TypeOK, SenderTyped
  <2> QED
    BY <2>2, SelectedRested
<1> QED
  BY AlertInductive, <1>1, PTL DEF Spec, CooldownHeld

\* A route that was deleted is used for as long as the cached list may be, and
\* no longer (_load_routes).
THEOREM RoutesFresh == Spec => FreshRoutes
<1>1. AlertInv /\ [Next]_vars
      => [\A r \in Routes : (LoadRoutes /\ r \in cache'.routes)
                            => r \in enabled \union EnvRoutes \/ now - droppedAt[r] < CacheTtl]_vars
  BY UsedFresh
<1> QED
  BY AlertInductive, <1>1, PTL DEF Spec, FreshRoutes
=============================================================================
