---------------------------- MODULE AlertDelivery ----------------------------
(***************************************************************************)
(* Alert fan-out in the worker (apps/worker/main.py): camera threads put an *)
(* alert for each analytic event on an unbounded in-memory queue, and one   *)
(* sender thread takes them, selects routes from a cached copy of the       *)
(* alert_routes table, and sends to each in turn (packages/notify).  The    *)
(* in-process PushNotifier added when no push route matched is discarded    *)
(* after the send and is left out.                                          *)
(***************************************************************************)
EXTENDS Integers, Sequences

CONSTANTS
    NumRoutes,      \* routes 1..NumRoutes, in the order _load_routes lists them
    EnvRoutes,      \* {NumRoutes} if ALERT_WEBHOOK_URL is set, else {}
    Channel,        \* route -> "webhook", "email", "push" or "mqtt"
    Ntfy,           \* the push routes that name an ntfy server and a topic
    Key,            \* route -> (channel, rule_type, camera_id)
    Cooldown,       \* route -> cooldown_sec
    Kinds,          \* what an alert is about: its rule_type and camera
    Matches,        \* route -> the kinds it is for
    Refusable,      \* routes whose configuration may not be usable
    CacheTtl,       \* the 30 s of _load_routes
    Epoch,          \* the time 0.0 of entries never written: long ago
    MaxAlerts, MaxTime, MaxRestarts, MaxEdits   \* bounds

Routes == 1..NumRoutes
Time   == 0..MaxTime
Alert  == [id : 1..MaxAlerts, kind : Kinds]

\* What the far end does with a message: takes it, answers with an error, or
\* is not there within the 10 s timeout.
Answers == {"taken", "rejected", "silent"}

ASSUME AlertAssumption ==
    /\ NumRoutes \in Nat /\ MaxAlerts \in Nat /\ MaxTime \in Nat
    /\ MaxRestarts \in Nat /\ MaxEdits \in Nat
    /\ EnvRoutes \subseteq Routes \intersect {NumRoutes} /\ Refusable \subseteq Routes
    /\ Channel \in [Routes -> {"webhook", "email", "push", "mqtt"}]
    /\ Ntfy \subseteq {r \in Routes : Channel[r] = "push"}
    /\ Cooldown \in [Routes -> Nat]
    /\ Matches \in [Routes -> SUBSET Kinds]
    /\ CacheTtl \in Nat \ {0}
    /\ Epoch \in Int /\ Epoch <= -CacheTtl
    /\ \A r \in Routes : Epoch <= -Cooldown[r]

\* The key of a route holds everything its matching depends on.
ASSUME KeyAssumption ==
    \A r, q \in Routes :
        Key[r] = Key[q] => Matches[r] = Matches[q] /\ Channel[r] = Channel[q]

KeySet == {Key[r] : r \in Routes}

VARIABLES
    now,
    enabled,    \* the enabled rows of alert_routes
    cache,      \* _route_cache: [at, routes]; a list of routes is the set of its members
    queue,      \* _alert_queue
    last,       \* _cooldown._last
    stop,       \* the stop event
    sender,     \* [pc, alert, todo]: the alert in hand, routes left to send
    produced, restarts, edits,
    handled,    \* history: the last alert taken off the queue
    chosenAt,   \* history: route -> when it was last selected in this process
    droppedAt   \* history: route -> when it was last deleted

memVars  == <<cache, queue, last, stop, sender>>
histVars == <<handled, chosenAt, droppedAt>>
countVars == <<produced, restarts, edits>>
vars == <<now, enabled, memVars, countVars, histVars>>

NoAlert == [id |-> 0]
Waiting == [pc |-> "get", alert |-> NoAlert, todo |-> {}]

Init ==
    /\ now = 0
    /\ enabled = Routes \ EnvRoutes
    /\ cache = [at |-> Epoch, routes |-> {}]
    /\ queue = <<>>
    /\ last = [k \in KeySet |-> Epoch]
    /\ stop = FALSE
    /\ sender = Waiting
    /\ produced = 0
    /\ restarts = 0
    /\ edits = 0
    /\ handled = 0
    /\ chosenAt = [r \in Routes |-> Epoch]
    /\ droppedAt = [r \in Routes |-> Epoch]

Tick ==
    /\ now < MaxTime
    /\ now' = now + 1
    /\ UNCHANGED <<enabled, memVars, countVars, histVars>>

-----------------------------------------------------------------------------
(* Camera threads and the operator. *)

\* A frame's analytic event is committed and queued.
Produce(kind) ==
    /\ ~stop
    /\ produced < MaxAlerts
    /\ produced' = produced + 1
    /\ queue' = Append(queue, [id |-> produced + 1, kind |-> kind])
    /\ UNCHANGED <<now, enabled, cache, last, stop, sender, restarts, edits, histVars>>

\* An operator deletes a route through the API, or creates it again.
EditRoute(r) ==
    /\ r \notin EnvRoutes
    /\ edits < MaxEdits
    /\ edits' = edits + 1
    /\ IF r \in enabled
       THEN enabled' = enabled \ {r} /\ droppedAt' = [droppedAt EXCEPT ![r] = now]
       ELSE enabled' = enabled \union {r} /\ UNCHANGED droppedAt
    /\ UNCHANGED <<now, memVars, produced, restarts, handled, chosenAt>>

-----------------------------------------------------------------------------
(* The sender thread. *)

Take ==
    /\ sender.pc = "get" /\ ~stop
    /\ queue # <<>>
    /\ sender' = [Waiting EXCEPT !.pc = "load", !.alert = Head(queue)]
    /\ queue' = Tail(queue)
    /\ handled' = Head(queue).id
    /\ UNCHANGED <<now, enabled, cache, last, stop, countVars,
                   chosenAt, droppedAt>>

SenderStops ==
    /\ sender.pc = "get" /\ stop
    /\ sender' = [Waiting EXCEPT !.pc = "exited"]
    /\ UNCHANGED <<now, enabled, cache, queue, last, stop, countVars, histVars>>

\* Faulty variant: a loaded list is kept for good.
CachedForGood == cache.routes # {}

\* An empty list is never taken from the cache.
Cached == now - cache.at < CacheTtl /\ cache.routes # {}

\* _load_routes.  The query, or the decryption of one route, may fail: the
\* routes read before it are kept, with the environment's.
LoadRoutes ==
    /\ sender.pc = "load"
    /\ \/ Cached /\ UNCHANGED cache
       \/ /\ ~Cached
          /\ \E n \in 0..NumRoutes :
                cache' = [at |-> now, routes |-> {r \in enabled : r <= n} \union EnvRoutes]
    /\ sender' = [sender EXCEPT !.pc = "build"]
    /\ UNCHANGED <<now, enabled, queue, last, stop, countVars, histVars>>

\* Faulty variant: a cooldown of one second too few.
ShortCooldown(r, elapsed) == Cooldown[r] > 0 /\ elapsed < Cooldown[r] - 1

\* elapsed is the time since something was recorded under the key of r.
is_in_cooldown(r, elapsed) == Cooldown[r] > 0 /\ elapsed < Cooldown[r]

Candidates(refused) ==
    {r \in cache.routes :
        /\ sender.alert.kind \in Matches[r]
        /\ ~is_in_cooldown(r, now - last[Key[r]])
        /\ r \notin refused}

\* The loop over routes records a selected route at once, so that one further
\* on with the same key and a cooldown is suppressed.
Selection(candidates) ==
    {r \in candidates :
        is_in_cooldown(r, 0) => \A q \in candidates : Key[q] = Key[r] => r <= q}

\* One turn of that loop, for a route that matches and can be built.
Consider(acc, r) ==
    IF is_in_cooldown(r, acc.elapsed[Key[r]])
    THEN acc
    ELSE [chosen |-> acc.chosen \union {r}, elapsed |-> [acc.elapsed EXCEPT ![Key[r]] = 0]]

\* What the loop selects of such routes, taken in the order in which they are
\* listed, when so much time has elapsed since a key was recorded.  Selection is
\* what it computes.
LoopSelects(routes, elapsed) ==
    LET after[n \in 0..NumRoutes] ==
            IF n = 0 THEN [chosen |-> {}, elapsed |-> elapsed]
            ELSE IF n \in routes THEN Consider(after[n - 1], n)
            ELSE after[n - 1]
    IN  after[NumRoutes].chosen

\* build_notifier: a webhook without a valid address, an e-mail route with a
\* missing field or an MQTT port that is no number is refused; a push route is
\* built from whatever there is.
CanRefuse(r) == Channel[r] # "push"

BuildNotifiers ==
    /\ sender.pc = "build"
    /\ \E refused \in SUBSET {r \in Refusable : CanRefuse(r)} :
          LET chosen == Selection(Candidates(refused))
          IN  /\ last' = [k \in KeySet |->
                            IF \E r \in chosen : Key[r] = k THEN now ELSE last[k]]
              /\ sender' = [sender EXCEPT !.pc = "send", !.todo = chosen]
              /\ chosenAt' = [r \in Routes |-> IF r \in chosen THEN now ELSE chosenAt[r]]
    /\ UNCHANGED <<now, enabled, cache, queue, stop, countVars,
                   handled, droppedAt>>

\* WebhookNotifier.send: the status of the answer is not looked at.
WebhookRaises(answer) == answer = "silent"

\* EmailNotifier.send: SMTP raises on a refusal too.
EmailRaises(answer) == answer # "taken"

\* PushNotifier.send: without an ntfy server it only fills its own buffer.
PushRaises(r, answer) == r \in Ntfy /\ answer = "silent"

\* MqttNotifier.send: the broker may refuse the connection.
MqttRaises(answer) == answer # "taken"

Raises(r, answer) ==
    \/ Channel[r] = "webhook" /\ WebhookRaises(answer)
    \/ Channel[r] = "email" /\ EmailRaises(answer)
    \/ Channel[r] = "push" /\ PushRaises(r, answer)
    \/ Channel[r] = "mqtt" /\ MqttRaises(answer)

\* dispatch() sends in the order of the list.
IsNext(r) == r \in sender.todo /\ \A q \in sender.todo : r <= q

SendOk ==
    /\ sender.pc = "send"
    /\ \E r \in Routes :
          /\ IsNext(r) /\ \E answer \in Answers : ~Raises(r, answer)
          /\ sender' = [sender EXCEPT !.todo = @ \ {r}]
    /\ UNCHANGED <<now, enabled, cache, queue, last, stop, countVars, histVars>>

\* Faulty variant: the exception ends the sender thread.
SendFailsFatally ==
    /\ sender.pc = "send"
    /\ \E r \in Routes : IsNext(r) /\ \E answer \in Answers : Raises(r, answer)
    /\ sender' = [Waiting EXCEPT !.pc = "exited"]
    /\ UNCHANGED <<now, enabled, cache, queue, last, stop, countVars, histVars>>

\* A send that raises ends dispatch(): the routes after it are not tried.
SendFails ==
    /\ sender.pc = "send"
    /\ \E r \in Routes : IsNext(r) /\ \E answer \in Answers : Raises(r, answer)
    /\ sender' = Waiting
    /\ UNCHANGED <<now, enabled, cache, queue, last, stop, countVars, histVars>>

Dispatched ==
    /\ sender.pc = "send"
    /\ sender.todo = {}
    /\ sender' = Waiting
    /\ UNCHANGED <<now, enabled, cache, queue, last, stop, countVars, histVars>>

-----------------------------------------------------------------------------
SetStop ==
    /\ ~stop
    /\ stop' = TRUE
    /\ UNCHANGED <<now, enabled, cache, queue, last, sender, countVars, histVars>>

\* The process dies and is started again: the queue, the cooldowns and the
\* cached routes were in its memory.
WorkerRestarts ==
    /\ restarts < MaxRestarts
    /\ restarts' = restarts + 1
    /\ cache' = [at |-> Epoch, routes |-> {}]
    /\ queue' = <<>>
    /\ last' = [k \in KeySet |-> Epoch]
    /\ stop' = FALSE
    /\ sender' = Waiting
    /\ handled' = produced
    /\ chosenAt' = [r \in Routes |-> Epoch]
    /\ UNCHANGED <<now, enabled, produced, edits, droppedAt>>

Sender ==
    \/ Take \/ SenderStops \/ LoadRoutes \/ BuildNotifiers
    \/ SendOk \/ SendFails \/ Dispatched

Next ==
    \/ Tick
    \/ \E kind \in Kinds : Produce(kind)
    \/ \E r \in Routes : EditRoute(r)
    \/ Sender
    \/ SetStop \/ WorkerRestarts

Spec == Init /\ [][Next]_vars

\* The sender is a thread of a live process.  Webhook, e-mail and ntfy sends
\* have a timeout of 10 s; an MQTT publication has none, and is assumed to end.
FairSpec == Spec /\ WF_vars(Sender)

-----------------------------------------------------------------------------
SenderTyped ==
    /\ sender \in [pc : {"get", "load", "build", "send", "exited"},
                   alert : Alert \union {NoAlert}, todo : SUBSET Routes]
    /\ IF sender.pc \in {"get", "exited"} THEN sender.alert = NoAlert
                                           ELSE sender.alert \in Alert

TypeOK ==
    /\ now \in Time
    /\ enabled \subseteq Routes \ EnvRoutes
    /\ cache.at \in Time \union {Epoch} /\ cache.routes \subseteq Routes
    /\ queue \in Seq(Alert)
    /\ last \in [KeySet -> Time \union {Epoch}]
    /\ stop \in BOOLEAN
    /\ SenderTyped
    /\ produced \in 0..MaxAlerts /\ handled \in 0..produced
    /\ chosenAt \in [Routes -> Time \union {Epoch}]
    /\ droppedAt \in [Routes -> Time \union {Epoch}]

\* CooldownTracker: a route does not fire again until its window has elapsed.
\* Two selections of a route by one worker process are at least its cooldown
\* apart, whatever other routes share its key.
CooldownHeld ==
    [][\A r \in Routes :
          (BuildNotifiers /\ r \in sender'.todo) =>
              now - chosenAt[r] >= Cooldown[r]]_vars

\* _load_routes: an alert may be sent on a route that an operator deleted, but
\* only for as long as the cached list may be used.
FreshRoutes ==
    [][\A r \in Routes :
          (LoadRoutes /\ r \in cache'.routes) =>
              r \in enabled \union EnvRoutes \/ now - droppedAt[r] < CacheTtl]_vars

\* _alert_sender survives failing sends: every queued alert is taken up, unless
\* the worker is stopped or restarted first.
EveryAlertHandled ==
    \A n \in 1..MaxAlerts : (produced >= n) ~> (handled >= n \/ stop)

\* CooldownTracker: two routes that overlap do not share a window unless they
\* are configured identically.  A route that matches and could be built is
\* suppressed only by a selection of its own.
OwnWindow ==
    [][BuildNotifiers =>
          \A r \in cache.routes \ Refusable :
              (sender.alert.kind \in Matches[r] /\ r \notin sender'.todo) =>
                  now - chosenAt[r] < Cooldown[r]]_vars

\* notify/__init__.py, line 289: dispatch fans an alert out to all supplied
\* notifiers, so that it ends with at most the one whose turn it is left to send.
FansOut ==
    [][sender.pc = "send" /\ sender'.pc # "send" =>
          sender.todo \subseteq {r \in Routes : IsNext(r)}]_vars

=============================================================================
