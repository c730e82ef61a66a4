--------------------------- MODULE BrowserSession ---------------------------
(***************************************************************************)
(* The browser tab's side of a session (ui/core/api.js, app.js, views/        *)
(* login.js): its tokens, the calls that wait for an answer or for the shared *)
(* refresh, and what the screen shows.  A step is what runs between two        *)
(* awaits.  Tokens are numbered pairs, access and refresh token together; the  *)
(* server is only what the tab can tell of it: which pairs still refresh, and  *)
(* how old their access tokens are (Sessions models the server).               *)
(***************************************************************************)
EXTENDS Integers, FiniteSets

CONSTANTS
    Call,                       \* calls a view may have open at a time
    MaxPairs, MaxReloads        \* bounds

ASSUME BrowserAssumption ==
    /\ MaxPairs \in Nat /\ MaxReloads \in Nat
    /\ Call \intersect {"shell", "tick"} = {}

Pair == 1..MaxPairs
Slot == Call \union {"shell", "tick"}   \* the shell restores, or asks who it is

VARIABLES
    access, refresh,    \* the tokens held, 0 for none (sessionStorage as well)
    screen,             \* "boot", "login" or "app"
    loop,               \* the refresh loop was started
    call,               \* slot -> the request it waits for
    rotation,           \* refreshInFlight: [pair, answer], or NoRotation
    leaving,            \* the token a logout is revoking, or 0
    reloads,
    minted, live, age,  \* the server: pairs that refresh, ages of access tokens
    presented,          \* history: tokens this page sent to /refresh, but the refused
    lost,               \* history: the answer in flight got lost on the way
    mixed,              \* history: what began in an older session is still about
    meRefused           \* history: the shell was refused right after a grant

tab    == <<access, refresh, screen, loop, call, rotation, leaving>>
server == <<minted, live, age>>
history == <<presented, lost, mixed, meRefused>>
vars   == <<tab, reloads, server, history>>

NoRotation == [pair |-> 0, answer |-> 0]
Pending    == -1
Quiet      == [pc |-> "idle", kind |-> "data", with |-> 0]
Kinds      == {"data", "auth", "restore", "me", "tick"}

\* A page is opened, with or without a token left in the tab's storage.
Init ==
    /\ access = 0 /\ refresh \in {0} \union (Pair \intersect {1}) /\ leaving = 0
    /\ screen = "boot" /\ loop = FALSE
    /\ call = [s \in Slot |-> Quiet]
    /\ rotation = NoRotation
    /\ reloads = 0
    /\ minted = refresh /\ live = {refresh} \ {0} /\ age = [p \in Pair |-> "new"]
    /\ presented = {} /\ lost = FALSE /\ mixed = FALSE /\ meRefused = FALSE

-----------------------------------------------------------------------------
(* Parts of api.js *)

Persist(p) == access' = p /\ refresh' = p

clearSession == access' = 0 /\ refresh' = 0

\* auth:expired and the end of a logout: the app is left, tokens are dropped.
LeaveApp == clearSession /\ screen' = "login"

\* Faulty variant: the tokens go, nobody is told.
LeaveQuietly == clearSession /\ UNCHANGED screen

\* A call found its session unrecoverable.
Expire == LeaveApp

\* Faulty variant: every caller starts a refresh of its own.
JoinAnew ==
    /\ rotation' = [pair |-> refresh, answer |-> Pending]
    /\ presented' = presented \union {refresh}
    /\ lost' = FALSE

\* Callers share the refresh in flight; the first one starts it.
JoinRefresh ==
    IF rotation # NoRotation
    THEN UNCHANGED <<rotation, presented, lost>>
    ELSE /\ rotation' = [pair |-> refresh, answer |-> Pending]
         /\ presented' = presented \union {refresh}
         /\ lost' = FALSE

Waits(s, kind) == call' = [call EXCEPT ![s] = [pc |-> "waiting", kind |-> kind, with |-> call[s].with]]
Sends(s, kind, p) == call' = [call EXCEPT ![s] = [pc |-> "sent", kind |-> kind, with |-> p]]
Ends(s) == call' = [call EXCEPT ![s] = Quiet]

-----------------------------------------------------------------------------
(* Shell *)

Boot ==
    /\ screen = "boot" /\ call["shell"] = Quiet
    /\ IF refresh = 0
       THEN screen' = "login" /\ UNCHANGED <<call, rotation, presented, lost>>
       ELSE Waits("shell", "restore") /\ JoinRefresh /\ UNCHANGED screen
    /\ UNCHANGED <<access, refresh, loop, leaving, reloads, server, mixed, meRefused>>

\* A granted login; the shell then asks who it is.
Login ==
    /\ screen = "login" /\ call["shell"] = Quiet
    /\ minted < MaxPairs
    /\ minted' = minted + 1
    /\ live' = live \union {minted + 1}
    /\ Persist(minted + 1)
    /\ Sends("shell", "me", minted + 1)
    /\ mixed' = (mixed \/ rotation # NoRotation \/ leaving # 0
                       \/ \E s \in Slot : call[s] # Quiet)
    /\ meRefused' = FALSE
    /\ UNCHANGED <<screen, loop, rotation, leaving, reloads, age, presented, lost>>

\* Refused or not, the app is entered; after a restore the loop runs too.
Enter(ok) ==
    /\ call["shell"].pc = "sent"
    /\ ok <=> age[call["shell"].with] # "expired"
    /\ screen' = "app"
    /\ loop' = (loop \/ screen = "boot")
    /\ IF ok THEN UNCHANGED <<access, refresh, meRefused>>
             ELSE clearSession /\ meRefused' = TRUE
    /\ Ends("shell")
    /\ UNCHANGED <<rotation, leaving, reloads, server, presented, lost, mixed>>

Logout ==
    /\ screen = "app"
    /\ refresh # 0 => leaving = 0
    /\ clearSession
    /\ IF refresh # 0 THEN leaving' = refresh /\ UNCHANGED screen
                      ELSE screen' = "login" /\ UNCHANGED leaving
    /\ UNCHANGED <<loop, call, rotation, reloads, server, history>>

\* Revoked, or the network was gone: the tab has left the app either way.
LogoutReturns(reached) ==
    /\ leaving # 0
    /\ live' = IF reached THEN live \ {leaving} ELSE live
    /\ leaving' = 0
    /\ LeaveApp
    /\ UNCHANGED <<loop, call, rotation, reloads, minted, age, history>>

\* What is on its way is forgotten by the tab, and may reach the server.
Reload(reached) ==
    /\ screen # "boot" /\ reloads < MaxReloads
    /\ reloads' = reloads + 1
    /\ access' = 0 /\ screen' = "boot" /\ loop' = FALSE /\ leaving' = 0
    /\ call' = [s \in Slot |-> Quiet]
    /\ rotation' = NoRotation
    /\ live' = IF reached THEN live \ {leaving, IF rotation.answer = Pending THEN rotation.pair ELSE 0}
                          ELSE live
    /\ presented' = {} /\ lost' = FALSE /\ mixed' = FALSE
    /\ UNCHANGED <<refresh, minted, age, meRefused>>

-----------------------------------------------------------------------------
(* Calls of the views, and the loop *)

Send(c, kind) ==
    /\ screen = "app" /\ call[c] = Quiet
    /\ Sends(c, kind, access)
    /\ UNCHANGED <<access, refresh, screen, loop, rotation, leaving, reloads, server, history>>

Granted(s) == call[s].with # 0 /\ age[call[s].with] # "expired"

\* Answered with anything but 401, or not at all.
Answered(c) ==
    /\ call[c].pc \in {"sent", "resent"}
    /\ Granted(c)
    /\ Ends(c)
    /\ UNCHANGED <<access, refresh, screen, loop, rotation, leaving, reloads, server, history>>

\* A first 401 outside /api/auth with a refresh token at hand.
Refused(c) ==
    /\ call[c].pc = "sent" /\ call[c].kind = "data" /\ ~Granted(c)
    /\ refresh # 0
    /\ Waits(c, "data")
    /\ JoinRefresh
    /\ UNCHANGED <<access, refresh, screen, loop, leaving, reloads, server, mixed, meRefused>>

\* Faulty variant: a 401 is final whether or not a refresh was tried.
FinalAtOnce(c) == TRUE

Final(c) == call[c].pc = "resent" \/ refresh = 0

\* Any other 401; a call of /api/auth may get one for a wrong password, too.
Unrecoverable(c) ==
    /\ call[c].pc \in {"sent", "resent"}
    /\ \/ call[c].kind = "auth"
       \/ ~Granted(c) /\ Final(c)
    /\ IF call[c].with # 0 THEN Expire ELSE UNCHANGED <<access, refresh, screen>>
    /\ Ends(c)
    /\ UNCHANGED <<loop, rotation, leaving, reloads, server, history>>

Tick ==
    /\ loop /\ call["tick"] = Quiet
    /\ access # 0 /\ age[access] # "new" /\ refresh # 0
    /\ Waits("tick", "tick")
    /\ JoinRefresh
    /\ UNCHANGED <<access, refresh, screen, loop, leaving, reloads, server, mixed, meRefused>>

-----------------------------------------------------------------------------
(* The refresh in flight *)

ServerRotates ==
    /\ rotation.answer = Pending
    /\ IF rotation.pair \in live
       THEN /\ minted < MaxPairs
            /\ minted' = minted + 1
            /\ live' = (live \ {rotation.pair}) \union {minted + 1}
            /\ rotation' = [rotation EXCEPT !.answer = minted + 1]
       ELSE rotation' = [rotation EXCEPT !.answer = 0] /\ UNCHANGED <<minted, live>>
    /\ UNCHANGED <<access, refresh, screen, loop, call, leaving, reloads, age, history>>

AnswerLost ==
    /\ rotation.answer # 0
    /\ rotation' = [rotation EXCEPT !.answer = 0]
    /\ lost' = TRUE
    /\ UNCHANGED <<access, refresh, screen, loop, call, leaving, reloads, server, presented, mixed, meRefused>>

Waiting == {s \in Slot : call[s].pc = "waiting"}

\* A failed refresh ends the session, for a call only if it began with one.
EndsSession(s) == call[s].kind \in {"restore", "tick"} \/ call[s].with # 0

\* Faulty variant: the loop is not told when a view waits as well.
ResumeViews(s) ==
    IF s \notin Waiting \/ (s = "tick" /\ Waiting # {"tick"}) THEN call[s]
    ELSE IF rotation.answer = 0 \/ call[s].kind = "tick" THEN Quiet
    ELSE IF call[s].kind = "restore" THEN [pc |-> "sent", kind |-> "me", with |-> rotation.answer]
    ELSE [pc |-> "resent", kind |-> "data", with |-> rotation.answer]

\* What the callers do once the promise they share has resolved.
Resume(s) ==
    IF s \notin Waiting THEN call[s]
    ELSE IF rotation.answer = 0 \/ call[s].kind = "tick" THEN Quiet
    ELSE IF call[s].kind = "restore" THEN [pc |-> "sent", kind |-> "me", with |-> rotation.answer]
    ELSE [pc |-> "resent", kind |-> "data", with |-> rotation.answer]

RotationEnds ==
    /\ rotation # NoRotation /\ rotation.answer # Pending
    /\ rotation' = NoRotation
    /\ call' = [s \in Slot |-> Resume(s)]
    /\ IF rotation.answer # 0
       THEN Persist(rotation.answer) /\ UNCHANGED screen
       ELSE IF \E s \in Waiting : EndsSession(s) THEN Expire
            ELSE UNCHANGED <<access, refresh, screen>>
    /\ mixed' = (mixed \/ rotation.pair # refresh)
    /\ presented' = IF rotation.answer = 0 /\ ~lost THEN presented \ {rotation.pair} ELSE presented
    /\ UNCHANGED <<loop, leaving, reloads, server, lost, meRefused>>

-----------------------------------------------------------------------------
(* The rest of the world *)

\* A request is answered, and an answer arrives, within the life of a new token.
Ages(p) ==
    /\ p <= minted /\ age[p] # "expired"
    /\ rotation.answer # p
    /\ \A s \in Slot : call[s].with = p => call[s].pc # "resent" /\ call[s].kind # "me"
    /\ age' = [age EXCEPT ![p] = IF @ = "new" THEN "aging" ELSE "expired"]
    /\ UNCHANGED <<tab, reloads, minted, live, history>>

\* An administrator ends all sessions, or deletes the account.
SessionsRevoked(deleted) ==
    /\ live # {}
    /\ live' = {}
    /\ age' = IF deleted THEN [p \in Pair |-> IF p <= minted THEN "expired" ELSE age[p]] ELSE age
    /\ UNCHANGED <<tab, reloads, minted, history>>

Next ==
    \/ Boot \/ Login \/ Logout \/ Tick \/ ServerRotates \/ AnswerLost \/ RotationEnds
    \/ \E b \in BOOLEAN : Enter(b) \/ LogoutReturns(b) \/ Reload(b) \/ SessionsRevoked(b)
    \/ \E c \in Call :
         \/ \E kind \in {"data", "auth"} : Send(c, kind)
         \/ Answered(c) \/ Refused(c) \/ Unrecoverable(c)
    \/ \E p \in Pair : Ages(p)

Spec == Init /\ [][Next]_vars

\* Requests are answered or fail, and the tab runs what has been answered.
FairSpec ==
    /\ Spec
    /\ WF_vars(Boot) /\ WF_vars(RotationEnds)
    /\ WF_vars(ServerRotates \/ AnswerLost)
    /\ WF_vars(\E b \in BOOLEAN : Enter(b))
    /\ WF_vars(\E b \in BOOLEAN : LogoutReturns(b))
    /\ \A c \in Call : WF_vars(Answered(c) \/ Refused(c) \/ Unrecoverable(c))

-----------------------------------------------------------------------------
(* Properties *)

\* Types; and an access token is never held without its refresh token.
TypeOK ==
    /\ access \in 0..minted /\ refresh \in 0..minted
    /\ access # 0 => access = refresh
    /\ screen \in {"boot", "login", "app"} /\ loop \in BOOLEAN
    /\ call \in [Slot -> [pc : {"idle", "sent", "waiting", "resent"}, kind : Kinds, with : 0..minted]]
    /\ rotation \in [pair : 0..minted, answer : {Pending} \union 0..minted]
    /\ leaving \in 0..minted /\ live \subseteq 1..minted
    /\ Waiting # {} => rotation # NoRotation

\* What the screen shows is what the tab holds: behind the login form there is
\* no session, unless an answer to an older refresh came in after the app was
\* left; and the app has one, unless a logout is being answered or the shell
\* was refused right after it had been granted tokens.
ScreenTellsSession ==
    /\ screen = "login" /\ call["shell"] = Quiet /\ refresh # 0 => mixed
    /\ screen = "app" /\ refresh = 0 => leaving # 0 \/ meRefused \/ mixed

\* A session that the server would renew is dropped only on request, for a 401
\* of /api/auth, for an answer lost on the way, or by a leftover of an older one.
GoodSessionKept ==
    [][ refresh' = 0 /\ refresh \in live
        => \/ Logout \/ (leaving # 0 /\ leaving' = 0 /\ mixed)
           \/ \E s \in Slot : call[s].kind \in {"auth", "me"} /\ call'[s] = Quiet
           \/ lost \/ mixed ]_vars

\* A page presents a refresh token once ("a single in-flight refresh is enforced
\* here too"), unless it was refused or the answer got lost: a second use is a
\* replay, which the server rejects.
NoReplay ==
    [][ rotation'.answer = Pending /\ rotation' # rotation
        => rotation'.pair \notin presented \/ lost ]_vars

\* The page neither burns nor drops a session that is good.
SessionKept == GoodSessionKept /\ NoReplay

\* Every call ends: none waits for a refresh that nobody is making.
CallsEnd == \A s \in Slot : call[s] # Quiet ~> call[s] = Quiet

\* What api.js says of itself: the session is over when the refresh fails too,
\* or on logout.  A 401 of /api/auth ends it without asking for a refresh.
OverOnlyAfterRefresh ==
    [][ refresh # 0 /\ refresh' = 0
        => leaving # leaving' \/ rotation # rotation' \/ meRefused' ]_vars
=============================================================================
