---------------------------- MODULE ConsoleProofs ----------------------------
(***************************************************************************)
(* Proofs about what an operator's console shows: the session of a tab      *)
(* (BrowserSession), for any number of calls, token pairs and reloads, and   *)
(* the events with their snapshots (EventStore, EventReports), for any       *)
(* number of events and cameras.                                             *)
(*                                                                           *)
(* BrowserInv is inductive: besides types and the shapes of the requests it  *)
(* says whose token each request carries, what the refresh in flight is for  *)
(* and what it brings, and of everything that breaks those rules that it is  *)
(* mixed: begun in an older session of the tab.  StoreInv says which rows,    *)
(* objects and keys belong together, WalkInv that an event falls behind the  *)
(* offset of a page only when one before it is removed.                      *)
(***************************************************************************)
EXTENDS BrowserSession, EventReports, FiniteSetTheorems, TLAPS

\* What the slots of calls and of the refresh hold while n pairs were minted.
CallUpTo(n) == [pc : {"idle", "sent", "waiting", "resent"}, kind : Kinds, with : 0..n]
RotationUpTo(n) == [pair : 0..n, answer : {Pending} \union 0..n]

Tokens ==
    /\ minted \in 0..MaxPairs /\ access \in 0..minted /\ refresh \in 0..minted
    /\ access # 0 => access = refresh
    /\ screen \in {"boot", "login", "app"} /\ loop \in BOOLEAN
    /\ rotation \in RotationUpTo(minted)
    /\ leaving \in 0..minted /\ live \subseteq 1..minted
    /\ age \in [Pair -> {"new", "aging", "expired"}]
    /\ \A p \in Pair : p > minted => age[p] = "new"
    /\ presented \subseteq 1..minted
    /\ lost \in BOOLEAN /\ mixed \in BOOLEAN /\ meRefused \in BOOLEAN

CallsTyped == call \in [Slot -> CallUpTo(minted)]

\* The shell restores a session or asks who it is, the loop only ever waits, and
\* a view sends again what is not of /api/auth.
Shapes ==
    /\ \A s \in Slot : call[s].pc = "idle" => call[s] = Quiet
    /\ call["shell"].pc = "waiting" => call["shell"].kind = "restore" /\ screen = "boot"
    /\ call["shell"].pc = "sent" => call["shell"].kind = "me" /\ call["shell"].with # 0
    /\ call["shell"].pc # "resent"
    /\ call["tick"].pc \in {"idle", "waiting"}
    /\ call["tick"].pc = "waiting" => call["tick"].kind = "tick"
    /\ \A c \in Call :
          /\ call[c].pc = "waiting" => call[c].kind = "data"
          /\ call[c].pc = "resent" => call[c].kind = "data" /\ call[c].with # 0
    /\ \A s \in Slot : call[s].pc = "waiting" => rotation # NoRotation

\* Nothing is under way but the shell's own call.
Alone == leaving = 0 /\ \A s \in Slot \ {"shell"} : call[s] = Quiet

\* The page is opened alone, and a shell that asks who it is does so for the
\* session of the tab, unless that has ended meanwhile.
ShellInv ==
    /\ call["shell"] # Quiet => screen # "app"
    /\ screen = "boot" => Alone /\ ~loop /\ (rotation # NoRotation => call["shell"].pc = "waiting")
    /\ call["shell"].pc = "sent" =>
          \/ mixed
          \/ age[call["shell"].with] = "expired"
          \/ /\ refresh = call["shell"].with /\ age[refresh] = "new"
             /\ Alone /\ rotation = NoRotation

\* The refresh in flight is for the token of the tab; what it brings is good
\* unless all sessions were ended, and a refused token is no longer good.
RotationInv ==
    /\ rotation # NoRotation =>
          rotation.pair # 0 /\ (rotation.pair = refresh \/ refresh = 0 \/ mixed)
    /\ rotation.answer \notin {0, Pending} =>
          /\ age[rotation.answer] = "new" \/ (age[rotation.answer] = "expired" /\ (live = {} \/ mixed))
          /\ rotation.answer \notin presented
    /\ rotation # NoRotation /\ rotation.answer = 0 /\ ~lost => rotation.pair \notin live

\* A call that was sent again is refused only when all sessions were ended.
ResentInv ==
    \A c \in Call : call[c].pc = "resent" /\ age[call[c].with] = "expired" => live = {} \/ mixed

\* A new session while an older one is being logged out is mixed with it.
LeavingInv == leaving # 0 /\ refresh # 0 => mixed

\* The token of the tab was presented only if it is the one in flight, or the
\* answer got lost.
PresentedInv ==
    refresh \in presented =>
        IF rotation = NoRotation THEN lost ELSE refresh = rotation.pair

BrowserInv ==
    /\ Tokens /\ CallsTyped /\ Shapes /\ ShellInv /\ RotationInv /\ ResentInv
    /\ LeavingInv /\ PresentedInv /\ ScreenTellsSession

-----------------------------------------------------------------------------
(* Slots, requests and the shared refresh *)

\* The shell and the loop have slots of their own.
LEMMA SlotFacts ==
    /\ "shell" \in Slot /\ "tick" \in Slot /\ "shell" # "tick" /\ Call \subseteq Slot
    /\ "shell" \notin Call /\ "tick" \notin Call
    /\ \A s \in Slot : s \in Call \/ s = "shell" \/ s = "tick"
BY BrowserAssumption DEF Slot

LEMMA KindFacts == {"data", "auth", "restore", "me", "tick"} = Kinds
BY DEF Kinds

\* The pairs minted so far stay pairs when one more is minted.
LEMMA OneMore ==
    ASSUME Tokens, minted < MaxPairs
    PROVE  /\ minted + 1 \in Nat /\ minted + 1 \in 0..MaxPairs /\ minted + 1 \in Pair
           /\ minted + 1 \in 1..(minted + 1) /\ minted + 1 \in 0..(minted + 1)
           /\ 0..minted \subseteq 0..(minted + 1) /\ 1..minted \subseteq 1..(minted + 1)
           /\ minted <= minted + 1 /\ minted + 1 > minted
           /\ minted + 1 # 0 /\ minted + 1 # Pending
           /\ minted + 1 \notin 0..minted /\ minted + 1 \notin 1..minted
           /\ \A p \in Pair : p > minted + 1 => p > minted
BY BrowserAssumption DEF Tokens, Pair, Pending

\* One request changes, the pairs may have become more: the calls stay typed.
LEMMA OneCall ==
    ASSUME NEW n \in Nat, NEW m \in Nat, n <= m,
           NEW f \in [Slot -> CallUpTo(n)], NEW s \in Slot,
           NEW pc \in {"idle", "sent", "waiting", "resent"}, NEW kind \in Kinds, NEW w \in 0..m
    PROVE  [f EXCEPT ![s] = [pc |-> pc, kind |-> kind, with |-> w]] \in [Slot -> CallUpTo(m)]
<1> DEFINE q == [pc |-> pc, kind |-> kind, with |-> w]
<1>1. q \in CallUpTo(m)
  BY DEF CallUpTo
<1>2. 0..n \subseteq 0..m
  OBVIOUS
<1>3. CallUpTo(n) \subseteq CallUpTo(m)
  BY <1>2 DEF CallUpTo
<1> HIDE DEF q
<1>4. [f EXCEPT ![s] = q] \in [Slot -> CallUpTo(m)]
  BY <1>1, <1>3
<1> QED
  BY <1>4 DEF q

\* Joining makes sure that a refresh is in flight, for a token that exists.
LEMMA Joined ==
    ASSUME Tokens, refresh # 0, JoinRefresh
    PROVE  /\ rotation' \in RotationUpTo(minted) /\ rotation' # NoRotation
           /\ presented' \subseteq 1..minted /\ lost' \in BOOLEAN
<1>1. CASE rotation # NoRotation
  BY <1>1 DEF JoinRefresh, Tokens
<1>2. CASE rotation = NoRotation
  <2>1. rotation' = [pair |-> refresh, answer |-> Pending] /\ refresh \in 0..minted /\ refresh \in 1..minted
    BY <1>2 DEF JoinRefresh, Tokens
  <2>2. rotation' \in RotationUpTo(minted) /\ rotation'.pair # 0
    BY <2>1 DEF RotationUpTo
  <2>3. rotation' # NoRotation
    BY <2>2 DEF NoRotation
  <2> QED
    BY <1>2, <2>1, <2>2, <2>3 DEF JoinRefresh, Tokens
<1> QED
  BY <1>1, <1>2

\* A refresh in flight is for a token that exists.
LEMMA InFlight ==
    ASSUME Tokens, RotationInv
    PROVE  /\ rotation.pair \in 0..minted /\ rotation.answer \in {Pending} \union 0..minted
           /\ rotation # NoRotation <=> rotation.pair # 0
           /\ rotation.answer # 0 => rotation # NoRotation
           /\ rotation.answer \notin {0, Pending} => rotation.answer \in Pair /\ rotation.answer <= minted
BY BrowserAssumption DEF Tokens, RotationUpTo, RotationInv, NoRotation, Pair

\* An answer changes nothing else of it.
LEMMA Replied ==
    ASSUME Tokens, NEW n, rotation' = [rotation EXCEPT !.answer = n]
    PROVE  rotation'.pair = rotation.pair /\ rotation'.answer = n
BY DEF Tokens, RotationUpTo

\* The token of a request is none, or was minted.
LEMMA Carried ==
    ASSUME Tokens, CallsTyped, NEW s \in Slot
    PROVE  /\ call[s] \in CallUpTo(minted) /\ call[s].with \in 0..minted
           /\ call[s].with # 0 => call[s].with \in Pair /\ call[s].with <= minted
<1>1. call[s] \in CallUpTo(minted)
  BY DEF CallsTyped
<1>2. call[s].with \in 0..minted
  BY <1>1 DEF CallUpTo
<1> QED
  BY <1>1, <1>2, BrowserAssumption DEF Tokens, Pair

\* How the end of a refresh moves those who wait for it.
LEMMA Resumed ==
    ASSUME RotationEnds, NEW s \in Slot
    PROVE  /\ call[s].pc # "waiting" => call'[s] = call[s]
           /\ call[s].pc = "waiting" /\ (rotation.answer = 0 \/ call[s].kind = "tick") => call'[s] = Quiet
           /\ call[s].pc = "waiting" /\ rotation.answer # 0 /\ call[s].kind = "restore"
                => call'[s] = [pc |-> "sent", kind |-> "me", with |-> rotation.answer]
           /\ call[s].pc = "waiting" /\ rotation.answer # 0 /\ call[s].kind = "data"
                => call'[s] = [pc |-> "resent", kind |-> "data", with |-> rotation.answer]
<1>1. call'[s] = Resume(s) /\ (s \in Waiting <=> call[s].pc = "waiting")
  BY DEF RotationEnds, Waiting
<1>2. CASE s \notin Waiting
  BY <1>1, <1>2 DEF Resume
<1>3. CASE s \in Waiting /\ (rotation.answer = 0 \/ call[s].kind = "tick")
  BY <1>1, <1>3 DEF Resume
<1>4. CASE s \in Waiting /\ rotation.answer # 0 /\ call[s].kind = "restore"
  BY <1>1, <1>4 DEF Resume
<1>5. CASE s \in Waiting /\ rotation.answer # 0 /\ call[s].kind \notin {"tick", "restore"}
  BY <1>1, <1>5 DEF Resume
<1> QED
  BY <1>1, <1>2, <1>3, <1>4, <1>5

-----------------------------------------------------------------------------
(* What every step keeps *)

LEMMA StepTokens ==
    ASSUME BrowserInv, Next
    PROVE  Tokens'
<1> USE DEF BrowserInv
<1>1. CASE Boot
  <2>1. UNCHANGED <<minted, access, refresh, leaving, live, age, loop, mixed, meRefused>>
    BY <1>1 DEF Boot, server
  <2>2. rotation' \in RotationUpTo(minted) /\ presented' \subseteq 1..minted /\ lost' \in BOOLEAN
    BY <1>1, Joined DEF Boot, Tokens
  <2> QED
    BY <1>1, <2>1, <2>2 DEF Tokens, Boot
<1>2. CASE Login
  <2>1. /\ minted' = minted + 1 /\ access' = minted + 1 /\ refresh' = minted + 1
        /\ minted < MaxPairs /\ live' = live \union {minted + 1} /\ mixed' \in BOOLEAN /\ meRefused' = FALSE
        /\ UNCHANGED <<screen, loop, rotation, leaving, age, presented, lost>>
    BY <1>2 DEF Login, Persist
  <2>2. rotation' \in RotationUpTo(minted')
    BY <2>1, OneMore DEF Tokens, RotationUpTo
  <2> QED
    BY <2>1, <2>2, OneMore DEF Tokens
<1>3. CASE Logout
  BY <1>3 DEF Logout, clearSession, Tokens, server, history
<1>4. CASE Tick
  <2>1. UNCHANGED <<minted, access, refresh, screen, leaving, live, age, loop, mixed, meRefused>>
    BY <1>4 DEF Tick, server
  <2>2. rotation' \in RotationUpTo(minted) /\ presented' \subseteq 1..minted /\ lost' \in BOOLEAN
    BY <1>4, Joined DEF Tick, Tokens
  <2> QED
    BY <2>1, <2>2 DEF Tokens
<1>5. CASE ServerRotates
  <2>1. UNCHANGED <<access, refresh, screen, loop, leaving, age, presented, lost, mixed, meRefused>>
    BY <1>5 DEF ServerRotates, history
  <2>2. CASE rotation.pair \in live
    <3>1. /\ minted' = minted + 1 /\ minted < MaxPairs /\ live' \subseteq live \union {minted + 1}
          /\ rotation' = [rotation EXCEPT !.answer = minted + 1]
      BY <1>5, <2>2 DEF ServerRotates
    <3>2. rotation' \in RotationUpTo(minted')
      BY <3>1, OneMore DEF Tokens, RotationUpTo
    <3> QED
      BY <2>1, <3>1, <3>2, OneMore DEF Tokens
  <2>3. CASE rotation.pair \notin live
    <3>1. UNCHANGED <<minted, live>> /\ rotation' = [rotation EXCEPT !.answer = 0]
      BY <1>5, <2>3 DEF ServerRotates
    <3>2. rotation' \in RotationUpTo(minted)
      BY <3>1 DEF Tokens, RotationUpTo
    <3> QED
      BY <2>1, <3>1, <3>2 DEF Tokens
  <2> QED
    BY <2>2, <2>3
<1>6. CASE AnswerLost
  <2>1. rotation' \in RotationUpTo(minted)
    BY <1>6 DEF AnswerLost, Tokens, RotationUpTo
  <2> QED
    BY <1>6, <2>1 DEF AnswerLost, Tokens, server
<1>7. CASE RotationEnds
  <2>1. rotation.answer \in 0..minted
    BY <1>7 DEF RotationEnds, Tokens, RotationUpTo
  <2>2. presented' \subseteq presented /\ screen' \in {"login", screen} /\ mixed' \in BOOLEAN
    BY <1>7 DEF RotationEnds, Expire, LeaveApp
  <2>3. (access' = refresh' /\ refresh' \in 0..minted) \/ UNCHANGED <<access, refresh>>
    BY <1>7, <2>1 DEF RotationEnds, Persist, Expire, LeaveApp, clearSession
  <2>4. rotation' \in RotationUpTo(minted)
    BY <1>7 DEF RotationEnds, NoRotation, RotationUpTo, Tokens
  <2> QED
    BY <1>7, <2>2, <2>3, <2>4 DEF RotationEnds, Tokens, server
<1>8. ASSUME NEW b \in BOOLEAN, Enter(b) PROVE Tokens'
  <2>1. access' \in {0, access} /\ refresh' \in {0, refresh} /\ (access' # 0 => access' = refresh')
    BY <1>8 DEF Enter, clearSession, Tokens
  <2>2. meRefused' \in BOOLEAN /\ loop' \in BOOLEAN /\ screen' = "app"
    BY <1>8 DEF Enter, Tokens
  <2> QED
    BY <1>8, <2>1, <2>2 DEF Enter, Tokens, server
<1>9. ASSUME NEW b \in BOOLEAN, LogoutReturns(b) PROVE Tokens'
  BY <1>9 DEF LogoutReturns, LeaveApp, clearSession, Tokens, history
<1>10. ASSUME NEW b \in BOOLEAN, Reload(b) PROVE Tokens'
  <2>1. live' \subseteq live /\ rotation' \in RotationUpTo(minted)
    BY <1>10 DEF Reload, NoRotation, RotationUpTo, Tokens
  <2>2. /\ access' = 0 /\ screen' = "boot" /\ loop' = FALSE /\ leaving' = 0 /\ presented' = {}
        /\ lost' = FALSE /\ mixed' = FALSE /\ UNCHANGED <<refresh, minted, age, meRefused>>
    BY <1>10 DEF Reload
  <2>3. 0 \in 0..minted /\ live' \subseteq 1..minted
    BY <2>1 DEF Tokens
  <2> QED
    BY <2>1, <2>2, <2>3 DEF Tokens
<1>11. ASSUME NEW b \in BOOLEAN, SessionsRevoked(b) PROVE Tokens'
  <2>1. age' \in [Pair -> {"new", "aging", "expired"}] /\ \A p \in Pair : p > minted => age'[p] = "new"
    BY <1>11 DEF SessionsRevoked, Tokens, Pair
  <2> QED
    BY <1>11, <2>1 DEF SessionsRevoked, Tokens, tab, history
<1>12. ASSUME NEW c \in Call, NEW kind \in {"data", "auth"}, Send(c, kind) PROVE Tokens'
  BY <1>12 DEF Send, Tokens, server, history
<1>13. ASSUME NEW c \in Call, Answered(c) PROVE Tokens'
  BY <1>13 DEF Answered, Tokens, server, history
<1>14. ASSUME NEW c \in Call, Refused(c) PROVE Tokens'
  <2>1. UNCHANGED <<minted, access, refresh, screen, leaving, live, age, loop, mixed, meRefused>>
    BY <1>14 DEF Refused, server
  <2>2. rotation' \in RotationUpTo(minted) /\ presented' \subseteq 1..minted /\ lost' \in BOOLEAN
    BY <1>14, Joined DEF Refused, Tokens
  <2> QED
    BY <2>1, <2>2 DEF Tokens
<1>15. ASSUME NEW c \in Call, Unrecoverable(c) PROVE Tokens'
  <2>1. (access' = 0 /\ refresh' = 0 /\ screen' = "login") \/ UNCHANGED <<access, refresh, screen>>
    BY <1>15 DEF Unrecoverable, Expire, LeaveApp, clearSession
  <2> QED
    BY <1>15, <2>1 DEF Unrecoverable, Tokens, server, history
<1>16. ASSUME NEW p \in Pair, Ages(p) PROVE Tokens'
  <2>1. age' \in [Pair -> {"new", "aging", "expired"}] /\ \A q \in Pair : q > minted => age'[q] = "new"
    BY <1>16 DEF Ages, Tokens, Pair
  <2> QED
    BY <1>16, <2>1 DEF Ages, Tokens, tab, history
<1> QED
  BY ONLY <1>1, <1>2, <1>3, <1>4, <1>5, <1>6, <1>7, <1>8,
          <1>9, <1>10, <1>11, <1>12, <1>13, <1>14, <1>15, <1>16, Next DEF Next

LEMMA StepCalls ==
    ASSUME BrowserInv, Next
    PROVE  CallsTyped'
<1> USE SlotFacts, KindFacts DEF BrowserInv, Quiet
<1>0. /\ minted \in Nat /\ minted <= minted /\ 0 \in 0..minted /\ access \in 0..minted
      /\ \A s \in Slot : call[s] \in CallUpTo(minted) /\ call[s].with \in 0..minted
  BY DEF Tokens, CallsTyped, CallUpTo
<1>e. \A s \in Slot : [call EXCEPT ![s] = Quiet] \in [Slot -> CallUpTo(minted)]
  BY <1>0, OneCall DEF CallsTyped
<1>1. CASE Boot
  <2>1. CASE refresh = 0
    BY <1>1, <2>1 DEF Boot, CallsTyped, server
  <2>2. CASE refresh # 0
    <3>1. Waits("shell", "restore") /\ minted' = minted
      BY <1>1, <2>2 DEF Boot, server
    <3> QED
      BY <1>0, <3>1, OneCall DEF Waits, CallsTyped
  <2> QED
    BY <2>1, <2>2
<1>2. CASE Login
  <2>1. call' \in [Slot -> CallUpTo(minted + 1)]
    BY <1>0, <1>2, OneMore, OneCall DEF Login, Sends, CallsTyped
  <2> QED
    BY <1>2, <2>1 DEF Login, CallsTyped
<1>3. CASE Logout
  BY <1>3 DEF Logout, server, CallsTyped
<1>4. CASE Tick
  BY <1>0, <1>4, OneCall DEF Tick, Waits, server, CallsTyped
<1>5. CASE ServerRotates
  <2>1. minted' = minted \/ (minted < MaxPairs /\ minted' = minted + 1)
    BY <1>5 DEF ServerRotates
  <2>2. CallUpTo(minted) \subseteq CallUpTo(minted')
    BY <2>1, OneMore DEF CallUpTo
  <2> QED
    BY <1>5, <2>2 DEF ServerRotates, CallsTyped
<1>6. CASE AnswerLost
  BY <1>6 DEF AnswerLost, server, CallsTyped
<1>7. CASE RotationEnds
  <2>1. rotation.answer \in 0..minted /\ minted' = minted
    BY <1>7 DEF RotationEnds, Tokens, RotationUpTo, server
  <2>2. ASSUME NEW s \in Slot PROVE Resume(s) \in CallUpTo(minted)
    BY <1>0, <2>1 DEF Resume, CallUpTo
  <2> QED
    BY <1>7, <2>1, <2>2 DEF RotationEnds, CallsTyped
<1>8. ASSUME NEW b \in BOOLEAN, Enter(b) PROVE CallsTyped'
  BY <1>0, <1>8, OneCall DEF Enter, Ends, server, CallsTyped
<1>9. ASSUME NEW b \in BOOLEAN, LogoutReturns(b) PROVE CallsTyped'
  BY <1>9 DEF LogoutReturns, CallsTyped
<1>10. ASSUME NEW b \in BOOLEAN, Reload(b) PROVE CallsTyped'
  <2>1. Quiet \in CallUpTo(minted)
    BY <1>0 DEF CallUpTo
  <2> QED
    BY <1>10, <2>1 DEF Reload, CallsTyped
<1>11. ASSUME NEW b \in BOOLEAN, SessionsRevoked(b) PROVE CallsTyped'
  BY <1>11 DEF SessionsRevoked, tab, CallsTyped
<1>12. ASSUME NEW c \in Call, NEW kind \in {"data", "auth"}, Send(c, kind) PROVE CallsTyped'
  <2>1. Sends(c, kind, access) /\ minted' = minted /\ kind \in Kinds
    BY <1>12 DEF Send, server
  <2> QED
    BY <1>0, <2>1, OneCall DEF Sends, CallsTyped
<1>13. ASSUME NEW c \in Call, Answered(c) PROVE CallsTyped'
  <2>1. Ends(c) /\ minted' = minted
    BY <1>13 DEF Answered, server
  <2> QED
    BY <2>1, <1>e DEF Ends, CallsTyped, Slot
<1>14. ASSUME NEW c \in Call, Refused(c) PROVE CallsTyped'
  <2>1. Waits(c, "data") /\ minted' = minted
    BY <1>14 DEF Refused, server
  <2> QED
    BY <1>0, <2>1, OneCall DEF Waits, CallsTyped
<1>15. ASSUME NEW c \in Call, Unrecoverable(c) PROVE CallsTyped'
  <2>1. Ends(c) /\ minted' = minted
    BY <1>15 DEF Unrecoverable, server
  <2> QED
    BY <2>1, <1>e DEF Ends, CallsTyped, Slot
<1>16. ASSUME NEW p \in Pair, Ages(p) PROVE CallsTyped'
  BY <1>16 DEF Ages, tab, CallsTyped
<1> QED
  BY ONLY <1>1, <1>2, <1>3, <1>4, <1>5, <1>6, <1>7, <1>8,
          <1>9, <1>10, <1>11, <1>12, <1>13, <1>14, <1>15, <1>16, Next DEF Next

LEMMA StepShapes ==
    ASSUME BrowserInv, Next
    PROVE  Shapes'
<1> USE SlotFacts DEF BrowserInv, CallsTyped, Quiet
<1>0. \A s \in Slot : call[s] \in CallUpTo(minted)
  BY DEF CallsTyped
<1>1. CASE Boot
  <2>1. CASE refresh = 0
    BY <1>1, <2>1 DEF Boot, Shapes
  <2>2. CASE refresh # 0
    BY <1>1, <2>2, Joined DEF Boot, Waits, Shapes
  <2> QED
    BY <2>1, <2>2
<1>2. CASE Login
  BY <1>2, OneMore DEF Login, Sends, Shapes

<1>3. CASE Logout
  BY <1>3, <1>0 DEF Logout, Shapes

<1>4. CASE Tick
  BY <1>4, Joined DEF Tick, Waits, Shapes
<1>5. CASE ServerRotates
  <2>1. rotation' # NoRotation
    BY <1>5, InFlight, Replied DEF ServerRotates, Pending, NoRotation
  <2> QED
    BY <1>5, <2>1 DEF ServerRotates, Shapes
<1>6. CASE AnswerLost
  <2>1. rotation' # NoRotation
    BY <1>6, InFlight, Replied DEF AnswerLost, NoRotation
  <2> QED
    BY <1>6, <2>1 DEF AnswerLost, Shapes
<1>7. CASE RotationEnds
  <2>1. \A s \in Slot : call'[s].pc # "waiting"
    BY <1>7, Resumed DEF Shapes
  <2>2. ASSUME NEW s \in Slot
        PROVE  \/ call'[s] = call[s] \/ call'[s] = Quiet
               \/ /\ s = "shell" /\ rotation.answer # 0
                  /\ call'[s] = [pc |-> "sent", kind |-> "me", with |-> rotation.answer]
               \/ /\ s \in Call /\ rotation.answer # 0
                  /\ call'[s] = [pc |-> "resent", kind |-> "data", with |-> rotation.answer]
    BY <1>7, Resumed DEF Shapes
  <2> QED
    BY <2>1, <2>2 DEF Shapes
<1>8. ASSUME NEW b \in BOOLEAN, Enter(b) PROVE Shapes'
  BY <1>8 DEF Enter, Ends, Shapes
<1>9. ASSUME NEW b \in BOOLEAN, LogoutReturns(b) PROVE Shapes'
  <2>1. screen # "boot"
    BY <1>9 DEF LogoutReturns, ShellInv, Alone
  <2> QED
    BY <1>9, <2>1 DEF LogoutReturns, Shapes
<1>10. ASSUME NEW b \in BOOLEAN, Reload(b) PROVE Shapes'
  BY <1>10 DEF Reload, Shapes
<1>11. ASSUME NEW b \in BOOLEAN, SessionsRevoked(b) PROVE Shapes'
  BY <1>11 DEF SessionsRevoked, Shapes, tab
<1>12. ASSUME NEW c \in Call, NEW kind \in {"data", "auth"}, Send(c, kind) PROVE Shapes'
  BY <1>12 DEF Send, Sends, Shapes
<1>13. ASSUME NEW c \in Call, Answered(c) PROVE Shapes'
  BY <1>13 DEF Answered, Ends, Shapes
<1>14. ASSUME NEW c \in Call, Refused(c) PROVE Shapes'
  BY <1>14, Joined DEF Refused, Waits, Shapes
<1>15. ASSUME NEW c \in Call, Unrecoverable(c) PROVE Shapes'
  <2>1. screen # "boot"
    BY <1>15 DEF Unrecoverable, ShellInv, Alone
  <2> QED
    BY <1>15, <2>1 DEF Unrecoverable, Ends, Shapes
<1>16. ASSUME NEW p \in Pair, Ages(p) PROVE Shapes'
  BY <1>16 DEF Ages, Shapes, tab
<1> QED
  BY ONLY <1>1, <1>2, <1>3, <1>4, <1>5, <1>6, <1>7, <1>8,
          <1>9, <1>10, <1>11, <1>12, <1>13, <1>14, <1>15, <1>16, Next DEF Next

LEMMA StepShell ==
    ASSUME BrowserInv, Next
    PROVE  ShellInv'
<1> USE SlotFacts DEF BrowserInv, CallsTyped, Quiet
<1>1. CASE Boot
  BY <1>1 DEF Boot, Waits, ShellInv, Alone
<1>2. CASE Login
  <2>1. call'["shell"] = [pc |-> "sent", kind |-> "me", with |-> minted + 1] /\ screen' = "login"
    BY <1>2 DEF Login, Sends
  <2>2. CASE ~mixed'
    <3>1. rotation' = NoRotation /\ leaving' = 0 /\ \A s \in Slot \ {"shell"} : call'[s] = Quiet
      BY <1>2, <2>2 DEF Login, Sends
    <3>2. refresh' = minted + 1 /\ age'[minted + 1] = "new"
      BY <1>2, OneMore DEF Login, Persist, Tokens
    <3> QED
      BY <2>1, <3>1, <3>2 DEF ShellInv, Alone
  <2> QED
    BY <2>1, <2>2 DEF ShellInv
<1>3. CASE Logout
  BY <1>3 DEF Logout, ShellInv
<1>4. CASE Tick
  <2>1. screen # "boot" /\ call'["shell"] = call["shell"] /\ UNCHANGED <<screen, loop, mixed, age>>
    BY <1>4 DEF Tick, Waits, ShellInv, server
  <2>2. call["shell"].pc = "sent" => mixed \/ age[call["shell"].with] = "expired"
    BY <1>4 DEF Tick, ShellInv, Tokens
  <2> QED
    BY <2>1, <2>2 DEF ShellInv
<1>5. CASE ServerRotates
  <2>1. rotation # NoRotation /\ UNCHANGED <<refresh, screen, loop, call, leaving, mixed, age>>
    BY <1>5, InFlight DEF ServerRotates, Pending, history
  <2> QED
    BY <2>1 DEF ShellInv, Alone
<1>6. CASE AnswerLost
  <2>1. rotation # NoRotation /\ UNCHANGED <<refresh, screen, loop, call, leaving, mixed, age>>
    BY <1>6, InFlight DEF AnswerLost, server
  <2> QED
    BY <2>1 DEF ShellInv, Alone
<1>7. CASE RotationEnds
  <2>1. screen' \in {"login", screen} /\ rotation' = NoRotation /\ UNCHANGED <<leaving, loop, age>>
    BY <1>7 DEF RotationEnds, Expire, LeaveApp, server
  <2>2. \A s \in Slot : call[s] = Quiet => call'[s] = Quiet
    BY <1>7, Resumed
  <2>3. Alone => Alone'
    BY <2>1, <2>2 DEF Alone
  <2>4. CASE call["shell"].pc = "waiting" /\ rotation.answer # 0
    <3>1. screen = "boot" /\ call'["shell"] = [pc |-> "sent", kind |-> "me", with |-> rotation.answer]
      BY <1>7, <2>4, Resumed DEF Shapes
    <3>2. screen' = "boot" /\ Alone /\ ~loop /\ refresh' = rotation.answer
      BY <1>7, <2>4, <3>1 DEF RotationEnds, Persist, ShellInv
    <3>3. mixed' \/ age[rotation.answer] \in {"new", "expired"}
      BY <1>7, <2>4 DEF RotationEnds, RotationInv
    <3> QED
      BY <2>1, <2>3, <3>1, <3>2, <3>3 DEF ShellInv
  <2>5. CASE call["shell"].pc = "waiting" /\ rotation.answer = 0
    <3>1. call'["shell"] = Quiet
      BY <1>7, <2>5, Resumed
    <3> QED
      BY <2>1, <2>3, <3>1 DEF ShellInv
  <2>6. CASE call["shell"].pc # "waiting"
    <3>1. call'["shell"] = call["shell"] /\ (mixed => mixed')
      BY <1>7, <2>6, Resumed DEF RotationEnds
    <3>2. call["shell"].pc = "sent" => mixed \/ age[call["shell"].with] = "expired"
      BY <1>7 DEF RotationEnds, ShellInv
    <3> QED
      BY <2>1, <2>3, <3>1, <3>2 DEF ShellInv
  <2> QED
    BY <2>4, <2>5, <2>6
<1>8. ASSUME NEW b \in BOOLEAN, Enter(b) PROVE ShellInv'
  BY <1>8 DEF Enter, Ends, ShellInv
<1>9. ASSUME NEW b \in BOOLEAN, LogoutReturns(b) PROVE ShellInv'
  BY <1>9 DEF LogoutReturns, LeaveApp, ShellInv, Alone, history
<1>10. ASSUME NEW b \in BOOLEAN, Reload(b) PROVE ShellInv'
  BY <1>10 DEF Reload, ShellInv, Alone
<1>11. ASSUME NEW b \in BOOLEAN, SessionsRevoked(b) PROVE ShellInv'
  <2>1. UNCHANGED <<screen, loop, call, rotation, leaving, refresh, mixed>>
    BY <1>11 DEF SessionsRevoked, tab, history
  <2>2. CASE age' = age
    BY <2>1, <2>2 DEF ShellInv, Alone
  <2>3. CASE age' # age
    <3>1. call["shell"].pc = "sent" => call["shell"].with \in Pair /\ call["shell"].with <= minted
      BY Carried DEF Shapes
    <3>2. call["shell"].pc = "sent" => age'[call["shell"].with] = "expired"
      BY <1>11, <2>3, <3>1 DEF SessionsRevoked
    <3> QED
      BY <2>1, <3>2 DEF ShellInv, Alone
  <2> QED
    BY <2>2, <2>3
<1>12. ASSUME NEW c \in Call, NEW kind \in {"data", "auth"}, Send(c, kind) PROVE ShellInv'
  BY <1>12 DEF Send, Sends, ShellInv
<1>13. ASSUME NEW c \in Call, Answered(c) PROVE ShellInv'
  BY <1>13 DEF Answered, Ends, ShellInv, Alone, server, history
<1>14. ASSUME NEW c \in Call, Refused(c) PROVE ShellInv'
  BY <1>14 DEF Refused, Waits, ShellInv, Alone, server
<1>15. ASSUME NEW c \in Call, Unrecoverable(c) PROVE ShellInv'
  BY <1>15 DEF Unrecoverable, Expire, LeaveApp, Ends, ShellInv, Alone, server, history
<1>16. ASSUME NEW p \in Pair, Ages(p) PROVE ShellInv'
  <2>1. UNCHANGED <<screen, loop, call, rotation, leaving, refresh, mixed>>
    BY <1>16 DEF Ages, tab, history
  <2>2. ASSUME call["shell"].pc = "sent" PROVE age'[call["shell"].with] = age[call["shell"].with]
    BY <1>16, <2>2 DEF Ages, Shapes
  <2> QED
    BY <2>1, <2>2 DEF ShellInv, Alone
<1> QED
  BY ONLY <1>1, <1>2, <1>3, <1>4, <1>5, <1>6, <1>7, <1>8,
          <1>9, <1>10, <1>11, <1>12, <1>13, <1>14, <1>15, <1>16, Next DEF Next

LEMMA StepRotation ==
    ASSUME BrowserInv, Next
    PROVE  RotationInv'
<1> USE DEF BrowserInv
<1>1. CASE Boot
  BY <1>1 DEF Boot, JoinRefresh, RotationInv, Pending, server
<1>2. CASE Login
  <2>1. UNCHANGED <<rotation, age, presented, lost>> /\ live' = live \union {minted + 1}
    BY <1>2 DEF Login
  <2>2. rotation # NoRotation => mixed'
    BY <1>2 DEF Login
  <2>3. rotation.pair # minted + 1
    BY <1>2, InFlight, OneMore DEF Login
  <2>4. rotation.answer \notin {0, Pending} => rotation # NoRotation
    BY InFlight
  <2> QED
    BY <2>1, <2>2, <2>3, <2>4 DEF RotationInv
<1>3. CASE Logout
  BY <1>3 DEF Logout, clearSession, RotationInv, server, history
<1>4. CASE Tick
  BY <1>4 DEF Tick, JoinRefresh, RotationInv, Pending, server
<1>5. CASE ServerRotates
  <2>1. rotation # NoRotation /\ UNCHANGED <<refresh, age, presented, lost, mixed>>
    BY <1>5, InFlight DEF ServerRotates, Pending, history
  <2>2. CASE rotation.pair \in live
    <3>1. rotation'.pair = rotation.pair /\ rotation'.answer = minted + 1 /\ minted < MaxPairs
      BY <1>5, <2>2, Replied DEF ServerRotates
    <3>2. age[minted + 1] = "new" /\ minted + 1 \notin presented /\ minted + 1 # 0
      BY <3>1, OneMore DEF Tokens
    <3> QED
      BY <2>1, <3>1, <3>2 DEF RotationInv
  <2>3. CASE rotation.pair \notin live
    <3>1. rotation'.pair = rotation.pair /\ rotation'.answer = 0 /\ live' = live
      BY <1>5, <2>3, Replied DEF ServerRotates
    <3> QED
      BY <2>1, <2>3, <3>1 DEF RotationInv
  <2> QED
    BY <2>2, <2>3
<1>6. CASE AnswerLost
  <2>1. rotation # NoRotation /\ rotation'.pair = rotation.pair /\ rotation'.answer = 0 /\ lost'
    BY <1>6, InFlight, Replied DEF AnswerLost
  <2> QED
    BY <1>6, <2>1 DEF AnswerLost, RotationInv
<1>7. CASE RotationEnds
  BY <1>7 DEF RotationEnds, RotationInv, NoRotation

<1>8. ASSUME NEW b \in BOOLEAN, Enter(b) PROVE RotationInv'
  BY <1>8 DEF Enter, clearSession, RotationInv, server
<1>9. ASSUME NEW b \in BOOLEAN, LogoutReturns(b) PROVE RotationInv'
  BY <1>9 DEF LogoutReturns, LeaveApp, clearSession, RotationInv, history
<1>10. ASSUME NEW b \in BOOLEAN, Reload(b) PROVE RotationInv'
  BY <1>10 DEF Reload, RotationInv, NoRotation
<1>11. ASSUME NEW b \in BOOLEAN, SessionsRevoked(b) PROVE RotationInv'
  <2>1. UNCHANGED <<rotation, refresh, mixed, presented, lost>> /\ live' = {}
    BY <1>11 DEF SessionsRevoked, tab, history
  <2>2. ASSUME rotation.answer \notin {0, Pending}, age' # age
        PROVE  age'[rotation.answer] = "expired"
    <3>1. rotation.answer \in Pair /\ rotation.answer <= minted
      BY <2>2, InFlight
    <3> QED
      BY <1>11, <2>2, <3>1 DEF SessionsRevoked
  <2> QED
    BY <2>1, <2>2 DEF RotationInv
<1>12. ASSUME NEW c \in Call, NEW kind \in {"data", "auth"}, Send(c, kind) PROVE RotationInv'
  BY <1>12 DEF Send, RotationInv, server, history
<1>13. ASSUME NEW c \in Call, Answered(c) PROVE RotationInv'
  BY <1>13 DEF Answered, RotationInv, server, history
<1>14. ASSUME NEW c \in Call, Refused(c) PROVE RotationInv'
  BY <1>14 DEF Refused, JoinRefresh, RotationInv, Pending, server
<1>15. ASSUME NEW c \in Call, Unrecoverable(c) PROVE RotationInv'
  BY <1>15 DEF Unrecoverable, Expire, LeaveApp, clearSession, RotationInv, server, history
<1>16. ASSUME NEW p \in Pair, Ages(p) PROVE RotationInv'
  BY <1>16 DEF Ages, RotationInv, tab, history
<1> QED
  BY ONLY <1>1, <1>2, <1>3, <1>4, <1>5, <1>6, <1>7, <1>8,
          <1>9, <1>10, <1>11, <1>12, <1>13, <1>14, <1>15, <1>16, Next DEF Next

LEMMA StepResent ==
    ASSUME BrowserInv, Next
    PROVE  ResentInv'
<1> USE SlotFacts DEF BrowserInv, CallsTyped, Quiet
<1>1. CASE Boot
  BY <1>1 DEF Boot, Waits, ResentInv, server
<1>2. CASE Login
  <2>1. \A c \in Call : call'[c] = call[c] /\ (call[c] # Quiet => mixed')
    BY <1>2 DEF Login, Sends
  <2> QED
    BY <2>1 DEF ResentInv
<1>3. CASE Logout
  BY <1>3 DEF Logout, ResentInv, server, history
<1>4. CASE Tick
  BY <1>4 DEF Tick, Waits, ResentInv, server
<1>5. CASE ServerRotates
  BY <1>5 DEF ServerRotates, ResentInv, history
<1>6. CASE AnswerLost
  BY <1>6 DEF AnswerLost, ResentInv, server
<1>7. CASE RotationEnds
  <2> SUFFICES ASSUME NEW c \in Call, call'[c].pc = "resent", age'[call'[c].with] = "expired"
               PROVE  live' = {} \/ mixed'
    BY DEF ResentInv
  <2>1. UNCHANGED <<age, live>> /\ (mixed => mixed')
    BY <1>7 DEF RotationEnds, server
  <2>2. CASE call'[c] = call[c]
    BY <2>1, <2>2 DEF ResentInv
  <2>3. CASE call'[c] # call[c]
    <3>1. call[c].pc = "waiting" /\ call[c].kind = "data"
      BY <1>7, <2>3, Resumed DEF Shapes
    <3>2. rotation.answer \notin {0, Pending} /\ call'[c].with = rotation.answer
      BY <1>7, <3>1, Resumed DEF RotationEnds
    <3> QED
      BY <2>1, <3>2 DEF RotationInv
  <2> QED
    BY <2>2, <2>3
<1>8. ASSUME NEW b \in BOOLEAN, Enter(b) PROVE ResentInv'
  BY <1>8 DEF Enter, Ends, ResentInv, server
<1>9. ASSUME NEW b \in BOOLEAN, LogoutReturns(b) PROVE ResentInv'
  BY <1>9 DEF LogoutReturns, ResentInv, history
<1>10. ASSUME NEW b \in BOOLEAN, Reload(b) PROVE ResentInv'
  BY <1>10 DEF Reload, ResentInv
<1>11. ASSUME NEW b \in BOOLEAN, SessionsRevoked(b) PROVE ResentInv'
  BY <1>11 DEF SessionsRevoked, ResentInv
<1>12. ASSUME NEW c \in Call, NEW kind \in {"data", "auth"}, Send(c, kind) PROVE ResentInv'
  BY <1>12 DEF Send, Sends, ResentInv, server, history
<1>13. ASSUME NEW c \in Call, Answered(c) PROVE ResentInv'
  BY <1>13 DEF Answered, Ends, ResentInv, server, history
<1>14. ASSUME NEW c \in Call, Refused(c) PROVE ResentInv'
  BY <1>14 DEF Refused, Waits, ResentInv, server
<1>15. ASSUME NEW c \in Call, Unrecoverable(c) PROVE ResentInv'
  BY <1>15 DEF Unrecoverable, Ends, ResentInv, server, history
<1>16. ASSUME NEW p \in Pair, Ages(p) PROVE ResentInv'
  <2>1. UNCHANGED <<call, live, mixed>>
    BY <1>16 DEF Ages, tab, history
  <2>2. ASSUME NEW c \in Call, call[c].pc = "resent" PROVE age'[call[c].with] = age[call[c].with]
    BY <1>16, <2>2 DEF Ages
  <2> QED
    BY <2>1, <2>2 DEF ResentInv
<1> QED
  BY ONLY <1>1, <1>2, <1>3, <1>4, <1>5, <1>6, <1>7, <1>8,
          <1>9, <1>10, <1>11, <1>12, <1>13, <1>14, <1>15, <1>16, Next DEF Next

LEMMA StepLeaving ==
    ASSUME BrowserInv, Next
    PROVE  LeavingInv'
<1> USE DEF BrowserInv
<1>1. CASE Boot
  BY <1>1 DEF Boot, LeavingInv
<1>2. CASE Login
  BY <1>2 DEF Login, LeavingInv
<1>3. CASE Logout
  BY <1>3 DEF Logout, clearSession, LeavingInv
<1>4. CASE Tick
  BY <1>4 DEF Tick, LeavingInv
<1>5. CASE ServerRotates
  BY <1>5 DEF ServerRotates, LeavingInv, history
<1>6. CASE AnswerLost
  BY <1>6 DEF AnswerLost, LeavingInv
<1>7. CASE RotationEnds
  <2>1. UNCHANGED leaving /\ rotation.pair # 0 /\ (refresh' # 0 /\ refresh = 0 => mixed') /\ (mixed => mixed')
    BY <1>7 DEF RotationEnds, RotationInv
  <2> QED
    BY <2>1 DEF LeavingInv
<1>8. ASSUME NEW b \in BOOLEAN, Enter(b) PROVE LeavingInv'
  BY <1>8 DEF Enter, clearSession, LeavingInv
<1>9. ASSUME NEW b \in BOOLEAN, LogoutReturns(b) PROVE LeavingInv'
  BY <1>9 DEF LogoutReturns, LeavingInv
<1>10. ASSUME NEW b \in BOOLEAN, Reload(b) PROVE LeavingInv'
  BY <1>10 DEF Reload, LeavingInv
<1>11. ASSUME NEW b \in BOOLEAN, SessionsRevoked(b) PROVE LeavingInv'
  BY <1>11 DEF SessionsRevoked, LeavingInv, tab, history
<1>12. ASSUME NEW c \in Call, NEW kind \in {"data", "auth"}, Send(c, kind) PROVE LeavingInv'
  BY <1>12 DEF Send, LeavingInv, history
<1>13. ASSUME NEW c \in Call, Answered(c) PROVE LeavingInv'
  BY <1>13 DEF Answered, LeavingInv, history
<1>14. ASSUME NEW c \in Call, Refused(c) PROVE LeavingInv'
  BY <1>14 DEF Refused, LeavingInv
<1>15. ASSUME NEW c \in Call, Unrecoverable(c) PROVE LeavingInv'
  BY <1>15 DEF Unrecoverable, Expire, LeaveApp, clearSession, LeavingInv, history
<1>16. ASSUME NEW p \in Pair, Ages(p) PROVE LeavingInv'
  BY <1>16 DEF Ages, LeavingInv, tab, history
<1> QED
  BY ONLY <1>1, <1>2, <1>3, <1>4, <1>5, <1>6, <1>7, <1>8,
          <1>9, <1>10, <1>11, <1>12, <1>13, <1>14, <1>15, <1>16, Next DEF Next

LEMMA StepPresented ==
    ASSUME BrowserInv, Next
    PROVE  PresentedInv'
<1> USE DEF BrowserInv
<1>1. CASE Boot
  BY <1>1 DEF Boot, JoinRefresh, PresentedInv, NoRotation
<1>2. CASE Login
  BY <1>2, OneMore DEF Login, Persist, PresentedInv, Tokens

<1>3. CASE Logout
  BY <1>3 DEF Logout, clearSession, PresentedInv, Tokens, history
<1>4. CASE Tick
  BY <1>4 DEF Tick, JoinRefresh, PresentedInv, NoRotation
<1>5. CASE ServerRotates
  <2>1. rotation # NoRotation /\ rotation'.pair = rotation.pair /\ rotation' # NoRotation
    BY <1>5, InFlight, Replied DEF ServerRotates, Pending, NoRotation
  <2> QED
    BY <1>5, <2>1 DEF ServerRotates, PresentedInv, history
<1>6. CASE AnswerLost
  <2>1. rotation # NoRotation /\ rotation'.pair = rotation.pair /\ rotation' # NoRotation
    BY <1>6, InFlight, Replied DEF AnswerLost, NoRotation
  <2> QED
    BY <1>6, <2>1 DEF AnswerLost, PresentedInv
<1>7. CASE RotationEnds
  <2>1. 0 \notin presented /\ rotation' = NoRotation /\ lost' = lost /\ presented' \subseteq presented
    BY <1>7 DEF RotationEnds, Tokens
  <2>2. CASE rotation.answer # 0
    BY <1>7, <2>1, <2>2 DEF RotationEnds, Persist, PresentedInv, RotationInv
  <2>3. CASE rotation.answer = 0
    <3>1. refresh' \in {0, refresh}
      BY <1>7, <2>3 DEF RotationEnds, Expire, LeaveApp, clearSession
    <3>2. ~lost => presented' = presented \ {rotation.pair}
      BY <1>7, <2>3 DEF RotationEnds
    <3> QED
      BY <1>7, <2>1, <3>1, <3>2 DEF PresentedInv
  <2> QED
    BY <2>2, <2>3
<1>8. ASSUME NEW b \in BOOLEAN, Enter(b) PROVE PresentedInv'
  BY <1>8 DEF Enter, clearSession, PresentedInv, Tokens
<1>9. ASSUME NEW b \in BOOLEAN, LogoutReturns(b) PROVE PresentedInv'
  BY <1>9 DEF LogoutReturns, LeaveApp, clearSession, PresentedInv, Tokens, history
<1>10. ASSUME NEW b \in BOOLEAN, Reload(b) PROVE PresentedInv'
  BY <1>10 DEF Reload, PresentedInv
<1>11. ASSUME NEW b \in BOOLEAN, SessionsRevoked(b) PROVE PresentedInv'
  BY <1>11 DEF SessionsRevoked, PresentedInv, tab, history
<1>12. ASSUME NEW c \in Call, NEW kind \in {"data", "auth"}, Send(c, kind) PROVE PresentedInv'
  BY <1>12 DEF Send, PresentedInv, history
<1>13. ASSUME NEW c \in Call, Answered(c) PROVE PresentedInv'
  BY <1>13 DEF Answered, PresentedInv, history
<1>14. ASSUME NEW c \in Call, Refused(c) PROVE PresentedInv'
  BY <1>14 DEF Refused, JoinRefresh, PresentedInv, NoRotation
<1>15. ASSUME NEW c \in Call, Unrecoverable(c) PROVE PresentedInv'
  <2>1. refresh' \in {0, refresh} /\ UNCHANGED <<rotation, presented, lost>>
    BY <1>15 DEF Unrecoverable, Expire, LeaveApp, clearSession, history
  <2> QED
    BY <2>1 DEF PresentedInv, Tokens
<1>16. ASSUME NEW p \in Pair, Ages(p) PROVE PresentedInv'
  BY <1>16 DEF Ages, PresentedInv, tab, history
<1> QED
  BY ONLY <1>1, <1>2, <1>3, <1>4, <1>5, <1>6, <1>7, <1>8,
          <1>9, <1>10, <1>11, <1>12, <1>13, <1>14, <1>15, <1>16, Next DEF Next

LEMMA StepScreen ==
    ASSUME BrowserInv, Next
    PROVE  ScreenTellsSession'
<1> USE SlotFacts DEF BrowserInv, CallsTyped, Quiet
<1>1. CASE Boot
  BY <1>1 DEF Boot, ScreenTellsSession

<1>2. CASE Login
  BY <1>2 DEF Login, Sends, ScreenTellsSession

<1>3. CASE Logout
  BY <1>3 DEF Logout, clearSession, ScreenTellsSession
<1>4. CASE Tick
  BY <1>4 DEF Tick, Waits, ScreenTellsSession
<1>5. CASE ServerRotates
  BY <1>5 DEF ServerRotates, ScreenTellsSession, history
<1>6. CASE AnswerLost
  BY <1>6 DEF AnswerLost, ScreenTellsSession
<1>7. CASE RotationEnds
  <2>1. UNCHANGED <<leaving, meRefused>> /\ (mixed => mixed') /\ rotation.pair # 0
    BY <1>7 DEF RotationEnds, RotationInv
  <2>2. CASE rotation.answer # 0
    <3>1. screen' = screen /\ refresh' # 0 /\ (refresh = 0 => mixed')
      BY <1>7, <2>1, <2>2 DEF RotationEnds, Persist
    <3>2. screen = "login" => call'["shell"] = call["shell"]
      BY <1>7, Resumed DEF Shapes
    <3> QED
      BY <2>1, <3>1, <3>2 DEF ScreenTellsSession
  <2>3. CASE rotation.answer = 0
    <3>1. \/ screen' = "login" /\ refresh' = 0
          \/ UNCHANGED <<screen, refresh>> /\ ~\E s \in Waiting : EndsSession(s)
      BY <1>7, <2>3 DEF RotationEnds, Expire, LeaveApp, clearSession
    <3>2. screen = "login" => call'["shell"] = call["shell"]
      BY <1>7, Resumed DEF Shapes
    <3> QED
      BY <2>1, <3>1, <3>2 DEF ScreenTellsSession
  <2> QED
    BY <2>2, <2>3
<1>8. ASSUME NEW b \in BOOLEAN, Enter(b) PROVE ScreenTellsSession'
  <2>1. screen' = "app" /\ UNCHANGED <<mixed, leaving>>
    BY <1>8 DEF Enter
  <2>2. CASE b
    <3>1. refresh' = refresh /\ age[call["shell"].with] # "expired" /\ call["shell"].pc = "sent"
      BY <1>8, <2>2 DEF Enter
    <3>2. mixed \/ refresh # 0
      BY <3>1 DEF ShellInv, Shapes
    <3> QED
      BY <2>1, <3>1, <3>2 DEF ScreenTellsSession
  <2>3. CASE ~b
    <3>1. meRefused' = TRUE
      BY <1>8, <2>3 DEF Enter
    <3> QED
      BY <2>1, <3>1 DEF ScreenTellsSession
  <2> QED
    BY <2>2, <2>3
<1>9. ASSUME NEW b \in BOOLEAN, LogoutReturns(b) PROVE ScreenTellsSession'
  BY <1>9 DEF LogoutReturns, LeaveApp, clearSession, ScreenTellsSession
<1>10. ASSUME NEW b \in BOOLEAN, Reload(b) PROVE ScreenTellsSession'
  BY <1>10 DEF Reload, ScreenTellsSession
<1>11. ASSUME NEW b \in BOOLEAN, SessionsRevoked(b) PROVE ScreenTellsSession'
  BY <1>11 DEF SessionsRevoked, ScreenTellsSession, tab, history
<1>12. ASSUME NEW c \in Call, NEW kind \in {"data", "auth"}, Send(c, kind) PROVE ScreenTellsSession'
  BY <1>12 DEF Send, ScreenTellsSession, history
<1>13. ASSUME NEW c \in Call, Answered(c) PROVE ScreenTellsSession'
  BY <1>13 DEF Answered, Ends, ScreenTellsSession, history
<1>14. ASSUME NEW c \in Call, Refused(c) PROVE ScreenTellsSession'
  BY <1>14 DEF Refused, Waits, ScreenTellsSession
<1>15. ASSUME NEW c \in Call, Unrecoverable(c) PROVE ScreenTellsSession'
  <2>1. (screen' = "login" /\ refresh' = 0) \/ UNCHANGED <<screen, refresh>>
    BY <1>15 DEF Unrecoverable, Expire, LeaveApp, clearSession
  <2>2. UNCHANGED <<leaving, meRefused, mixed>> /\ call'["shell"] = call["shell"]
    BY <1>15 DEF Unrecoverable, Ends, history
  <2> QED
    BY <2>1, <2>2 DEF ScreenTellsSession
<1>16. ASSUME NEW p \in Pair, Ages(p) PROVE ScreenTellsSession'
  BY <1>16 DEF Ages, ScreenTellsSession, tab, history
<1> QED
  BY ONLY <1>1, <1>2, <1>3, <1>4, <1>5, <1>6, <1>7, <1>8,
          <1>9, <1>10, <1>11, <1>12, <1>13, <1>14, <1>15, <1>16, Next DEF Next

-----------------------------------------------------------------------------
(* Sessions that are good *)

\* A good session is let go on request, for a 401 of /api/auth, for an answer
\* lost on the way, or by a leftover of an older session.
LetGo ==
    \/ Logout \/ (leaving # 0 /\ leaving' = 0 /\ mixed)
    \/ \E s \in Slot : call[s].kind \in {"auth", "me"} /\ call'[s] = Quiet
    \/ lost \/ mixed

LEMMA GoodSession ==
    ASSUME BrowserInv, Next, refresh' = 0, refresh \in live
    PROVE  LetGo
<1> USE SlotFacts DEF BrowserInv
<1>0. refresh # 0
  BY DEF Tokens
<1>1. CASE Boot
  BY <1>0, <1>1 DEF Boot
<1>2. CASE Login
  BY <1>2, OneMore DEF Login, Persist
<1>3. CASE Logout
  BY <1>3 DEF LetGo
<1>4. CASE Tick
  BY <1>0, <1>4 DEF Tick
<1>5. CASE ServerRotates
  BY <1>0, <1>5 DEF ServerRotates
<1>6. CASE AnswerLost
  BY <1>0, <1>6 DEF AnswerLost
<1>7. CASE RotationEnds
  <2>1. rotation # NoRotation /\ rotation.answer = 0
    BY <1>0, <1>7 DEF RotationEnds, Persist
  <2>2. lost \/ mixed
    BY <1>0, <2>1 DEF RotationInv
  <2> QED
    BY <2>2 DEF LetGo
<1>8. ASSUME NEW b \in BOOLEAN, Enter(b) PROVE LetGo
  <2>1. call["shell"].kind = "me" /\ call'["shell"] = Quiet
    BY <1>8 DEF Enter, Ends, Shapes, CallsTyped
  <2> QED
    BY <2>1 DEF LetGo
<1>9. ASSUME NEW b \in BOOLEAN, LogoutReturns(b) PROVE LetGo
  BY <1>0, <1>9 DEF LogoutReturns, LeavingInv, LetGo
<1>10. ASSUME NEW b \in BOOLEAN, Reload(b) PROVE LetGo
  BY <1>0, <1>10 DEF Reload
<1>11. ASSUME NEW b \in BOOLEAN, SessionsRevoked(b) PROVE LetGo
  BY <1>0, <1>11 DEF SessionsRevoked, tab
<1>12. ASSUME NEW c \in Call, NEW kind \in {"data", "auth"}, Send(c, kind) PROVE LetGo
  BY <1>0, <1>12 DEF Send
<1>13. ASSUME NEW c \in Call, Answered(c) PROVE LetGo
  BY <1>0, <1>13 DEF Answered
<1>14. ASSUME NEW c \in Call, Refused(c) PROVE LetGo
  BY <1>0, <1>14 DEF Refused
<1>15. ASSUME NEW c \in Call, Unrecoverable(c) PROVE LetGo
  <2>1. call'[c] = Quiet /\ call[c].with # 0
    BY <1>0, <1>15 DEF Unrecoverable, Ends, CallsTyped
  <2>2. CASE call[c].kind = "auth"
    BY <2>1, <2>2 DEF LetGo
  <2>3. CASE call[c].kind # "auth"
    <3>1. call[c].pc = "resent" /\ age[call[c].with] = "expired"
      BY <1>0, <1>15, <2>1, <2>3 DEF Unrecoverable, Granted, Final
    <3>2. mixed
      BY <3>1 DEF ResentInv
    <3> QED
      BY <3>2 DEF LetGo
  <2> QED
    BY <2>2, <2>3
<1>16. ASSUME NEW p \in Pair, Ages(p) PROVE LetGo
  BY <1>0, <1>16 DEF Ages, tab
<1> QED
  BY ONLY <1>1, <1>2, <1>3, <1>4, <1>5, <1>6, <1>7, <1>8,
          <1>9, <1>10, <1>11, <1>12, <1>13, <1>14, <1>15, <1>16, Next DEF Next

LEMMA FreshToken ==
    ASSUME BrowserInv, Next, rotation'.answer = Pending, rotation' # rotation
    PROVE  rotation'.pair \notin presented \/ lost
<1> USE DEF BrowserInv
<1>0. CASE JoinRefresh
  BY <1>0 DEF JoinRefresh, PresentedInv
<1>1. CASE Boot
  BY <1>0, <1>1 DEF Boot
<1>2. CASE Login
  BY <1>2 DEF Login
<1>3. CASE Logout
  BY <1>3 DEF Logout
<1>4. CASE Tick
  BY <1>0, <1>4 DEF Tick
<1>5. CASE ServerRotates
  <2>1. rotation'.answer = 0 \/ (minted < MaxPairs /\ rotation'.answer = minted + 1)
    BY <1>5, Replied DEF ServerRotates
  <2> QED
    BY <2>1, OneMore DEF Pending
<1>6. CASE AnswerLost
  BY <1>6, InFlight, Replied DEF AnswerLost, Pending
<1>7. CASE RotationEnds
  BY <1>7 DEF RotationEnds, NoRotation, Pending
<1>8. ASSUME NEW b \in BOOLEAN, Enter(b) PROVE rotation'.pair \notin presented \/ lost
  BY <1>8 DEF Enter
<1>9. ASSUME NEW b \in BOOLEAN, LogoutReturns(b) PROVE rotation'.pair \notin presented \/ lost
  BY <1>9 DEF LogoutReturns
<1>10. ASSUME NEW b \in BOOLEAN, Reload(b) PROVE rotation'.pair \notin presented \/ lost
  BY <1>10 DEF Reload, NoRotation, Pending
<1>11. ASSUME NEW b \in BOOLEAN, SessionsRevoked(b) PROVE rotation'.pair \notin presented \/ lost
  BY <1>11 DEF SessionsRevoked, tab
<1>12. ASSUME NEW c \in Call, NEW kind \in {"data", "auth"}, Send(c, kind) PROVE rotation'.pair \notin presented \/ lost
  BY <1>12 DEF Send
<1>13. ASSUME NEW c \in Call, Answered(c) PROVE rotation'.pair \notin presented \/ lost
  BY <1>13 DEF Answered
<1>14. ASSUME NEW c \in Call, Refused(c) PROVE rotation'.pair \notin presented \/ lost
  BY <1>0, <1>14 DEF Refused
<1>15. ASSUME NEW c \in Call, Unrecoverable(c) PROVE rotation'.pair \notin presented \/ lost
  BY <1>15 DEF Unrecoverable
<1>16. ASSUME NEW p \in Pair, Ages(p) PROVE rotation'.pair \notin presented \/ lost
  BY <1>16 DEF Ages, tab
<1> QED
  BY ONLY <1>1, <1>2, <1>3, <1>4, <1>5, <1>6, <1>7, <1>8,
          <1>9, <1>10, <1>11, <1>12, <1>13, <1>14, <1>15, <1>16, Next DEF Next

-----------------------------------------------------------------------------
(* The theorems *)

LEMMA InitBrowser == Init => BrowserInv
<1> SUFFICES ASSUME Init PROVE BrowserInv
  OBVIOUS
<1> USE SlotFacts DEF Init
<1>1. minted \in 0..MaxPairs /\ refresh \in 0..minted /\ live \subseteq 1..minted /\ 0 \in 0..minted
  BY BrowserAssumption DEF Pair
<1>2. rotation \in RotationUpTo(minted)
  BY <1>1 DEF NoRotation, RotationUpTo
<1>3. Tokens
  BY <1>1, <1>2 DEF Tokens
<1>4. CallsTyped
  BY <1>1 DEF CallsTyped, CallUpTo, Quiet, Kinds
<1>5. Shapes /\ ShellInv /\ ResentInv
  BY DEF Shapes, ShellInv, Alone, ResentInv, Quiet
<1>6. RotationInv /\ LeavingInv /\ PresentedInv
  BY DEF RotationInv, LeavingInv, PresentedInv, NoRotation
<1>7. ScreenTellsSession
  BY DEF ScreenTellsSession
<1> QED
  BY <1>3, <1>4, <1>5, <1>6, <1>7 DEF BrowserInv

LEMMA StepBrowser == BrowserInv /\ [Next]_vars => BrowserInv'
<1> SUFFICES ASSUME BrowserInv, [Next]_vars PROVE BrowserInv'
  OBVIOUS
<1>1. CASE Next
  BY <1>1, StepTokens, StepCalls, StepShapes, StepShell, StepRotation, StepResent,
     StepLeaving, StepPresented, StepScreen DEF BrowserInv
<1>2. CASE UNCHANGED vars
  <2> USE <1>2 DEF vars, tab, server, history
  <2>1. (Tokens /\ CallsTyped /\ Shapes)'
    BY DEF BrowserInv, Tokens, CallsTyped, Shapes
  <2>2. (ShellInv /\ RotationInv /\ ResentInv)'
    BY DEF BrowserInv, ShellInv, Alone, RotationInv, ResentInv
  <2>3. (LeavingInv /\ PresentedInv /\ ScreenTellsSession)'
    BY DEF BrowserInv, LeavingInv, PresentedInv, ScreenTellsSession
  <2> QED
    BY <2>1, <2>2, <2>3 DEF BrowserInv
<1> QED
  BY <1>1, <1>2

\* What is before an open call: a view's is sent, waits for the refresh, is sent
\* again; the shell's waits first.
Outstanding(s, c) ==
    CASE c.pc = "sent"    -> IF s = "shell" THEN 1 ELSE 3
      [] c.pc = "waiting" -> 2
      [] c.pc = "resent"  -> 1
      [] c.pc = "idle"    -> 0

LEMMA CallMoves ==
    ASSUME BrowserInv, Next, NEW s \in Slot, call[s] # Quiet, call'[s] # call[s]
    PROVE  Outstanding(s, call'[s]) < Outstanding(s, call[s])
<1>0. /\ call = [t \in Slot |-> call[t]] /\ Quiet.pc = "idle" /\ Outstanding(s, Quiet) = 0
      /\ call[s].pc \in {"sent", "waiting", "resent"} /\ Outstanding(s, call[s]) \in 1..3
  <2>1. call[s] \in CallUpTo(minted) /\ call = [t \in Slot |-> call[t]]
    BY DEF BrowserInv, CallsTyped
  <2>2. call[s].pc \in {"sent", "waiting", "resent"}
    BY <2>1 DEF BrowserInv, Shapes, CallUpTo
  <2> QED
    BY <2>1, <2>2 DEF Outstanding, Quiet
<1>1. CASE call'[s] = Quiet
  BY <1>0, <1>1
<1>2. ASSUME NEW t \in Slot, NEW c, call' = [call EXCEPT ![t] = c] PROVE t = s /\ call'[s] = c
  BY <1>0, <1>2
<1>3. ASSUME NEW t \in Slot, Ends(t) PROVE call'[s] = Quiet
  BY <1>2, <1>3 DEF Ends
<1>4. CASE Boot
  BY <1>2, <1>4, SlotFacts DEF Boot, Waits
<1>5. CASE Login
  BY <1>2, <1>5, SlotFacts DEF Login, Sends
<1>6. CASE Tick
  BY <1>2, <1>6, SlotFacts DEF Tick, Waits
<1>7. ASSUME NEW c \in Call, NEW kind, Send(c, kind) PROVE FALSE
  BY <1>2, <1>7, SlotFacts DEF Send, Sends
<1>8. ASSUME NEW c \in Call, Refused(c) PROVE Outstanding(s, call'[s]) < Outstanding(s, call[s])
  <2>1. c \in Slot /\ c # "shell"
    BY SlotFacts
  <2>2. s = c /\ call'[s] = [pc |-> "waiting", kind |-> "data", with |-> call[c].with]
    BY <1>2, <1>8, <2>1 DEF Refused, Waits
  <2>3. call[s].pc = "sent" /\ call'[s].pc = "waiting"
    BY <1>8, <2>2 DEF Refused
  <2> QED
    BY <2>1, <2>2, <2>3 DEF Outstanding
<1>9. ASSUME NEW c \in Call, Answered(c) \/ Unrecoverable(c) PROVE call'[s] = Quiet
  BY <1>3, <1>9, SlotFacts DEF Answered, Unrecoverable
<1>10. ASSUME NEW ok, Enter(ok) PROVE call'[s] = Quiet
  BY <1>3, <1>10, SlotFacts DEF Enter
<1>11. ASSUME NEW reached, Reload(reached) PROVE call'[s] = Quiet
  BY <1>11 DEF Reload
<1>12. CASE RotationEnds
  <2>1. call[s].pc = "waiting"
    BY <1>12, Resumed
  <2>2. call[s].kind \in {"data", "tick", "restore"} /\ (call[s].kind = "restore" => s = "shell")
    BY <2>1, SlotFacts DEF BrowserInv, Shapes
  <2>3. CASE call'[s] = [pc |-> "sent", kind |-> "me", with |-> rotation.answer] /\ s = "shell"
    BY <2>1, <2>3 DEF Outstanding
  <2>4. CASE call'[s] = [pc |-> "resent", kind |-> "data", with |-> rotation.answer]
    BY <2>1, <2>4 DEF Outstanding
  <2> QED
    BY <1>1, <1>12, <2>1, <2>2, <2>3, <2>4, Resumed
<1>13. CASE UNCHANGED call
  BY <1>13
<1> QED
  BY <1>1, <1>4, <1>5, <1>6, <1>7, <1>8, <1>9, <1>10, <1>11, <1>12, <1>13
     DEF Next, Logout, ServerRotates, AnswerLost, LogoutReturns, SessionsRevoked, Ages, tab

\* The inductive invariant of the tab: types, the shapes of its requests, whose
\* token each of them carries, and what the refresh in flight is for.
THEOREM BrowserInductive == Spec => []BrowserInv
BY InitBrowser, StepBrowser, PTL DEF Spec

\* Every reachable state of the tab is well typed, and nobody in it waits for a
\* refresh that is not in flight.
THEOREM BrowserTypeCorrect == Spec => []TypeOK
<1>1. BrowserInv => TypeOK
  <2> SUFFICES ASSUME BrowserInv PROVE TypeOK
    OBVIOUS
  <2>1. Waiting # {} => rotation # NoRotation
    BY DEF Waiting, BrowserInv, Shapes
  <2>2. Tokens /\ CallsTyped
    BY DEF BrowserInv
  <2> QED
    BY <2>1, <2>2 DEF Tokens, CallsTyped, CallUpTo, RotationUpTo, TypeOK
<1> QED
  BY BrowserInductive, <1>1, PTL

\* The safety half of CallsEnd: an open call only moves on, so that it is sent
\* twice at most and waits for one refresh at most (api.js, request).
THEOREM CallsMoveOn ==
    Spec => [][\A s \in Slot :
                  call[s] # Quiet /\ call'[s] # call[s] => Outstanding(s, call'[s]) < Outstanding(s, call[s])]_vars
<1>1. BrowserInv /\ [Next]_vars
      => [\A s \in Slot :
             call[s] # Quiet /\ call'[s] # call[s] => Outstanding(s, call'[s]) < Outstanding(s, call[s])]_vars
  BY CallMoves
<1> QED
  BY BrowserInductive, <1>1, PTL DEF Spec

\* What the tab shows tells whether it holds a session: refreshes, logouts and
\* logins that overlap leave no session behind the login form and no app
\* without one, but for leftovers of an older session (app.js, api.js).
THEOREM ScreenTruthful == Spec => []ScreenTellsSession
<1>1. BrowserInv => ScreenTellsSession
  BY DEF BrowserInv
<1> QED
  BY BrowserInductive, <1>1, PTL

\* However calls, the loop, logouts and refreshes overlap, the page drops no
\* session the server would renew and presents no refresh token twice, but for
\* the reasons LetGo lists and an answer that got lost (api.js, refreshTokens).
THEOREM SessionHeld == Spec => SessionKept
<1>1. BrowserInv /\ [Next]_vars
      => [refresh' = 0 /\ refresh \in live
          => \/ Logout \/ (leaving # 0 /\ leaving' = 0 /\ mixed)
             \/ \E s \in Slot : call[s].kind \in {"auth", "me"} /\ call'[s] = Quiet
             \/ lost \/ mixed]_vars
  BY GoodSession DEF LetGo
<1>2. BrowserInv /\ [Next]_vars
      => [rotation'.answer = Pending /\ rotation' # rotation
          => rotation'.pair \notin presented \/ lost]_vars
  BY FreshToken
<1>3. Spec => GoodSessionKept
  BY BrowserInductive, <1>1, PTL DEF Spec, GoodSessionKept
<1>4. Spec => NoReplay
  BY BrowserInductive, <1>2, PTL DEF Spec, NoReplay
<1> QED
  BY <1>3, <1>4 DEF SessionKept

-----------------------------------------------------------------------------
(* The store of events and snapshots. *)

Ended == \A i \in DOMAIN events : events[i].end <= now

\* An id in use anywhere is never given again.
GivenOnce ==
    \A i \in unused :
        /\ i \notin DOMAIN events /\ i \notin DOMAIN snaps /\ i \notin objects
        /\ i \notin deletion.keys /\ (sweep.stage # "audit" => i \notin sweep.chunk)

\* A snapshot's row agrees with the row of its event while both exist.
Paired ==
    \A i \in DOMAIN snaps \intersect DOMAIN events :
        snaps[i].camera = events[i].camera /\ snaps[i].at = events[i].end

\* The chunk of snapshots in hand has expired; its objects are still to be
\* removed, are gone, or were given up.
Swept ==
    sweep.stage = "snapshots" =>
        \A i \in sweep.chunk :
            /\ i \in DOMAIN events => events[i].end < sweep.at - SnapshotDays
            /\ i \in sweep.doing \/ i \notin objects \/ i \in excused

\* A deletion has listed its camera's snapshots, but for those stored since;
\* once it has committed, no event of the listed ones is left.
Listed ==
    /\ \A i \in DOMAIN snaps :
          ~deletion.committed /\ snaps[i].camera = deletion.camera
              => i \in deletion.keys \union excused
    /\ \A i \in deletion.keys :
          i \in DOMAIN events => ~deletion.committed /\ events[i].camera = deletion.camera

StoreInv ==
    StoreTypeOK /\ Ended /\ GivenOnce /\ Paired /\ Swept /\ Listed /\ SnapshotsAccounted

-----------------------------------------------------------------------------
(* Types *)

LEMMA StoreConstants ==
    /\ Camera \subseteq Nat \ {0} /\ MaxTime \in Nat \ {0} /\ 1 \in 1..MaxTime
    /\ EventDays \in Nat /\ SnapshotDays \in Nat /\ AuditDays \in Nat
    /\ MaxFaults \in Nat /\ Page \in Nat \ {0} /\ 0 \notin Camera
    /\ \A v \in Views : v[1] \in {"timestamp", "camera"} /\ v[2] \in {"asc", "desc"}
BY StoreAssumption

LEMMA InitStore == StoreInit => StoreInv
<1> SUFFICES ASSUME StoreInit PROVE StoreInv
  OBVIOUS
<1> USE StoreConstants DEF StoreInit
<1>0. DOMAIN events = {} /\ DOMAIN tracks = {} /\ DOMAIN snaps = {}
  OBVIOUS
<1>1. /\ sweep.stage = "idle" /\ sweep.at = 0 /\ sweep.chunk = {} /\ sweep.doing = {}
      /\ deletion.camera = 0 /\ deletion.keys = {} /\ deletion.committed = FALSE
  BY DEF NoSweep, NoDeletion
<1>2. /\ sweep \in [stage : {"idle", "events", "snapshots", "audit"}, at : 0..now,
                    chunk : SUBSET IF sweep.stage = "audit" THEN AuditRow ELSE Id,
                    doing : SUBSET Id]
      /\ deletion \in [camera : Camera \union {0}, keys : SUBSET Id, committed : BOOLEAN]
  BY DEF NoSweep, NoDeletion
<1>3. walk \in [pc : {"idle", "asking"}, sort : {"timestamp", "camera"}, direction : {"asc", "desc"},
                offset : Nat, seen : SUBSET Id, present : SUBSET Id, removed : Nat]
  BY DEF NoWalk
<1>4. StoreTypeOK
  BY <1>0, <1>1, <1>2, <1>3 DEF StoreTypeOK
<1>5. Ended /\ GivenOnce /\ Paired /\ Swept /\ Listed
  BY <1>0, <1>1 DEF Ended, GivenOnce, Paired, Swept, Listed
<1>6. SnapshotsAccounted
  BY <1>0 DEF SnapshotsAccounted
<1> QED
  BY <1>4, <1>5, <1>6 DEF StoreInv

SweepType == [stage : {"idle", "events", "snapshots", "audit"}, at : 0..now,
              chunk : SUBSET IF sweep.stage = "audit" THEN AuditRow ELSE Id,
              doing : SUBSET Id]

\* A sweep is well typed; the clock does not go back.
SweepTyped ==
    /\ sweep \in SweepType
    /\ sweep.doing \subseteq sweep.chunk /\ (sweep.doing # {} => sweep.stage = "snapshots")

LEMMA IdleSweepTyped == now' \in Nat /\ sweep' = NoSweep => SweepTyped'
BY DEF NoSweep, SweepTyped, SweepType

LEMMA StepSweep == StoreTypeOK /\ StoreNext => SweepTyped'
<1> SUFFICES ASSUME StoreTypeOK, StoreNext PROVE SweepTyped'
  OBVIOUS
<1> USE StoreConstants
<1>0. SweepTyped /\ now \in Nat /\ now \in 1..MaxTime
  BY DEF StoreTypeOK, SweepTyped, SweepType
<1>1. CASE StoreTick
  <2>1. now' = now + 1 /\ sweep' = sweep
    BY <1>1 DEF StoreTick
  <2>2. \A k \in 0..now : k \in 0..now'
    BY <1>0, <2>1
  <2> QED
    BY <1>0, <2>1, <2>2 DEF SweepTyped, SweepType
<1>2. CASE SweepStart
  <2>1. sweep' = [stage |-> "events", at |-> now, chunk |-> {}, doing |-> {}] /\ now' = now
    BY <1>2 DEF SweepStart, NoSweep
  <2>2. now \in 0..now
    BY <1>0
  <2> QED
    BY <2>1, <2>2 DEF SweepTyped, SweepType
<1>3. CASE SweepSelect
  <2> DEFINE past == Past(sweep.stage, sweep.at)
  <2>1. now' = now
    BY <1>3 DEF SweepSelect
  <2>2. CASE past = {} /\ StageAfter(sweep.stage) = "idle"
    <3>1. sweep' = NoSweep
      BY <1>3, <2>2 DEF SweepSelect
    <3> QED
      BY <1>0, <2>1, <3>1, IdleSweepTyped
  <2>3. CASE past = {} /\ StageAfter(sweep.stage) # "idle"
    <3>1. sweep' = [sweep EXCEPT !.stage = StageAfter(sweep.stage)] /\ sweep.chunk = {}
      BY <1>3, <2>3 DEF SweepSelect
    <3>2. StageAfter(sweep.stage) \in {"snapshots", "audit"}
      BY <2>3 DEF StageAfter
    <3> QED
      BY <1>0, <2>1, <3>1, <3>2 DEF SweepTyped, SweepType
  <2>4. CASE past # {}
    <3>1. PICK S \in SUBSET past :
             sweep' = [sweep EXCEPT !.chunk = S,
                                    !.doing = IF sweep.stage = "snapshots" THEN S ELSE {}]
      BY <1>3, <2>4 DEF SweepSelect
    <3>2. past \subseteq IF sweep.stage = "audit" THEN AuditRow ELSE Id
      BY <1>0 DEF Past, StoreTypeOK, SweepTyped, SweepType
    <3> QED
      BY <1>0, <2>1, <3>1, <3>2 DEF SweepTyped, SweepType
  <2> QED
    BY <2>2, <2>3, <2>4
<1>4. CASE SweepDelete
  <2>1. now' = now /\ sweep.doing = {} /\ sweep.stage \in {"events", "audit"}
    BY <1>0, <1>4 DEF SweepDelete, SweepTyped
  <2>2. \/ sweep' = [sweep EXCEPT !.chunk = {}] \/ sweep' = NoSweep
        \/ sweep' = [sweep EXCEPT !.stage = StageAfter(sweep.stage), !.chunk = {}]
    BY <1>4 DEF SweepDelete
  <2>3. StageAfter(sweep.stage) \in {"snapshots", "audit", "idle"}
    BY DEF StageAfter
  <2>4. CASE sweep' = NoSweep
    BY <1>0, <2>1, <2>4, IdleSweepTyped
  <2>5. CASE sweep' # NoSweep
    BY <1>0, <2>1, <2>2, <2>3, <2>5 DEF SweepTyped, SweepType
  <2> QED
    BY <2>4, <2>5
<1>5. ASSUME NEW i \in Id, NEW ok \in BOOLEAN, SweepObject(i, ok) PROVE SweepTyped'
  BY <1>0, <1>5 DEF SweepObject, SweepTyped, SweepType
<1>6. CASE SweepCommit
  <2>1. now' = now
    BY <1>6 DEF SweepCommit
  <2>2. CASE sweep' = NoSweep
    BY <1>0, <2>1, <2>2, IdleSweepTyped
  <2>3. CASE sweep' # NoSweep
    BY <1>0, <1>6, <2>1, <2>3 DEF SweepCommit, SweepTyped, SweepType
  <2> QED
    BY <2>2, <2>3
<1>7. CASE SweepAborts
  BY <1>0, <1>7, IdleSweepTyped DEF SweepAborts
<1>8. CASE UNCHANGED <<now, sweep>>
  BY <1>0, <1>8 DEF SweepTyped, SweepType
<1> QED
  BY <1>1, <1>2, <1>3, <1>4, <1>5, <1>6, <1>7, <1>8
     DEF StoreNext, Sweep, Store, DeleteCollect, DeleteCommit, DeleteReturns, DeleteObject,
         Export, ExportAudit, WalkStarts, WalkPage
\* The deletion of a camera is well typed.
DeletionTyped ==
    /\ deletion \in [camera : Camera \union {0}, keys : SUBSET Id, committed : BOOLEAN]
    /\ deletion.camera = 0 => deletion = NoDeletion

LEMMA StepDeletion == StoreTypeOK /\ StoreNext => DeletionTyped'
<1> SUFFICES ASSUME StoreTypeOK, StoreNext PROVE DeletionTyped'
  OBVIOUS
<1> USE StoreConstants
<1>0. DeletionTyped
  BY DEF StoreTypeOK, DeletionTyped
<1>1. ASSUME NEW c \in Camera, DeleteCollect(c) PROVE DeletionTyped'
  <2>1. OfCamera(snaps, c) \subseteq Id
    BY DEF StoreTypeOK, OfCamera
  <2> QED
    BY <1>1, <2>1 DEF DeleteCollect, DeletionTyped
<1>2. CASE DeleteCommit
  BY <1>0, <1>2 DEF DeleteCommit, DeletionTyped
<1>3. ASSUME NEW i \in Id, NEW ok \in BOOLEAN, DeleteObject(i, ok) PROVE DeletionTyped'
  BY <1>0, <1>3 DEF DeleteObject, DeletionTyped, NoDeletion
<1>4. CASE DeleteReturns
  BY <1>4 DEF DeleteReturns, DeletionTyped, NoDeletion
<1>5. CASE UNCHANGED deletion
  BY <1>0, <1>5 DEF DeletionTyped
<1> QED
  BY <1>1, <1>2, <1>3, <1>4, <1>5
     DEF StoreNext, Sweep, SweepStart, SweepSelect, SweepDelete, SweepObject, SweepCommit, SweepAborts,
         Store, Export, ExportAudit, WalkStarts, WalkPage, StoreTick

\* The walk of an operator is well typed; what is removed can be counted.
WalkType == [pc : {"idle", "asking"}, sort : {"timestamp", "camera"}, direction : {"asc", "desc"},
             offset : Nat, seen : SUBSET Id, present : SUBSET Id, removed : Nat]

LEMMA RemovedTyped ==
    ASSUME StoreTypeOK, NEW S \in SUBSET Id, Removed(S) PROVE walk' \in WalkType
<1>1. walk \in WalkType
  BY DEF StoreTypeOK, WalkType
<1>2. Cardinality(S) \in Nat
  <2>1. MaxEvents \in Int
    BY StoreAssumption
  <2>2. IsFiniteSet(Id)
    BY <2>1, FS_Interval DEF Id
  <2> QED
    BY <2>2, FS_Subset, FS_CardinalityType
<1>3. walk.present \ S \subseteq Id /\ walk.removed + Cardinality(S) \in Nat
  BY <1>1, <1>2 DEF WalkType
<1>4. \/ walk' = walk
      \/ walk' = [walk EXCEPT !.present = walk.present \ S, !.removed = walk.removed + Cardinality(S)]
  BY DEF Removed
<1> QED
  BY <1>1, <1>3, <1>4 DEF WalkType

LEMMA StepWalk == StoreTypeOK /\ StoreNext => walk' \in WalkType
<1> SUFFICES ASSUME StoreTypeOK, StoreNext PROVE walk' \in WalkType
  OBVIOUS
<1> USE StoreConstants
<1>0. walk \in WalkType /\ DOMAIN events \subseteq Id
  BY DEF StoreTypeOK, WalkType
<1>1. CASE SweepDelete
  <2>1. \/ Removed(sweep.chunk \intersect DOMAIN events) \/ walk' = walk
    BY <1>1 DEF SweepDelete
  <2>2. sweep.chunk \intersect DOMAIN events \in SUBSET Id
    BY <1>0
  <2> QED
    BY <1>0, <2>1, <2>2, RemovedTyped
<1>2. CASE DeleteCommit
  <2>1. Removed(OfCamera(events, deletion.camera))
    BY <1>2 DEF DeleteCommit
  <2>2. OfCamera(events, deletion.camera) \in SUBSET Id
    BY <1>0 DEF OfCamera
  <2> QED
    BY <2>1, <2>2, RemovedTyped
<1>3. ASSUME NEW v \in Views, WalkStarts(v[1], v[2]) PROVE walk' \in WalkType
  BY <1>0, <1>3 DEF WalkStarts, NoWalk, WalkType
<1>4. CASE WalkPage
  <2>1. PICK page : page \subseteq DOMAIN events /\
               (walk' = NoWalk \/ walk' = [walk EXCEPT !.seen = @ \union page, !.offset = @ + Page])
    BY <1>4 DEF WalkPage, list_events, Matching
  <2>2. NoWalk \in WalkType
    BY DEF NoWalk, WalkType
  <2>3. walk.seen \union page \subseteq Id /\ walk.offset + Page \in Nat
    BY <1>0, <2>1 DEF WalkType
  <2> QED
    BY <1>0, <2>1, <2>2, <2>3 DEF WalkType
<1>5. CASE UNCHANGED walk
  BY <1>0, <1>5
<1> QED
  BY <1>1, <1>2, <1>3, <1>4, <1>5
     DEF StoreNext, Sweep, SweepStart, SweepSelect, SweepObject, SweepCommit, SweepAborts,
         Store, Export, ExportAudit, DeleteCollect, DeleteObject, DeleteReturns, StoreTick

\* The rows, the objects and what was given out or excused.
RowsTyped ==
    /\ now \in 1..MaxTime /\ cameras \subseteq Camera /\ faults \in 0..MaxFaults
    /\ DOMAIN events \subseteq Id /\ \A i \in DOMAIN events : events[i] \in EventRow
    /\ DOMAIN tracks \subseteq Id /\ \A i \in DOMAIN tracks : tracks[i] \in TrackRow
    /\ DOMAIN snaps \subseteq Id /\ \A i \in DOMAIN snaps : snaps[i] \in SnapRow
    /\ objects \subseteq Id /\ unused \subseteq Id /\ excused \subseteq Id
    /\ audit \subseteq AuditRow

LEMMA StoreTyped ==
    ASSUME RowsTyped, NEW i \in Id, NEW c \in Camera, NEW kind \in Kind, Store(i, c, kind)
    PROVE  RowsTyped'
<1>1. Length(kind) \in {0, 1} /\ now \in 1..MaxTime /\ MaxTime \in Nat
  BY StoreConstants DEF Length, RowsTyped
<1>2. now - Length(kind) \in 0..MaxTime /\ now \in 0..MaxTime
  BY <1>1
<1>3. /\ DOMAIN events' \subseteq Id /\ \A j \in DOMAIN events' : events'[j] \in EventRow
  BY <1>2 DEF RowsTyped, Store, EventRow
<1>4. /\ DOMAIN tracks' \subseteq Id /\ \A j \in DOMAIN tracks' : tracks'[j] \in TrackRow
  BY <1>2 DEF RowsTyped, Store, TrackRow
<1>5. /\ DOMAIN snaps' \subseteq Id /\ \A j \in DOMAIN snaps' : snaps'[j] \in SnapRow
  BY <1>2 DEF RowsTyped, Store, SnapRow
<1>6. objects' \subseteq Id /\ unused' \subseteq Id /\ excused' \subseteq Id
  BY DEF RowsTyped, Store
<1> QED
  BY <1>3, <1>4, <1>5, <1>6 DEF RowsTyped, Store

LEMMA StepRows == StoreTypeOK /\ StoreNext => RowsTyped'
<1> SUFFICES ASSUME StoreTypeOK, StoreNext PROVE RowsTyped'
  OBVIOUS
<1> USE StoreConstants
<1>0. RowsTyped
  BY DEF StoreTypeOK, RowsTyped
<1>1. ASSUME NEW i \in Id, NEW c \in Camera, NEW kind \in Kind, Store(i, c, kind) PROVE RowsTyped'
  BY <1>0, <1>1, StoreTyped
<1>2. CASE SweepDelete
  BY <1>0, <1>2 DEF SweepDelete, RowsTyped, Without
<1>3. ASSUME NEW i \in Id, NEW ok \in BOOLEAN, SweepObject(i, ok) \/ DeleteObject(i, ok)
      PROVE  RowsTyped'
  <2>1. UNCHANGED <<now, cameras, events, tracks, snaps, audit, unused>>
    BY <1>3 DEF SweepObject, DeleteObject, rows
  <2>2. objects' \subseteq objects /\ excused' \subseteq excused \union {i} /\ faults' \in 0..MaxFaults
    BY <1>0, <1>3 DEF SweepObject, DeleteObject, RowsTyped
  <2> QED
    BY <1>0, <2>1, <2>2 DEF RowsTyped
<1>4. CASE SweepCommit
  BY <1>0, <1>4 DEF SweepCommit, RowsTyped, Without
<1>5. CASE SweepAborts
  BY <1>0, <1>5 DEF SweepAborts, RowsTyped, rows
<1>6. CASE DeleteCommit
  BY <1>0, <1>6 DEF DeleteCommit, RowsTyped, Without, write_audit, AuditRow, Action
<1>7. CASE Export \/ ExportAudit
  <2>1. UNCHANGED <<now, cameras, faults, events, tracks, snaps, objects, unused, excused>>
    BY <1>7 DEF Export, ExportAudit, rows
  <2>2. audit' \subseteq AuditRow
    BY <1>0, <1>7 DEF Export, ExportAudit, RowsTyped, write_audit, AuditRow, Action
  <2> QED
    BY <1>0, <2>1, <2>2 DEF RowsTyped
<1>8. CASE StoreTick
  BY <1>0, <1>8 DEF StoreTick, RowsTyped, rows
<1>9. CASE UNCHANGED <<now, cameras, faults, rows, objects, unused, excused, audit>>
  BY <1>0, <1>9 DEF RowsTyped, rows
<1> QED
  BY <1>1, <1>2, <1>3, <1>4, <1>5, <1>6, <1>7, <1>8, <1>9
     DEF StoreNext, Sweep, SweepStart, SweepSelect, DeleteCollect, DeleteReturns, WalkStarts, WalkPage

LEMMA StoreStepTypes == StoreTypeOK /\ [StoreNext]_storeVars => StoreTypeOK'
<1> SUFFICES ASSUME StoreTypeOK, [StoreNext]_storeVars PROVE StoreTypeOK'
  OBVIOUS
<1>1. CASE StoreNext
  <2>1. SweepTyped' /\ DeletionTyped' /\ (walk \in WalkType)' /\ RowsTyped'
    BY <1>1, StepSweep, StepDeletion, StepWalk, StepRows DEF WalkType
  <2> QED
    BY <2>1 DEF StoreTypeOK, SweepTyped, SweepType, DeletionTyped, WalkType, RowsTyped
<1>2. CASE UNCHANGED storeVars
  BY <1>2 DEF storeVars, StoreTypeOK, EventRow, TrackRow, SnapRow
<1> QED
  BY <1>1, <1>2

-----------------------------------------------------------------------------
(* The steps.  Only the worker adds rows and objects; sweep and deletion take *)
(* away; reports, walks and the trail change nothing that matters here.       *)

StoreFrame == <<now, events, snaps, objects, unused, excused, sweep, deletion>>

\* What one presence or rule event adds.
LEMMA Stored ==
    ASSUME RowsTyped, NEW i \in Id, NEW c \in Camera, NEW kind \in Kind, Store(i, c, kind)
    PROVE  /\ i \in unused /\ unused' = unused \ {i} /\ DOMAIN events' = DOMAIN events \union {i}
           /\ events'[i].end = now /\ events'[i].camera = c /\ events'[i].kind = kind
           /\ \A j \in DOMAIN events : j # i => events'[j] = events[j]
           /\ kind = "presence" =>
                 /\ DOMAIN snaps' = DOMAIN snaps \union {i} /\ snaps'[i] = [camera |-> c, at |-> now]
                 /\ \A j \in DOMAIN snaps : j # i => snaps'[j] = snaps[j]
                 /\ objects' = objects \union {i}
                 /\ deletion.camera = c => i \in excused'
           /\ kind # "presence" => UNCHANGED <<objects, snaps>>
           /\ excused \subseteq excused'
           /\ UNCHANGED <<now, sweep, deletion>>
<1>1. /\ i \in unused /\ unused' = unused \ {i} /\ UNCHANGED <<now, sweep, deletion>>
      /\ excused \subseteq excused'
  BY DEF Store
<1>2. /\ DOMAIN events' = DOMAIN events \union {i}
      /\ events'[i].end = now /\ events'[i].camera = c /\ events'[i].kind = kind
      /\ \A j \in DOMAIN events : j # i => events'[j] = events[j]
  BY DEF Store
<1>3. ASSUME kind = "presence"
      PROVE  /\ DOMAIN snaps' = DOMAIN snaps \union {i} /\ snaps'[i] = [camera |-> c, at |-> now]
             /\ \A j \in DOMAIN snaps : j # i => snaps'[j] = snaps[j]
             /\ objects' = objects \union {i}
             /\ deletion.camera = c => i \in excused'
  BY <1>3 DEF Store
<1>4. kind # "presence" => UNCHANGED <<objects, snaps>>
  BY DEF Store
<1> QED
  BY <1>1, <1>2, <1>3, <1>4

\* The removal of one object, by the sweep or by a deletion.
LEMMA ObjectGone ==
    ASSUME NEW i \in Id, NEW ok \in BOOLEAN, SweepObject(i, ok) \/ DeleteObject(i, ok)
    PROVE  /\ objects' \subseteq objects /\ excused \subseteq excused'
           /\ i \notin objects' \/ i \in excused'
           /\ \A j \in objects : j # i => j \in objects'
           /\ UNCHANGED <<now, events, snaps, unused>>
BY DEF SweepObject, DeleteObject, rows

\* The commit of a deletion.
LEMMA DeletionCommitted ==
    ASSUME DeleteCommit
    PROVE  /\ DOMAIN events' = {i \in DOMAIN events : events[i].camera # deletion.camera}
           /\ \A i \in DOMAIN events' : events'[i] = events[i]
           /\ DOMAIN snaps' = {i \in DOMAIN snaps : snaps[i].camera # deletion.camera}
           /\ \A i \in DOMAIN snaps' : snaps'[i] = snaps[i]
           /\ deletion' = [deletion EXCEPT !.committed = TRUE] /\ ~deletion.committed
           /\ UNCHANGED <<now, objects, sweep, unused, excused>>
BY DEF DeleteCommit, Without, OfCamera

\* What the sweep's own steps leave of the rows.
LEMMA SweepOnlyRemoves ==
    ASSUME SweepStart \/ SweepSelect \/ SweepDelete \/ SweepCommit \/ SweepAborts
    PROVE  /\ DOMAIN events' \subseteq DOMAIN events
           /\ \A i \in DOMAIN events' : events'[i] = events[i]
           /\ DOMAIN snaps' \subseteq DOMAIN snaps
           /\ \A i \in DOMAIN snaps' : snaps'[i] = snaps[i]
           /\ UNCHANGED <<now, objects, deletion, unused, excused>>
<1>1. CASE SweepDelete
  BY <1>1 DEF SweepDelete, Without
<1>2. CASE SweepCommit
  BY <1>2 DEF SweepCommit, Without
<1> QED
  BY <1>1, <1>2 DEF SweepStart, SweepSelect, SweepAborts, rows

LEMMA FrameSteps ==
    (Export \/ ExportAudit \/ WalkPage \/ (\E v \in Views : WalkStarts(v[1], v[2])))
        => UNCHANGED StoreFrame
BY DEF Export, ExportAudit, WalkPage, WalkStarts, StoreFrame, rows

LEMMA StepEnded == StoreTypeOK /\ Ended /\ StoreNext => Ended'
<1> SUFFICES ASSUME StoreTypeOK, Ended, StoreNext PROVE Ended'
  OBVIOUS
<1>0. RowsTyped /\ now \in Nat /\ \A i \in DOMAIN events : events[i].end \in Nat
  BY StoreConstants DEF StoreTypeOK, RowsTyped, EventRow
<1>1. ASSUME NEW i \in Id, NEW c \in Camera, NEW kind \in Kind, Store(i, c, kind) PROVE Ended'
  <2>1. DOMAIN events' = DOMAIN events \union {i} /\ events'[i].end = now /\ now' = now
    BY <1>0, <1>1, Stored
  <2>2. \A j \in DOMAIN events : j # i => events'[j] = events[j]
    BY <1>0, <1>1, Stored
  <2> QED
    BY <1>0, <2>1, <2>2 DEF Ended
<1>2. CASE StoreTick
  <2>1. now' = now + 1 /\ events' = events
    BY <1>2 DEF StoreTick, rows
  <2> QED
    BY <1>0, <2>1 DEF Ended
<1>3. CASE SweepStart \/ SweepSelect \/ SweepDelete \/ SweepCommit \/ SweepAborts
  BY <1>3, SweepOnlyRemoves DEF Ended
<1>4. CASE DeleteCommit
  BY <1>4, DeletionCommitted DEF Ended
<1>5. CASE UNCHANGED <<now, events>>
  BY <1>5 DEF Ended
<1> QED
  BY <1>1, <1>2, <1>3, <1>4, <1>5, FrameSteps, ObjectGone
     DEF StoreNext, Sweep, DeleteCollect, DeleteReturns, StoreFrame, rows

\* A chunk is taken from the rows of its stage.
LEMMA Selected ==
    ASSUME SweepTyped, SweepSelect, NEW i \in sweep'.chunk
    PROVE  /\ sweep'.stage = sweep.stage /\ sweep'.at = sweep.at
           /\ i \in Past(sweep.stage, sweep.at)
           /\ sweep.stage = "snapshots" => i \in sweep'.doing
<1> DEFINE past == Past(sweep.stage, sweep.at)
<1>1. past # {}
  <2> SUFFICES ASSUME past = {} PROVE FALSE
    OBVIOUS
  <2>1. sweep.chunk = {} /\ (sweep' = NoSweep \/ sweep' = [sweep EXCEPT !.stage = StageAfter(sweep.stage)])
    BY DEF SweepSelect
  <2>2. sweep'.chunk = {}
    BY <2>1 DEF SweepTyped, SweepType, NoSweep
  <2> QED
    BY <2>2
<1>2. PICK S \in SUBSET past :
         sweep' = [sweep EXCEPT !.chunk = S, !.doing = IF sweep.stage = "snapshots" THEN S ELSE {}]
  BY <1>1 DEF SweepSelect
<1> QED
  BY <1>2 DEF SweepTyped, SweepType

\* The other steps of a sweep keep its chunk or drop it.
LEMMA ChunkKept ==
    ASSUME SweepTyped, SweepStart \/ SweepDelete \/ SweepCommit \/ SweepAborts
    PROVE  sweep'.chunk = {}
<1>1. CASE SweepDelete
  <2>1. \/ sweep' = [sweep EXCEPT !.chunk = {}] \/ sweep' = NoSweep
        \/ sweep' = [sweep EXCEPT !.stage = StageAfter(sweep.stage), !.chunk = {}]
    BY <1>1 DEF SweepDelete
  <2>2. CASE sweep' = NoSweep
    BY <2>2 DEF NoSweep
  <2>3. CASE sweep' # NoSweep
    BY <2>1, <2>3 DEF SweepTyped, SweepType
  <2> QED
    BY <2>2, <2>3
<1>2. CASE SweepStart
  BY <1>2 DEF SweepStart, NoSweep
<1>3. CASE SweepCommit \/ SweepAborts
  <2>1. sweep' = [sweep EXCEPT !.chunk = {}] \/ sweep' = NoSweep
    BY <1>3 DEF SweepCommit, SweepAborts
  <2> QED
    BY <2>1 DEF SweepTyped, SweepType, NoSweep
<1> QED
  BY <1>1, <1>2, <1>3

LEMMA StepGiven == StoreTypeOK /\ GivenOnce /\ StoreNext => GivenOnce'
<1> SUFFICES ASSUME StoreTypeOK, GivenOnce, StoreNext PROVE GivenOnce'
  OBVIOUS
<1>0. RowsTyped /\ SweepTyped /\ DeletionTyped
  BY DEF StoreTypeOK, RowsTyped, SweepTyped, SweepType, DeletionTyped
<1>1. ASSUME NEW i \in Id, NEW c \in Camera, NEW kind \in Kind, Store(i, c, kind) PROVE GivenOnce'
  <2> USE <1>0, <1>1, Stored
  <2>1. unused' = unused \ {i} /\ DOMAIN events' = DOMAIN events \union {i} /\ UNCHANGED <<sweep, deletion>>
    OBVIOUS
  <2>2. DOMAIN snaps' \subseteq DOMAIN snaps \union {i} /\ objects' \subseteq objects \union {i}
    OBVIOUS
  <2> QED
    BY ONLY GivenOnce, <2>1, <2>2 DEF GivenOnce
<1>2. CASE SweepSelect
  <2>1. /\ DOMAIN events' \subseteq DOMAIN events /\ DOMAIN snaps' \subseteq DOMAIN snaps
        /\ UNCHANGED <<objects, deletion, unused>>
    BY <1>2, SweepOnlyRemoves
  <2>2. ASSUME NEW i \in unused', sweep'.stage # "audit", i \in sweep'.chunk PROVE FALSE
    <3>1. sweep'.stage = sweep.stage /\ i \in Past(sweep.stage, sweep.at)
      BY <1>0, <1>2, <2>2, Selected
    <3>2. i \in DOMAIN events \/ i \in DOMAIN snaps
      BY <2>2, <3>1 DEF Past
    <3> QED
      BY <2>1, <3>2 DEF GivenOnce
  <2> QED
    BY <2>1, <2>2 DEF GivenOnce
<1>3. CASE SweepStart \/ SweepDelete \/ SweepCommit \/ SweepAborts
  <2>1. /\ DOMAIN events' \subseteq DOMAIN events /\ DOMAIN snaps' \subseteq DOMAIN snaps
        /\ UNCHANGED <<objects, deletion, unused>>
    BY <1>3, SweepOnlyRemoves
  <2>2. sweep'.chunk = {}
    BY <1>0, <1>3, ChunkKept
  <2> QED
    BY <2>1, <2>2 DEF GivenOnce
<1>4. ASSUME NEW i \in Id, NEW ok \in BOOLEAN, SweepObject(i, ok) \/ DeleteObject(i, ok)
      PROVE  GivenOnce'
  <2>1. objects' \subseteq objects /\ UNCHANGED <<events, snaps, unused>>
    BY <1>4, ObjectGone
  <2>2. /\ sweep'.stage = sweep.stage /\ sweep'.chunk = sweep.chunk
        /\ deletion'.keys \subseteq deletion.keys
    BY <1>0, <1>4 DEF SweepObject, DeleteObject, SweepTyped, SweepType, DeletionTyped
  <2> QED
    BY <2>1, <2>2 DEF GivenOnce
<1>5. CASE DeleteCommit
  <2>1. /\ DOMAIN events' \subseteq DOMAIN events /\ DOMAIN snaps' \subseteq DOMAIN snaps
        /\ UNCHANGED <<objects, sweep, unused>>
    BY <1>5, DeletionCommitted
  <2>2. deletion'.keys = deletion.keys
    BY <1>0, <1>5, DeletionCommitted DEF DeletionTyped
  <2> QED
    BY <2>1, <2>2 DEF GivenOnce
<1>6. ASSUME NEW c \in Camera, DeleteCollect(c) \/ DeleteReturns PROVE GivenOnce'
  <2>1. UNCHANGED <<events, snaps, objects, unused, sweep>>
    BY <1>6 DEF DeleteCollect, DeleteReturns, rows
  <2>2. deletion'.keys \subseteq DOMAIN snaps
    BY <1>6 DEF DeleteCollect, DeleteReturns, NoDeletion, OfCamera
  <2> QED
    BY <2>1, <2>2 DEF GivenOnce
<1>7. CASE UNCHANGED <<events, snaps, objects, unused, sweep, deletion>>
  BY <1>7 DEF GivenOnce
<1>8. CASE DeleteReturns
  <2>1. UNCHANGED <<events, snaps, objects, unused, sweep>> /\ deletion'.keys = {}
    BY <1>8 DEF DeleteReturns, NoDeletion, rows
  <2> QED
    BY <2>1 DEF GivenOnce
<1> QED
  BY <1>1, <1>2, <1>3, <1>4, <1>5, <1>6, <1>7, <1>8, FrameSteps
     DEF StoreNext, Sweep, StoreTick, StoreFrame, rows

LEMMA StepPaired == StoreTypeOK /\ GivenOnce /\ Paired /\ StoreNext => Paired'
<1> SUFFICES ASSUME StoreTypeOK, GivenOnce, Paired, StoreNext PROVE Paired'
  OBVIOUS
<1>0. RowsTyped
  BY DEF StoreTypeOK, RowsTyped
<1>1. ASSUME NEW i \in Id, NEW c \in Camera, NEW kind \in Kind, Store(i, c, kind) PROVE Paired'
  <2> USE <1>0, <1>1, Stored
  <2>1. i \notin DOMAIN snaps
    BY DEF GivenOnce
  <2>2. /\ DOMAIN events' = DOMAIN events \union {i}
        /\ events'[i].end = now /\ events'[i].camera = c
    OBVIOUS
  <2>3. \A j \in DOMAIN events : j # i => events'[j] = events[j]
    OBVIOUS
  <2>4. /\ DOMAIN snaps' \subseteq DOMAIN snaps \union {i}
        /\ i \in DOMAIN snaps' => snaps'[i].camera = c /\ snaps'[i].at = now
    <3>1. CASE kind = "presence"
      <4>1. DOMAIN snaps' = DOMAIN snaps \union {i} /\ snaps'[i] = [camera |-> c, at |-> now]
        BY <3>1
      <4> QED
        BY ONLY <4>1
    <3>2. CASE kind # "presence"
      <4>1. snaps' = snaps
        BY <3>2
      <4> QED
        BY ONLY <2>1, <4>1
    <3> QED
      BY ONLY <3>1, <3>2
  <2>5. \A j \in DOMAIN snaps : j # i => snaps'[j] = snaps[j]
    OBVIOUS
  <2> QED
    BY ONLY Paired, <2>2, <2>3, <2>4, <2>5 DEF Paired
<1>2. CASE SweepStart \/ SweepSelect \/ SweepDelete \/ SweepCommit \/ SweepAborts
  BY <1>2, SweepOnlyRemoves DEF Paired
<1>3. CASE DeleteCommit
  BY <1>3, DeletionCommitted DEF Paired
<1>4. CASE UNCHANGED <<events, snaps>>
  BY <1>4 DEF Paired
<1> QED
  BY <1>1, <1>2, <1>3, <1>4, FrameSteps, ObjectGone
     DEF StoreNext, Sweep, DeleteCollect, DeleteReturns, StoreTick, StoreFrame, rows

LEMMA StepSwept ==
    StoreTypeOK /\ GivenOnce /\ Paired /\ Swept /\ StoreNext => Swept'
<1> SUFFICES ASSUME StoreTypeOK, GivenOnce, Paired, Swept, StoreNext PROVE Swept'
  OBVIOUS
<1>0. RowsTyped /\ SweepTyped /\ \A i \in DOMAIN events : events[i].end \in Nat
  BY DEF StoreTypeOK, RowsTyped, SweepTyped, SweepType, EventRow
<1>1. ASSUME NEW i \in Id, NEW c \in Camera, NEW kind \in Kind, Store(i, c, kind) PROVE Swept'
  <2> USE <1>0, <1>1, Stored
  <2>1. sweep.stage = "snapshots" => i \notin sweep.chunk
    BY DEF GivenOnce
  <2>2. DOMAIN events' = DOMAIN events \union {i} /\ sweep' = sweep /\ excused \subseteq excused'
    OBVIOUS
  <2>3. \A j \in DOMAIN events : j # i => events'[j] = events[j]
    OBVIOUS
  <2>4. objects' \subseteq objects \union {i}
    OBVIOUS
  <2> QED
    BY ONLY Swept, <2>1, <2>2, <2>3, <2>4 DEF Swept
<1>2. CASE SweepSelect
  <2>1. SUFFICES ASSUME sweep'.stage = "snapshots", NEW i \in sweep'.chunk
                 PROVE  /\ i \in DOMAIN events' => events'[i].end < sweep'.at - SnapshotDays
                        /\ i \in sweep'.doing
    BY DEF Swept
  <2>2. /\ sweep.stage = "snapshots" /\ sweep'.at = sweep.at /\ i \in sweep'.doing
        /\ i \in Past(sweep.stage, sweep.at)
    BY <1>0, <1>2, <2>1, Selected
  <2>3. i \in DOMAIN snaps /\ snaps[i].at < sweep.at - SnapshotDays
    BY <2>2 DEF Past
  <2>4. events' = events
    BY <1>2 DEF SweepSelect, rows
  <2> QED
    BY <2>2, <2>3, <2>4 DEF Paired
<1>3. CASE SweepStart \/ SweepDelete \/ SweepCommit \/ SweepAborts
  BY <1>0, <1>3, ChunkKept DEF Swept
<1>4. ASSUME NEW i \in Id, NEW ok \in BOOLEAN, SweepObject(i, ok) PROVE Swept'
  <2>1. /\ objects' \subseteq objects /\ excused \subseteq excused' /\ events' = events
        /\ i \notin objects' \/ i \in excused'
    BY <1>4, ObjectGone
  <2>2. sweep' = [sweep EXCEPT !.doing = sweep.doing \ {i}]
    BY <1>4 DEF SweepObject
  <2>3. /\ sweep'.stage = sweep.stage /\ sweep'.at = sweep.at /\ sweep'.chunk = sweep.chunk
        /\ sweep'.doing = sweep.doing \ {i}
    BY <1>0, <2>2 DEF SweepTyped, SweepType
  <2> QED
    BY <2>1, <2>3 DEF Swept
<1>5. ASSUME NEW i \in Id, NEW ok \in BOOLEAN, DeleteObject(i, ok) PROVE Swept'
  <2>1. /\ objects' \subseteq objects /\ excused \subseteq excused' /\ events' = events
    BY <1>5, ObjectGone
  <2>2. sweep' = sweep
    BY <1>5 DEF DeleteObject
  <2> QED
    BY <2>1, <2>2 DEF Swept
<1>6. CASE DeleteCommit
  <2>1. /\ DOMAIN events' \subseteq DOMAIN events /\ \A i \in DOMAIN events' : events'[i] = events[i]
        /\ UNCHANGED <<objects, sweep, excused>>
    BY <1>6, DeletionCommitted
  <2> QED
    BY <2>1 DEF Swept
<1>7. CASE UNCHANGED <<events, objects, sweep, excused>>
  BY <1>7 DEF Swept
<1> QED
  BY <1>1, <1>2, <1>3, <1>4, <1>5, <1>6, <1>7, FrameSteps
     DEF StoreNext, Sweep, DeleteCollect, DeleteReturns, StoreTick, StoreFrame, rows

LEMMA StepListed ==
    StoreTypeOK /\ GivenOnce /\ Paired /\ Listed /\ StoreNext => Listed'
<1> SUFFICES ASSUME StoreTypeOK, GivenOnce, Paired, Listed, StoreNext PROVE Listed'
  OBVIOUS
<1>0. RowsTyped /\ DeletionTyped
  BY DEF StoreTypeOK, RowsTyped, DeletionTyped
<1>1. ASSUME NEW i \in Id, NEW c \in Camera, NEW kind \in Kind, Store(i, c, kind) PROVE Listed'
  <2> USE <1>0, <1>1, Stored
  <2>1. i \notin deletion.keys
    BY DEF GivenOnce
  <2>2. DOMAIN events' = DOMAIN events \union {i} /\ deletion' = deletion /\ excused \subseteq excused'
    OBVIOUS
  <2>3. \A j \in DOMAIN events : j # i => events'[j] = events[j]
    OBVIOUS
  <2>4. ASSUME NEW j \in DOMAIN snaps', snaps'[j].camera = deletion.camera, ~deletion.committed
        PROVE  j \in deletion.keys \union excused'
    <3>1. CASE kind # "presence"
      <4>1. snaps' = snaps /\ excused \subseteq excused'
        BY <3>1
      <4> QED
        BY ONLY <2>4, <4>1, Listed DEF Listed
    <3>2. CASE kind = "presence"
      <4>1. DOMAIN snaps' = DOMAIN snaps \union {i} /\ snaps'[i] = [camera |-> c, at |-> now]
        BY <3>2
      <4>2. deletion.camera = c => i \in excused'
        BY <3>2
      <4>3. \A k \in DOMAIN snaps : k # i => snaps'[k] = snaps[k]
        BY <3>2
      <4> QED
        BY ONLY <2>2, <2>4, <4>1, <4>2, <4>3, Listed DEF Listed
    <3> QED
      BY ONLY <3>1, <3>2
  <2>5. \A j \in DOMAIN snaps' :
           ~deletion.committed /\ snaps'[j].camera = deletion.camera => j \in deletion.keys \union excused'
    BY ONLY <2>4
  <2>6. \A j \in deletion.keys :
           j \in DOMAIN events' => ~deletion.committed /\ events'[j].camera = deletion.camera
    BY ONLY <2>1, <2>2, <2>3, Listed DEF Listed
  <2> QED
    BY ONLY <2>2, <2>5, <2>6 DEF Listed
<1>2. CASE SweepStart \/ SweepSelect \/ SweepDelete \/ SweepCommit \/ SweepAborts
  BY <1>2, SweepOnlyRemoves DEF Listed
<1>3. ASSUME NEW c \in Camera, DeleteCollect(c) PROVE Listed'
  <2>1. /\ deletion'.camera = c /\ deletion'.keys = OfCamera(snaps, c) /\ deletion'.committed = FALSE
        /\ UNCHANGED <<events, snaps>>
    BY <1>3 DEF DeleteCollect, rows
  <2> QED
    BY <2>1 DEF Listed, Paired, OfCamera
<1>4. CASE DeleteCommit
  <2>1. /\ deletion'.camera = deletion.camera /\ deletion'.keys = deletion.keys
        /\ deletion'.committed = TRUE
    BY <1>0, <1>4, DeletionCommitted DEF DeletionTyped
  <2>2. DOMAIN events' = {i \in DOMAIN events : events[i].camera # deletion.camera}
    BY <1>4, DeletionCommitted
  <2> QED
    BY <2>1, <2>2 DEF Listed
<1>5. ASSUME NEW i \in Id, NEW ok \in BOOLEAN, DeleteObject(i, ok) PROVE Listed'
  <2>1. excused \subseteq excused' /\ UNCHANGED <<events, snaps>>
    BY <1>5, ObjectGone
  <2>2. /\ deletion'.committed = TRUE /\ deletion'.keys \subseteq deletion.keys /\ deletion.committed
    BY <1>0, <1>5 DEF DeleteObject, DeletionTyped
  <2> QED
    BY <2>1, <2>2 DEF Listed
<1>6. CASE DeleteReturns
  <2>1. deletion'.camera = 0 /\ deletion'.keys = {} /\ snaps' = snaps
    BY <1>6 DEF DeleteReturns, NoDeletion, rows
  <2>2. \A i \in DOMAIN snaps : snaps[i].camera # 0
    BY <1>0, StoreConstants DEF RowsTyped, SnapRow
  <2> QED
    BY <2>1, <2>2 DEF Listed
<1>7. ASSUME NEW i \in Id, NEW ok \in BOOLEAN, SweepObject(i, ok) PROVE Listed'
  <2>1. excused \subseteq excused' /\ UNCHANGED <<events, snaps>>
    BY <1>7, ObjectGone
  <2>2. deletion' = deletion
    BY <1>7 DEF SweepObject
  <2> QED
    BY <2>1, <2>2 DEF Listed
<1>8. CASE UNCHANGED <<events, snaps, deletion, excused>>
  BY <1>8 DEF Listed
<1> QED
  BY <1>1, <1>2, <1>3, <1>4, <1>5, <1>6, <1>7, <1>8, FrameSteps
     DEF StoreNext, Sweep, StoreTick, StoreFrame, rows

\* The two halves of SnapshotsAccounted.
Kept ==
    \A i \in DOMAIN events :
        events[i].kind = "presence" /\ i \notin objects => events[i].end < now - SnapshotDays

Owned == \A i \in objects : i \in DOMAIN snaps \union excused \union deletion.keys

LEMMA Halves == Kept /\ Owned <=> SnapshotsAccounted
BY DEF Kept, Owned, SnapshotsAccounted, has_snapshot, serve_video

LEMMA StepKept == StoreInv /\ StoreNext => Kept'
<1> SUFFICES ASSUME StoreInv, StoreNext PROVE Kept'
  OBVIOUS
<1>0. RowsTyped /\ SweepTyped /\ Swept /\ Listed /\ now \in Nat /\ SnapshotDays \in Nat
  BY StoreConstants DEF StoreInv, StoreTypeOK, RowsTyped, SweepTyped, SweepType
<1>1. Kept /\ \A i \in DOMAIN events : events[i].end \in Nat
  BY <1>0, Halves DEF StoreInv, RowsTyped, EventRow
<1>2. ASSUME NEW i \in Id, NEW c \in Camera, NEW kind \in Kind, Store(i, c, kind) PROVE Kept'
  <2> USE <1>0, <1>2, Stored
  <2>1. DOMAIN events' = DOMAIN events \union {i} /\ events'[i].kind = kind /\ now' = now
    OBVIOUS
  <2>2. \A j \in DOMAIN events : j # i => events'[j] = events[j]
    OBVIOUS
  <2>3. objects \subseteq objects' /\ (kind = "presence" => i \in objects')
    OBVIOUS
  <2> QED
    BY ONLY <1>1, <2>1, <2>2, <2>3 DEF Kept
<1>3. CASE SweepStart \/ SweepSelect \/ SweepDelete \/ SweepCommit \/ SweepAborts
  BY <1>1, <1>3, SweepOnlyRemoves DEF Kept
<1>4. ASSUME NEW i \in Id, NEW ok \in BOOLEAN, SweepObject(i, ok) PROVE Kept'
  <2>1. /\ UNCHANGED <<now, events>> /\ \A j \in objects : j # i => j \in objects'
    BY <1>4, ObjectGone
  <2>2. sweep.stage = "snapshots" /\ i \in sweep.chunk /\ sweep.at \in 0..now
    BY <1>0, <1>4 DEF SweepObject, SweepTyped, SweepType
  <2>3. i \in DOMAIN events => events[i].end < sweep.at - SnapshotDays
    BY <1>0, <2>2 DEF Swept
  <2>4. i \in DOMAIN events => events[i].end < now - SnapshotDays
    BY <1>0, <1>1, <2>2, <2>3
  <2> QED
    BY <1>1, <2>1, <2>4 DEF Kept
<1>5. ASSUME NEW i \in Id, NEW ok \in BOOLEAN, DeleteObject(i, ok) PROVE Kept'
  <2>1. /\ UNCHANGED <<now, events>> /\ \A j \in objects : j # i => j \in objects'
    BY <1>5, ObjectGone
  <2>2. i \notin DOMAIN events
    BY <1>0, <1>5 DEF DeleteObject, Listed
  <2> QED
    BY <1>1, <2>1, <2>2 DEF Kept
<1>6. CASE DeleteCommit
  BY <1>1, <1>6, DeletionCommitted DEF Kept
<1>7. CASE StoreTick
  <2>1. now' = now + 1 /\ UNCHANGED <<events, objects>>
    BY <1>7 DEF StoreTick, rows
  <2> QED
    BY <1>0, <1>1, <2>1 DEF Kept
<1>8. CASE UNCHANGED <<now, events, objects>>
  BY <1>1, <1>8 DEF Kept
<1> QED
  BY <1>2, <1>3, <1>4, <1>5, <1>6, <1>7, <1>8, FrameSteps
     DEF StoreNext, Sweep, DeleteCollect, DeleteReturns, StoreFrame, rows

LEMMA StepOwned == StoreInv /\ StoreNext => Owned'
<1> SUFFICES ASSUME StoreInv, StoreNext PROVE Owned'
  OBVIOUS
<1>0. RowsTyped /\ SweepTyped /\ DeletionTyped /\ Swept /\ Listed /\ Owned
  BY Halves DEF StoreInv, StoreTypeOK, RowsTyped, SweepTyped, SweepType, DeletionTyped
<1>1. ASSUME NEW i \in Id, NEW c \in Camera, NEW kind \in Kind, Store(i, c, kind) PROVE Owned'
  <2> USE <1>0, <1>1, Stored
  <2>1. deletion' = deletion /\ excused \subseteq excused'
    OBVIOUS
  <2>2. CASE kind = "presence"
    <3>1. DOMAIN snaps' = DOMAIN snaps \union {i} /\ objects' = objects \union {i}
      BY <2>2
    <3> QED
      BY ONLY <1>0, <2>1, <3>1 DEF Owned
  <2>3. CASE kind # "presence"
    <3>1. snaps' = snaps /\ objects' = objects
      BY <2>3
    <3> QED
      BY ONLY <1>0, <2>1, <3>1 DEF Owned
  <2> QED
    BY ONLY <2>2, <2>3
<1>2. CASE SweepCommit
  <2>1. UNCHANGED <<objects, excused, deletion>>
    BY <1>2 DEF SweepCommit
  <2>2. DOMAIN snaps' = DOMAIN snaps \ sweep.chunk
    BY <1>2 DEF SweepCommit, Without
  <2>3. \A i \in sweep.chunk : i \notin objects \/ i \in excused
    BY <1>0, <1>2 DEF SweepCommit, Swept
  <2> QED
    BY <1>0, <2>1, <2>2, <2>3 DEF Owned
<1>3. ASSUME NEW i \in Id, NEW ok \in BOOLEAN, SweepObject(i, ok) \/ DeleteObject(i, ok)
      PROVE  Owned'
  <2>1. /\ objects' \subseteq objects /\ excused \subseteq excused' /\ snaps' = snaps
        /\ i \notin objects' \/ i \in excused'
    BY <1>3, ObjectGone
  <2>2. deletion.keys \subseteq deletion'.keys \union {i}
    BY <1>0, <1>3 DEF SweepObject, DeleteObject, DeletionTyped
  <2> QED
    BY <1>0, <2>1, <2>2 DEF Owned
<1>4. CASE DeleteCommit
  <2>1. /\ UNCHANGED <<objects, excused>> /\ deletion'.keys = deletion.keys /\ ~deletion.committed
        /\ DOMAIN snaps' = {i \in DOMAIN snaps : snaps[i].camera # deletion.camera}
    BY <1>0, <1>4, DeletionCommitted DEF DeletionTyped
  <2>2. \A i \in DOMAIN snaps :
           i \in DOMAIN snaps' \/ i \in deletion.keys \union excused
    BY <1>0, <2>1 DEF Listed
  <2> QED
    BY <1>0, <2>1, <2>2 DEF Owned
<1>5. ASSUME NEW c \in Camera, DeleteCollect(c) PROVE Owned'
  <2>1. deletion = NoDeletion /\ UNCHANGED <<objects, snaps, excused>>
    BY <1>5 DEF DeleteCollect, rows
  <2> QED
    BY <1>0, <2>1 DEF Owned, NoDeletion
<1>6. CASE DeleteReturns
  <2>1. deletion.keys = {} /\ UNCHANGED <<objects, snaps, excused>>
    BY <1>6 DEF DeleteReturns, rows
  <2> QED
    BY <1>0, <2>1 DEF Owned
<1>7. CASE UNCHANGED <<objects, snaps, excused, deletion>>
  BY <1>0, <1>7 DEF Owned
<1> QED
  BY <1>1, <1>2, <1>3, <1>4, <1>5, <1>6, <1>7, FrameSteps
     DEF StoreNext, Sweep, SweepStart, SweepSelect, SweepDelete, SweepAborts, StoreTick,
         StoreFrame, rows

-----------------------------------------------------------------------------
(* The theorems about the store. *)

\* Types, ids given once, what a sweep and a deletion have in hand, and whom
\* the objects belong to.
THEOREM StoreInductive == StoreSpec => []StoreInv
<1>1. StoreInv /\ [StoreNext]_storeVars => StoreInv'
  <2> SUFFICES ASSUME StoreInv, [StoreNext]_storeVars PROVE StoreInv'
    OBVIOUS
  <2>0. StoreTypeOK'
    BY StoreStepTypes DEF StoreInv
  <2>1. CASE StoreNext
    <3>1. Ended' /\ GivenOnce' /\ Paired'
      BY <2>1, StepEnded, StepGiven, StepPaired DEF StoreInv
    <3>2. Swept' /\ Listed'
      BY <2>1, StepSwept, StepListed DEF StoreInv
    <3>3. SnapshotsAccounted'
      BY <2>1, StepKept, StepOwned, Halves
         DEF Kept, Owned, SnapshotsAccounted, has_snapshot, serve_video
    <3> QED
      BY <2>0, <3>1, <3>2, <3>3 DEF StoreInv
  <2>2. CASE UNCHANGED storeVars
    BY <2>0, <2>2 DEF storeVars, StoreInv, Ended, GivenOnce, Paired, Swept, Listed,
                      SnapshotsAccounted, has_snapshot, serve_video
  <2> QED
    BY <2>1, <2>2
<1> QED
  BY InitStore, <1>1, PTL DEF StoreSpec

\* Every reachable state of rows, objects, sweep, deletion and walk is well
\* typed, for all retentions, chunks and cameras.
THEOREM StoreTypeCorrect == StoreSpec => []StoreTypeOK
<1>1. StoreInv => StoreTypeOK
  BY DEF StoreInv
<1> QED
  BY StoreInductive, <1>1, PTL

\* An event that says it has a snapshot has one until its retention has
\* passed, and no object is left without a row but for the listed reasons,
\* however sweep, deletion and the worker interleave (_sweep_retention,
\* delete_camera).
THEOREM SnapshotsKept == StoreSpec => []SnapshotsAccounted
<1>1. StoreInv => SnapshotsAccounted
  BY DEF StoreInv
<1> QED
  BY StoreInductive, <1>1, PTL

-----------------------------------------------------------------------------
(* What the sweep removes. *)

\* Whatever of the chunk in hand is still there has expired.
InHand ==
    /\ sweep.stage = "events" =>
          \A i \in sweep.chunk \intersect DOMAIN events : events[i].end < sweep.at - EventDays
    /\ sweep.stage = "snapshots" =>
          \A i \in sweep.chunk \intersect DOMAIN snaps : snaps[i].at < sweep.at - SnapshotDays
    /\ sweep.stage = "audit" => \A a \in sweep.chunk : a.ts < sweep.at - AuditDays

LEMMA InitInHand == StoreInit => InHand
BY DEF StoreInit, NoSweep, InHand

LEMMA StepInHand == StoreInv /\ InHand /\ [StoreNext]_storeVars => InHand'
<1> SUFFICES ASSUME StoreInv, InHand, [StoreNext]_storeVars PROVE InHand'
  OBVIOUS
<1>0. RowsTyped /\ SweepTyped /\ GivenOnce
  BY DEF StoreInv, StoreTypeOK, RowsTyped, SweepTyped, SweepType
<1>1. ASSUME NEW i \in Id, NEW c \in Camera, NEW kind \in Kind, Store(i, c, kind) PROVE InHand'
  <2>1. sweep.stage # "audit" => i \notin sweep.chunk
    BY <1>0, <1>1, Stored DEF GivenOnce
  <2>2. /\ sweep' = sweep /\ DOMAIN events' = DOMAIN events \union {i}
        /\ \A j \in DOMAIN events : j # i => events'[j] = events[j]
    BY <1>0, <1>1, Stored
  <2>3. /\ DOMAIN snaps' \subseteq DOMAIN snaps \union {i}
        /\ \A j \in DOMAIN snaps : j # i => snaps'[j] = snaps[j]
    BY <1>0, <1>1, Stored
  <2> QED
    BY <2>1, <2>2, <2>3 DEF InHand
<1>2. CASE SweepSelect
  <2>1. ASSUME NEW i \in sweep'.chunk
        PROVE  sweep'.stage = sweep.stage /\ sweep'.at = sweep.at /\ i \in Past(sweep.stage, sweep.at)
    BY <1>0, <1>2, <2>1, Selected
  <2>2. UNCHANGED <<events, snaps, audit>>
    BY <1>2 DEF SweepSelect, rows
  <2> QED
    BY <2>1, <2>2 DEF InHand, Past
<1>3. CASE SweepStart \/ SweepDelete \/ SweepCommit \/ SweepAborts
  <2>1. sweep'.chunk = {}
    BY <1>0, <1>3, ChunkKept
  <2> QED
    BY <2>1 DEF InHand
<1>4. ASSUME NEW i \in Id, NEW ok \in BOOLEAN, SweepObject(i, ok) PROVE InHand'
  <2>1. sweep' = [sweep EXCEPT !.doing = sweep.doing \ {i}] /\ UNCHANGED <<events, snaps>>
    BY <1>4 DEF SweepObject, rows
  <2>2. sweep'.stage = sweep.stage /\ sweep'.at = sweep.at /\ sweep'.chunk = sweep.chunk
    BY <1>0, <2>1 DEF SweepTyped, SweepType
  <2> QED
    BY <2>1, <2>2 DEF InHand
<1>5. CASE DeleteCommit
  BY <1>5, DeletionCommitted DEF InHand
<1>6. CASE UNCHANGED <<events, snaps, sweep>>
  BY <1>6 DEF InHand
<1> QED
  BY <1>1, <1>2, <1>3, <1>4, <1>5, <1>6
     DEF StoreNext, Sweep, DeleteCollect, DeleteReturns, DeleteObject, Export, ExportAudit, WalkStarts,
         WalkPage, StoreTick, rows, storeVars

\* What a step of the sweep takes out of the tables and of the storage.
LEMMA SweepTakes ==
    ASSUME StoreInv, InHand, Sweep
    PROVE  /\ \A i \in DOMAIN events \ DOMAIN events' : events[i].end < now - EventDays
           /\ \A i \in DOMAIN snaps \ DOMAIN snaps' : snaps[i].at < now - SnapshotDays
           /\ \A a \in audit \ audit' : a.ts < now - AuditDays
           /\ \A i \in (objects \ objects') \intersect DOMAIN snaps : snaps[i].at < now - SnapshotDays
<1>0. /\ RowsTyped /\ SweepTyped /\ now \in Nat /\ sweep.at \in Nat /\ sweep.at <= now
      /\ \A i \in DOMAIN events : events[i].end \in Nat
      /\ \A i \in DOMAIN snaps : snaps[i].at \in Nat
      /\ \A a \in audit : a.ts \in Nat
  BY StoreConstants DEF StoreInv, StoreTypeOK, RowsTyped, SweepTyped, SweepType, EventRow, SnapRow, AuditRow
<1> USE StoreConstants
<1>1. CASE SweepDelete
  <2>1. UNCHANGED <<snaps, objects>>
    BY <1>1 DEF SweepDelete
  <2>2. CASE sweep.stage = "events"
    <3>1. events' = Without(events, sweep.chunk \intersect DOMAIN events) /\ audit' = audit
      BY <1>1, <2>2 DEF SweepDelete
    <3>2. \A i \in DOMAIN events \ DOMAIN events' : i \in sweep.chunk \intersect DOMAIN events
      BY <3>1 DEF Without
    <3>3. ASSUME NEW i \in DOMAIN events \ DOMAIN events' PROVE events[i].end < now - EventDays
      <4>1. events[i].end < sweep.at - EventDays
        BY <2>2, <3>2, <3>3 DEF InHand
      <4>2. events[i].end \in Nat
        BY <1>0, <3>3
      <4> QED
        BY <1>0, <4>1, <4>2
    <3> QED
      BY <2>1, <3>1, <3>3
  <2>3. CASE sweep.stage = "audit"
    <3>1. audit' = audit \ (sweep.chunk \intersect audit) /\ events' = events
      BY <1>1, <2>3 DEF SweepDelete
    <3> QED
      BY <1>0, <2>1, <2>3, <3>1 DEF InHand
  <2> QED
    BY <1>1, <2>2, <2>3 DEF SweepDelete
<1>2. CASE SweepCommit
  <2>1. UNCHANGED <<events, objects, audit>> /\ sweep.stage = "snapshots"
    BY <1>2 DEF SweepCommit
  <2>2. \A i \in DOMAIN snaps \ DOMAIN snaps' : i \in sweep.chunk \intersect DOMAIN snaps
    BY <1>2 DEF SweepCommit, Without
  <2> QED
    BY <1>0, <2>1, <2>2 DEF InHand
<1>3. ASSUME NEW i \in Id, SweepObject(i, TRUE)
      PROVE  /\ UNCHANGED <<events, snaps, audit>>
             /\ \A j \in (objects \ objects') \intersect DOMAIN snaps : snaps[j].at < now - SnapshotDays
  <2>1. UNCHANGED <<events, snaps, audit>> /\ i \in sweep.doing /\ objects' = objects \ {i}
    BY <1>3 DEF SweepObject, rows
  <2>2. i \in sweep.chunk /\ sweep.stage = "snapshots"
    BY <1>0, <2>1 DEF SweepTyped
  <2> QED
    BY <1>0, <2>1, <2>2 DEF InHand
<1>4. CASE SweepStart \/ SweepSelect
  BY <1>4 DEF SweepStart, SweepSelect, rows
<1> QED
  BY <1>1, <1>2, <1>3, <1>4 DEF Sweep

\* _sweep_retention removes an event, a snapshot, its object or an audit row only
\* when its own retention has passed, whatever the worker, a deletion or an
\* operator does between the query of a chunk and its commit.
THEOREM OnlyExpiredSwept ==
    StoreSpec =>
      [][Sweep => /\ \A i \in DOMAIN events \ DOMAIN events' : events[i].end < now - EventDays
                  /\ \A i \in DOMAIN snaps \ DOMAIN snaps' : snaps[i].at < now - SnapshotDays
                  /\ \A a \in audit \ audit' : a.ts < now - AuditDays
                  /\ \A i \in (objects \ objects') \intersect DOMAIN snaps :
                        snaps[i].at < now - SnapshotDays]_storeVars
<1>1. StoreInv /\ InHand /\ [StoreNext]_storeVars
      => [Sweep => /\ \A i \in DOMAIN events \ DOMAIN events' : events[i].end < now - EventDays
                   /\ \A i \in DOMAIN snaps \ DOMAIN snaps' : snaps[i].at < now - SnapshotDays
                   /\ \A a \in audit \ audit' : a.ts < now - AuditDays
                   /\ \A i \in (objects \ objects') \intersect DOMAIN snaps :
                         snaps[i].at < now - SnapshotDays]_storeVars
  BY SweepTakes
<1>2. StoreInit => InHand
  BY InitInHand
<1> QED
  BY StoreInductive, <1>1, <1>2, StepInHand, PTL DEF StoreSpec

Stages == {"events", "snapshots", "audit"}

LEMMA PastShrinks ==
    ASSUME StoreInv, [StoreNext]_storeVars, NEW at \in 0..now, NEW stage \in Stages
    PROVE  Past(stage, at)' \subseteq Past(stage, at)
<1>0. RowsTyped /\ now \in Nat /\ at \in Nat /\ at <= now
  BY StoreConstants DEF StoreInv, StoreTypeOK, RowsTyped
<1>1. /\ Past("events", at)' = {i \in DOMAIN events' : events'[i].end < at - EventDays}
      /\ Past("snapshots", at)' = {i \in DOMAIN snaps' : snaps'[i].at < at - SnapshotDays}
      /\ Past("audit", at)' = {a \in audit' : a.ts < at - AuditDays}
  BY DEF Past
<1>2. ~(now < at - EventDays) /\ ~(now < at - SnapshotDays) /\ ~(now < at - AuditDays)
  BY <1>0, StoreConstants
<1>3. ASSUME /\ \A i \in DOMAIN events' : (i \in DOMAIN events /\ events'[i] = events[i]) \/ events'[i].end = now
             /\ \A i \in DOMAIN snaps' : (i \in DOMAIN snaps /\ snaps'[i] = snaps[i]) \/ snaps'[i].at = now
             /\ \A a \in audit' : a \in audit \/ a.ts = now
      PROVE  Past(stage, at)' \subseteq Past(stage, at)
  BY <1>1, <1>2, <1>3 DEF Past, Stages
<1>4. ASSUME NEW i \in Id, NEW c \in Camera, NEW kind \in Kind, Store(i, c, kind)
      PROVE  Past(stage, at)' \subseteq Past(stage, at)
  <2>1. /\ DOMAIN events' = DOMAIN events \union {i} /\ events'[i].end = now
        /\ \A j \in DOMAIN events : j # i => events'[j] = events[j]
    BY <1>0, <1>4, Stored
  <2>2. \A j \in DOMAIN snaps' : (j \in DOMAIN snaps /\ snaps'[j] = snaps[j]) \/ snaps'[j].at = now
    <3>1. CASE kind = "presence"
      <4>1. kind = "presence" =>
               /\ DOMAIN snaps' = DOMAIN snaps \union {i} /\ snaps'[i] = [camera |-> c, at |-> now]
               /\ \A j \in DOMAIN snaps : j # i => snaps'[j] = snaps[j]
        BY <1>0, <1>4, Stored
      <4>2. snaps'[i].at = now
        BY <3>1, <4>1
      <4> QED
        BY <3>1, <4>1, <4>2
    <3>2. CASE kind # "presence"
      BY <1>0, <1>4, <3>2, Stored
    <3> QED
      BY <3>1, <3>2
  <2>3. audit' = audit
    BY <1>4 DEF Store
  <2> QED
    BY <1>3, <2>1, <2>2, <2>3
<1>5. CASE SweepStart \/ SweepSelect \/ SweepDelete \/ SweepCommit \/ SweepAborts
  <2>1. audit' \subseteq audit
    BY <1>5 DEF SweepStart, SweepSelect, SweepDelete, SweepCommit, SweepAborts
  <2> QED
    BY <1>3, <1>5, <2>1, SweepOnlyRemoves
<1>6. CASE DeleteCommit
  <2>1. \A a \in audit' : a \in audit \/ a.ts = now
    BY <1>6 DEF DeleteCommit, write_audit
  <2>2. /\ \A i \in DOMAIN events' : i \in DOMAIN events /\ events'[i] = events[i]
        /\ \A i \in DOMAIN snaps' : i \in DOMAIN snaps /\ snaps'[i] = snaps[i]
    BY <1>6, DeletionCommitted
  <2> QED
    BY <1>3, <2>1, <2>2
<1>7. CASE Export \/ ExportAudit
  <2>1. UNCHANGED <<events, snaps>> /\ \A a \in audit' : a \in audit \/ a.ts = now
    BY <1>7 DEF Export, ExportAudit, write_audit, rows
  <2> QED
    BY <1>3, <2>1
<1>8. CASE UNCHANGED <<events, snaps, audit>>
  BY <1>3, <1>8
<1> QED
  BY <1>4, <1>5, <1>6, <1>7, <1>8
     DEF StoreNext, Sweep, SweepObject, DeleteCollect, DeleteReturns, DeleteObject, WalkStarts,
         WalkPage, StoreTick, rows, storeVars

\* The safety half of ExpiredGone: what had expired at a given time only becomes
\* less, for whatever is stored or written later is younger.  A sweep, whose cut
\* is that of its start, has no more before it than it found.
THEOREM ExpiredOnlyShrinks ==
    StoreSpec => [][\A at \in 0..now, stage \in Stages : Past(stage, at)' \subseteq Past(stage, at)]_storeVars
<1>1. StoreInv /\ [StoreNext]_storeVars
      => [\A at \in 0..now, stage \in Stages : Past(stage, at)' \subseteq Past(stage, at)]_storeVars
  BY PastShrinks
<1> QED
  BY StoreInductive, <1>1, PTL DEF StoreSpec

-----------------------------------------------------------------------------
(* Places in an order, and what becomes of them when members are taken out. *)

\* ahead[i] is what comes before i in a strict order of the finite set T.
Ordered(T, ahead) ==
    /\ IsFiniteSet(T) /\ ahead \in [T -> SUBSET T]
    /\ \A i \in T : i \notin ahead[i]
    /\ \A i, j \in T : j \in ahead[i] => ahead[j] \subseteq ahead[i]
    /\ \A i, j \in T : i = j \/ i \in ahead[j] \/ j \in ahead[i]

\* The members of S that come at the places o to o + n - 1.
AtPlaces(S, ahead, o, n) == {i \in S : Cardinality(ahead[i]) \in o .. o + n - 1}

\* The members of S that come before place o.
Behind(S, ahead, o) == {i \in S : Cardinality(ahead[i]) < o}

\* No two members have the same number of members before them.
LEMMA Ranks ==
    ASSUME NEW T, NEW ahead, Ordered(T, ahead)
    PROVE  /\ Cardinality(T) \in Nat
           /\ \A i \in T : Cardinality(ahead[i]) \in 0 .. Cardinality(T) - 1
           /\ \A i, j \in T : Cardinality(ahead[i]) = Cardinality(ahead[j]) => i = j
<1>1. Cardinality(T) \in Nat
  BY FS_CardinalityType DEF Ordered
<1>2. ASSUME NEW i \in T PROVE Cardinality(ahead[i]) \in 0 .. Cardinality(T) - 1
  <2>1. ahead[i] \in SUBSET T /\ ahead[i] # T /\ IsFiniteSet(T)
    BY DEF Ordered
  <2>2. IsFiniteSet(ahead[i]) /\ Cardinality(ahead[i]) <= Cardinality(T)
        /\ Cardinality(ahead[i]) # Cardinality(T)
    BY <2>1, FS_Subset
  <2>3. Cardinality(ahead[i]) \in Nat
    BY <2>2, FS_CardinalityType
  <2> QED
    BY <1>1, <2>2, <2>3
<1>3. ASSUME NEW i \in T, NEW j \in T, i \in ahead[j]
      PROVE  Cardinality(ahead[i]) # Cardinality(ahead[j])
  <2>1. ahead[i] \in SUBSET ahead[j] /\ ahead[i] # ahead[j] /\ ahead[j] \in SUBSET T /\ IsFiniteSet(T)
    BY <1>3 DEF Ordered
  <2>2. IsFiniteSet(ahead[j])
    BY <2>1, FS_Subset
  <2> QED
    BY <2>1, <2>2, FS_Subset
<1>4. ASSUME NEW i \in T, NEW j \in T, Cardinality(ahead[i]) = Cardinality(ahead[j]) PROVE i = j
  BY <1>3, <1>4 DEF Ordered
<1> QED
  BY <1>1, <1>2, <1>4

LEMMA PlacesCount ==
    ASSUME NEW o \in Nat, NEW n \in Nat
    PROVE  IsFiniteSet(o .. o + n - 1) /\ Cardinality(o .. o + n - 1) = n
<1>1. o \in Int /\ o + n - 1 \in Int
  OBVIOUS
<1>2. /\ IsFiniteSet(o .. o + n - 1)
      /\ Cardinality(o .. o + n - 1) = IF o > o + n - 1 THEN 0 ELSE (o + n - 1) - o + 1
  BY <1>1, FS_Interval
<1>3. (IF o > o + n - 1 THEN 0 ELSE (o + n - 1) - o + 1) = n
  OBVIOUS
<1> QED
  BY <1>2, <1>3

\* At n places there are at most n members, and exactly n when there are so many.
LEMMA PlacesFilled ==
    ASSUME NEW T, NEW ahead, Ordered(T, ahead), NEW o \in Nat, NEW n \in Nat
    PROVE  /\ IsFiniteSet(AtPlaces(T, ahead, o, n))
           /\ Cardinality(AtPlaces(T, ahead, o, n)) \in 0..n
           /\ o + n <= Cardinality(T) => Cardinality(AtPlaces(T, ahead, o, n)) = n
<1> DEFINE f == [i \in T |-> Cardinality(ahead[i])]
           P == AtPlaces(T, ahead, o, n)
           g == [i \in P |-> Cardinality(ahead[i])]
<1> USE Ranks
<1>1. f \in Injection(T, 0 .. Cardinality(T) - 1)
  BY DEF Injection, IsInjective
<1>2. /\ IsFiniteSet(0 .. Cardinality(T) - 1)
      /\ Cardinality(0 .. Cardinality(T) - 1) = Cardinality(T)
  <2>1. Cardinality(T) \in Nat /\ 0 + Cardinality(T) - 1 = Cardinality(T) - 1
    OBVIOUS
  <2>2. /\ IsFiniteSet(0 .. 0 + Cardinality(T) - 1)
        /\ Cardinality(0 .. 0 + Cardinality(T) - 1) = Cardinality(T)
    BY <2>1, PlacesCount
  <2> QED
    BY <2>1, <2>2
<1>3. f \in Surjection(T, 0 .. Cardinality(T) - 1)
  BY <1>1, <1>2, FS_Injection
<1>4. g \in Injection(P, o .. o + n - 1)
  BY DEF Injection, IsInjective, AtPlaces
<1>5. IsFiniteSet(o .. o + n - 1) /\ Cardinality(o .. o + n - 1) = n
  BY PlacesCount
<1>6. /\ IsFiniteSet(P) /\ Cardinality(P) <= n
      /\ g \in Surjection(P, o .. o + n - 1) => Cardinality(P) = n
  BY <1>4, <1>5, FS_Injection
<1>7. ASSUME o + n <= Cardinality(T) PROVE g \in Surjection(P, o .. o + n - 1)
  <2>1. ASSUME NEW k \in o .. o + n - 1 PROVE \E i \in P : g[i] = k
    <3>1. k \in 0 .. Cardinality(T) - 1
      BY <1>7
    <3>2. PICK i \in T : Cardinality(ahead[i]) = k
      BY <1>3, <3>1 DEF Surjection
    <3> QED
      BY <3>2 DEF AtPlaces
  <2> QED
    BY <1>4, <2>1 DEF Surjection, Injection
<1>8. Cardinality(P) \in Nat
  BY <1>6, FS_CardinalityType
<1> QED
  BY <1>6, <1>7, <1>8

\* When S is taken out, at most as many members come before place o as did
\* before and were taken out.
LEMMA PlacesShift ==
    ASSUME NEW T, NEW ahead, Ordered(T, ahead), NEW S \in SUBSET T, NEW U \in SUBSET T, NEW o \in Nat
    PROVE  /\ Cardinality(S) \in Nat
           /\ Cardinality(Behind(U \ S, [i \in T \ S |-> ahead[i] \ S], o))
                  <= Cardinality(Behind(U, ahead, o)) + Cardinality(S)
<1> DEFINE New == Behind(U \ S, [i \in T \ S |-> ahead[i] \ S], o)
           Old == Behind(U, ahead, o)
           Mid == AtPlaces(T, ahead, o, Cardinality(S))
<1>0. IsFiniteSet(T) /\ IsFiniteSet(S) /\ IsFiniteSet(Old) /\ Cardinality(S) \in Nat
  BY FS_Subset, FS_CardinalityType DEF Ordered, Behind
<1>1. IsFiniteSet(Mid) /\ Cardinality(Mid) \in 0..Cardinality(S)
  BY <1>0, PlacesFilled
<1>2. New \subseteq Old \union Mid
  <2> SUFFICES ASSUME NEW i \in U \ S, Cardinality(ahead[i] \ S) < o, ~(Cardinality(ahead[i]) < o)
               PROVE  i \in Mid
    BY DEF Behind
  <2>1. i \in T /\ ahead[i] \in SUBSET T /\ IsFiniteSet(ahead[i])
    BY <1>0, FS_Subset DEF Ordered
  <2>2. Cardinality(ahead[i]) \in Nat
    BY <2>1, FS_CardinalityType
  <2>3. Cardinality(ahead[i] \ S) = Cardinality(ahead[i]) - Cardinality(ahead[i] \intersect S)
    BY <2>1, FS_Difference
  <2>4. ahead[i] \intersect S \in SUBSET S
    OBVIOUS
  <2>5. Cardinality(ahead[i] \intersect S) <= Cardinality(S)
        /\ Cardinality(ahead[i] \intersect S) \in Nat
    BY <1>0, <2>4, FS_Subset, FS_CardinalityType
  <2> QED
    BY <1>0, <2>1, <2>2, <2>3, <2>5 DEF AtPlaces
<1>3. /\ IsFiniteSet(Old \union Mid)
      /\ Cardinality(Old \union Mid) = Cardinality(Old) + Cardinality(Mid) - Cardinality(Old \intersect Mid)
  BY <1>0, <1>1, FS_Union
<1>4. Cardinality(Old) \in Nat /\ Cardinality(Old \intersect Mid) \in Nat
  <2>1. IsFiniteSet(Old \intersect Mid)
    BY <1>0, FS_Intersection
  <2> QED
    BY <1>0, <2>1, FS_CardinalityType
<1>5. New \in SUBSET (Old \union Mid)
  BY <1>2
<1>6. Cardinality(New) <= Cardinality(Old \union Mid) /\ IsFiniteSet(New)
  BY <1>3, <1>5, FS_Subset
<1>7. Cardinality(New) \in Nat
  BY <1>6, FS_CardinalityType
<1> QED
  BY <1>0, <1>1, <1>3, <1>4, <1>6, <1>7

-----------------------------------------------------------------------------
(* Paging by offset: a walk falls behind by removals only. *)

\* The events in the order of the walk: their keys, then their ids.
ById == [i \in Id |-> i]

\* The events of a camera, or of all, in the order of a list.
AheadIn(c, view) == [i \in Matching(c) |-> {j \in Matching(c) : Before(j, i, view, ById)}]
Ahead == [i \in DOMAIN events |-> {j \in DOMAIN events : Before(j, i, walk, ById)}]

\* Events that were there when the walk began and still are, that no page has
\* shown and that have fallen behind the offset.
Overtaken == Behind(walk.present \ walk.seen, Ahead, walk.offset)

\* Only what is removed lets an event fall behind the offset.
WalkInv ==
    IF walk.pc = "asking"
    THEN walk.present \subseteq DOMAIN events /\ Cardinality(Overtaken) <= walk.removed
    ELSE walk = NoWalk

\* Keys are numbers, and ties are broken by the ids.
LEMMA ListSorted ==
    ASSUME StoreTypeOK, NEW c, NEW view, view.sort \in {"timestamp", "camera"}
    PROVE  Ordered(Matching(c), AheadIn(c, view))
<1>1. /\ Matching(c) \subseteq DOMAIN events /\ IsFiniteSet(Matching(c))
      /\ \A i \in Matching(c) : i \in Int /\ ById[i] = i
  <2>1. Matching(c) \subseteq DOMAIN events
    BY DEF Matching
  <2>2. MaxEvents \in Int /\ Matching(c) \in SUBSET Id
    BY <2>1, StoreAssumption DEF StoreTypeOK
  <2>3. IsFiniteSet(Id)
    BY <2>2, FS_Interval DEF Id
  <2> QED
    BY <2>1, <2>2, <2>3, FS_Subset DEF Id, ById
<1>2. \A i \in Matching(c) : Key(i, view.sort) \in Int
  <2>1. \A i \in Matching(c) : events[i].start \in 0..MaxTime /\ events[i].camera \in Camera
    BY <1>1 DEF StoreTypeOK, EventRow
  <2>2. \A n \in (0..MaxTime) \union Camera : n \in Int
    BY StoreConstants
  <2> QED
    BY <2>1, <2>2 DEF Key
<1> DEFINE A == AheadIn(c, view)
           M == Matching(c)
<1>3. \A i, j \in M :
         j \in A[i] <=> IF Key(j, view.sort) = Key(i, view.sort) THEN j < i
                        ELSE (Key(j, view.sort) < Key(i, view.sort)) = (view.direction = "asc")
  BY <1>1 DEF AheadIn, Before
<1>4. A \in [M -> SUBSET M]
  BY DEF AheadIn
<1> HIDE DEF A, M
<1>5. \A i \in M : i \in Int /\ Key(i, view.sort) \in Int
  BY <1>1, <1>2 DEF M
<1>6. \A i \in M : i \notin A[i]
  BY <1>3, <1>5
<1>7. ASSUME NEW i \in M, NEW j \in M, j \in A[i], NEW k \in A[j]
      PROVE  k \in A[i]
  <2>1. k \in M
    BY <1>4
  <2> QED
    BY <1>3, <1>5, <1>7, <2>1
<1>8. \A i, j \in M : i = j \/ i \in A[j] \/ j \in A[i]
  BY <1>3, <1>5
<1>9. IsFiniteSet(M)
  BY <1>1 DEF M
<1>10. Ordered(M, A)
  BY <1>4, <1>6, <1>7, <1>8, <1>9 DEF Ordered
<1> QED
  BY <1>10 DEF M, A

LEMMA Sorted == StoreTypeOK => Ordered(DOMAIN events, Ahead)
<1> SUFFICES ASSUME StoreTypeOK PROVE Ordered(DOMAIN events, Ahead)
  OBVIOUS
<1>1. Matching(0) = DOMAIN events
  BY DEF Matching
<1>2. AheadIn(0, walk) = Ahead
  BY <1>1 DEF AheadIn, Ahead
<1>3. walk.sort \in {"timestamp", "camera"}
  BY DEF StoreTypeOK
<1> QED
  BY <1>1, <1>2, <1>3, ListSorted

LEMMA SortedNext == (StoreTypeOK => Ordered(DOMAIN events, Ahead))'
BY Sorted, PTL

\* A page holds the events at its places.
LEMMA PageIsPlaces ==
    list_events(0, walk, ById) = AtPlaces(DOMAIN events, Ahead, walk.offset, Page)
BY DEF list_events, Matching, Ahead, AtPlaces

LEMMA TieIsById == TieOrders = {ById}
BY DEF TieOrders, ById

\* New events only push the others back.
LEMMA StoreOvertakes ==
    ASSUME StoreTypeOK, StoreTypeOK', WalkInv, NEW i \in Id, i \notin DOMAIN events,
           NEW row, events' = [j \in DOMAIN events \union {i} |-> IF j = i THEN row ELSE events[j]],
           walk' = walk
    PROVE  WalkInv'
<1> SUFFICES ASSUME walk.pc = "asking" PROVE WalkInv'
  BY DEF WalkInv
<1>1. Ordered(DOMAIN events, Ahead) /\ Ordered(DOMAIN events, Ahead)'
  BY Sorted, SortedNext
<1>2. \A j \in DOMAIN events : j \in DOMAIN events' /\ events'[j] = events[j]
  OBVIOUS
<1>3. \A j \in DOMAIN events : Ahead[j] \subseteq Ahead'[j]
  BY <1>2 DEF Ahead, Before, Key
<1>4. ASSUME NEW j \in DOMAIN events
      PROVE  /\ Cardinality(Ahead[j]) <= Cardinality(Ahead'[j])
             /\ Cardinality(Ahead[j]) \in Nat /\ Cardinality(Ahead'[j]) \in Nat
  <2>1. Ahead'[j] \in SUBSET DOMAIN events' /\ IsFiniteSet(DOMAIN events')
    BY <1>1, <1>2 DEF Ordered
  <2>2. IsFiniteSet(Ahead'[j]) /\ Ahead[j] \in SUBSET Ahead'[j]
    BY <1>3, <2>1, FS_Subset
  <2> QED
    BY <2>2, FS_Subset, FS_CardinalityType
<1>5. walk.offset \in Nat /\ walk.removed \in Nat /\ walk.present \subseteq DOMAIN events
  BY DEF StoreTypeOK, WalkInv
<1>6. Overtaken' \in SUBSET Overtaken
  BY <1>4, <1>5 DEF Overtaken, Behind
<1>7. IsFiniteSet(Overtaken)
  <2>1. Overtaken \in SUBSET DOMAIN events
    BY <1>5 DEF Overtaken, Behind
  <2> QED
    BY <1>1, <2>1, FS_Subset DEF Ordered
<1>8. /\ Cardinality(Overtaken') <= Cardinality(Overtaken)
      /\ Cardinality(Overtaken') \in Nat /\ Cardinality(Overtaken) \in Nat
  BY <1>6, <1>7, FS_Subset, FS_CardinalityType
<1>9. Cardinality(Overtaken)' <= walk'.removed
  BY <1>5, <1>8 DEF WalkInv
<1> QED
  BY <1>2, <1>5, <1>9 DEF WalkInv

\* As many events can fall behind the offset as are removed.
LEMMA RemovalOvertakes ==
    ASSUME StoreTypeOK, WalkInv, NEW S \in SUBSET DOMAIN events, events' = Without(events, S), Removed(S)
    PROVE  WalkInv'
<1> SUFFICES ASSUME walk.pc = "asking" PROVE WalkInv'
  BY DEF WalkInv, Removed
<1>1. walk' = [walk EXCEPT !.present = walk.present \ S, !.removed = walk.removed + Cardinality(S)]
  BY DEF Removed
<1>2. walk \in WalkType
  BY DEF StoreTypeOK, WalkType
<1>3. /\ walk'.pc = walk.pc /\ walk'.sort = walk.sort /\ walk'.direction = walk.direction
      /\ walk'.offset = walk.offset /\ walk'.seen = walk.seen
      /\ walk'.present = walk.present \ S /\ walk'.removed = walk.removed + Cardinality(S)
  BY <1>1, <1>2 DEF WalkType
<1>4. DOMAIN events' = DOMAIN events \ S /\ \A j \in DOMAIN events' : events'[j] = events[j]
  BY DEF Without
<1>5. Ahead' = [j \in DOMAIN events \ S |-> Ahead[j] \ S]
  BY <1>3, <1>4 DEF Ahead, Before, Key
<1>6. walk.offset \in Nat /\ walk.removed \in Nat /\ walk.present \subseteq DOMAIN events
  BY <1>2 DEF WalkType, WalkInv
<1>7. walk.present \ walk.seen \in SUBSET DOMAIN events
  BY <1>6
<1>8. Ordered(DOMAIN events, Ahead)
  BY Sorted
<1>9. walk'.present \ walk'.seen = (walk.present \ walk.seen) \ S
  BY <1>3
<1>10. Overtaken' = Behind((walk.present \ walk.seen) \ S, [j \in DOMAIN events \ S |-> Ahead[j] \ S],
                          walk.offset)
  BY <1>3, <1>5, <1>9 DEF Overtaken
<1>11. Cardinality(S) \in Nat /\ Cardinality(Overtaken') <= Cardinality(Overtaken) + Cardinality(S)
  BY <1>6, <1>7, <1>8, <1>10, PlacesShift DEF Overtaken
<1>12. Cardinality(Overtaken) \in Nat /\ Cardinality(Overtaken') \in Nat
  <2>1. /\ IsFiniteSet(DOMAIN events) /\ Overtaken \in SUBSET DOMAIN events
        /\ Overtaken' \in SUBSET DOMAIN events
    BY <1>7, <1>8, <1>10 DEF Ordered, Overtaken, Behind
  <2> QED
    BY <2>1, FS_Subset, FS_CardinalityType
<1>13. Cardinality(Overtaken') <= walk'.removed
  BY <1>3, <1>6, <1>11, <1>12 DEF WalkInv
<1>14. walk'.present \subseteq DOMAIN events'
  BY <1>3, <1>4, <1>6
<1> QED
  BY <1>3, <1>13, <1>14 DEF WalkInv

\* A page takes what it shows from what the offset passes over.
LEMMA PageOvertakes ==
    ASSUME StoreTypeOK, WalkInv, WalkPage PROVE WalkInv'
<1> DEFINE page == list_events(0, walk, ById)
<1>1. walk.pc = "asking" /\ events' = events
  BY DEF WalkPage, rows
<1>2. walk' = NoWalk \/ walk' = [walk EXCEPT !.seen = walk.seen \union page, !.offset = walk.offset + Page]
  BY TieIsById DEF WalkPage
<1>3. CASE walk' = NoWalk
  BY <1>3 DEF WalkInv, NoWalk
<1>4. CASE walk' = [walk EXCEPT !.seen = walk.seen \union page, !.offset = walk.offset + Page]
  <2>1. walk \in WalkType /\ walk.offset \in Nat /\ Page \in Nat /\ walk.present \subseteq DOMAIN events
    BY <1>1, StoreConstants DEF StoreTypeOK, WalkType, WalkInv
  <2>2. /\ walk'.pc = walk.pc /\ walk'.sort = walk.sort /\ walk'.direction = walk.direction
        /\ walk'.offset = walk.offset + Page /\ walk'.seen = walk.seen \union page
        /\ walk'.present = walk.present /\ walk'.removed = walk.removed
    BY <1>4, <2>1 DEF WalkType
  <2>3. Ahead' = Ahead
    BY <1>1, <2>2 DEF Ahead, Before, Key
  <2>4. \A i \in DOMAIN events : Cardinality(Ahead[i]) \in Nat
    BY Sorted, Ranks
  <2>5. Overtaken' = Overtaken
    <3>1. \A i \in DOMAIN events :
             i \in page <=> Cardinality(Ahead[i]) \in walk.offset .. walk.offset + Page - 1
      BY PageIsPlaces DEF AtPlaces
    <3>2. ASSUME NEW i \in walk.present
          PROVE  (i \notin walk.seen \union page /\ Cardinality(Ahead[i]) < walk.offset + Page)
                 <=> (i \notin walk.seen /\ Cardinality(Ahead[i]) < walk.offset)
      BY <2>1, <2>4, <3>1
    <3> QED
      BY <2>2, <2>3, <3>2 DEF Overtaken, Behind
  <2> QED
    BY <1>1, <2>1, <2>2, <2>5 DEF WalkInv
<1> QED
  BY <1>2, <1>3, <1>4

LEMMA StepWalkInv == StoreInv /\ StoreTypeOK' /\ WalkInv /\ [StoreNext]_storeVars => WalkInv'
<1> SUFFICES ASSUME StoreInv, StoreTypeOK', WalkInv, [StoreNext]_storeVars PROVE WalkInv'
  OBVIOUS
<1>0. StoreTypeOK /\ GivenOnce
  BY DEF StoreInv
<1>1. ASSUME NEW i \in Id, NEW c \in Camera, NEW kind \in Kind, Store(i, c, kind) PROVE WalkInv'
  <2>1. i \notin DOMAIN events /\ walk' = walk
    BY <1>0, <1>1 DEF Store, GivenOnce
  <2>2. PICK row : events' = [j \in DOMAIN events \union {i} |-> IF j = i THEN row ELSE events[j]]
    BY <1>1 DEF Store
  <2> QED
    BY <1>0, <2>1, <2>2, StoreOvertakes
<1>2. CASE SweepDelete
  <2>1. CASE sweep.stage = "events"
    <3>1. PICK S \in SUBSET DOMAIN events : events' = Without(events, S) /\ Removed(S)
      BY <1>2, <2>1 DEF SweepDelete
    <3> QED
      BY <1>0, <3>1, RemovalOvertakes
  <2>2. CASE sweep.stage # "events"
    <3>1. UNCHANGED <<events, walk>>
      BY <1>2, <2>2 DEF SweepDelete
    <3> QED
      BY <3>1 DEF WalkInv, Overtaken, Ahead, Before, Key
  <2> QED
    BY <2>1, <2>2
<1>3. CASE DeleteCommit
  <2>1. PICK S \in SUBSET DOMAIN events : events' = Without(events, S) /\ Removed(S)
    BY <1>3 DEF DeleteCommit, OfCamera
  <2> QED
    BY <1>0, <2>1, RemovalOvertakes
<1>4. ASSUME NEW v \in Views, WalkStarts(v[1], v[2]) PROVE WalkInv'
  <2>1. /\ walk'.pc = "asking" /\ walk'.present = DOMAIN events /\ walk'.offset = 0
        /\ walk'.removed = 0 /\ events' = events
    BY <1>4 DEF WalkStarts, NoWalk, rows
  <2>2. Ordered(DOMAIN events, Ahead)'
    BY SortedNext
  <2>3. \A i \in DOMAIN events' : Cardinality(Ahead'[i]) \in Nat
    BY <2>2, Ranks
  <2>4. Overtaken' = {}
    BY <2>1, <2>3 DEF Overtaken, Behind
  <2> QED
    BY <2>1, <2>4, FS_EmptySet DEF WalkInv
<1>5. CASE WalkPage
  BY <1>0, <1>5, PageOvertakes
<1>6. CASE UNCHANGED <<events, walk>>
  BY <1>6 DEF WalkInv, Overtaken, Ahead, Before, Key
<1> QED
  BY <1>1, <1>2, <1>3, <1>4, <1>5, <1>6
     DEF StoreNext, storeVars, Sweep, SweepStart, SweepSelect, SweepObject, SweepCommit, SweepAborts,
         Export, ExportAudit, DeleteCollect, DeleteObject, DeleteReturns, StoreTick, rows

\* The last page is the first that is not full: nothing comes after it.
LEMMA LastPage ==
    ASSUME StoreTypeOK, WalkInv, StoreNext, walk # NoWalk, walk' = NoWalk
    PROVE  LET page == list_events(0, walk, ById)
           IN  /\ Cardinality(page) < Page
               /\ Cardinality(walk.present \ (walk.seen \union page)) <= walk.removed
<1> DEFINE page == list_events(0, walk, ById)
<1>1. walk.pc = "asking" /\ walk \in WalkType /\ walk'.pc = "idle"
  BY DEF WalkInv, NoWalk, StoreTypeOK, WalkType
<1>2. WalkPage
  <2>1. ASSUME NEW S, Removed(S) PROVE walk'.pc = "asking"
    BY <1>1, <2>1 DEF Removed, WalkType
  <2>2. ASSUME NEW v \in Views, WalkStarts(v[1], v[2]) PROVE FALSE
    BY <1>1, <2>2 DEF WalkStarts
  <2>3. walk' # walk
    BY <1>1
  <2>4. ~SweepDelete
    BY <1>1, <2>1, <2>3 DEF SweepDelete
  <2>5. ~DeleteCommit
    BY <1>1, <2>1 DEF DeleteCommit
  <2> QED
    BY <2>2, <2>3, <2>4, <2>5
       DEF StoreNext, Sweep, SweepStart, SweepSelect, SweepObject, SweepCommit, SweepAborts, Store,
           Export, ExportAudit, DeleteCollect, DeleteObject, DeleteReturns, StoreTick
<1>3. Cardinality(page) < Page
  <2>1. [walk EXCEPT !.seen = walk.seen \union page, !.offset = walk.offset + Page] # NoWalk
    BY <1>1 DEF NoWalk, WalkType
  <2> QED
    BY <1>2, <2>1, TieIsById DEF WalkPage
<1>4. /\ walk.offset \in Nat /\ Page \in Nat \ {0} /\ walk.removed \in Nat
      /\ walk.present \subseteq DOMAIN events /\ Cardinality(Overtaken) <= walk.removed
  BY <1>1, StoreConstants DEF WalkType, WalkInv
<1>5. Ordered(DOMAIN events, Ahead)
  BY Sorted
<1>6. ~(walk.offset + Page <= Cardinality(DOMAIN events))
  BY <1>3, <1>4, <1>5, PlacesFilled, PageIsPlaces
<1>7. \A i \in DOMAIN events : Cardinality(Ahead[i]) \in 0 .. Cardinality(DOMAIN events) - 1
                               /\ Cardinality(DOMAIN events) \in Nat
  BY <1>5, Ranks
<1>8. \A i \in DOMAIN events : i \in page <=> Cardinality(Ahead[i]) \in walk.offset .. walk.offset + Page - 1
  BY PageIsPlaces DEF AtPlaces
<1>9. walk.present \ (walk.seen \union page) \in SUBSET Overtaken
  BY <1>4, <1>6, <1>7, <1>8 DEF Overtaken, Behind
<1>10. IsFiniteSet(Overtaken)
  <2>1. Overtaken \in SUBSET DOMAIN events
    BY <1>4 DEF Overtaken, Behind
  <2> QED
    BY <1>5, <2>1, FS_Subset DEF Ordered
<1>11. /\ Cardinality(walk.present \ (walk.seen \union page)) <= Cardinality(Overtaken)
       /\ Cardinality(walk.present \ (walk.seen \union page)) \in Nat /\ Cardinality(Overtaken) \in Nat
  BY <1>9, <1>10, FS_Subset, FS_CardinalityType
<1> QED
  BY <1>3, <1>4, <1>11

\* Types, what is in hand, and how far a walk can have fallen behind.
THEOREM WalkInductive == StoreSpec => [](StoreInv /\ WalkInv)
<1>1. StoreInit => WalkInv
  BY DEF StoreInit, WalkInv, NoWalk
<1>2. StoreInv /\ WalkInv /\ StoreInv' /\ [StoreNext]_storeVars => WalkInv'
  BY StepWalkInv DEF StoreInv
<1> QED
  BY StoreInductive, <1>1, <1>2, PTL DEF StoreSpec

\* An operator who reads page after page misses at most as many of the events
\* that were there and stayed as were removed meanwhile (list_events,
\* _apply_sort, ui/views/events.js).
THEOREM PagesComplete == StoreSpec => MissedOnlyByRemoval
<1>1. StoreInv /\ WalkInv /\ [StoreNext]_storeVars
      => [walk # NoWalk /\ walk' = NoWalk =>
            \E tie \in TieOrders :
              LET page == list_events(0, walk, tie)
              IN  /\ Cardinality(page) < Page
                  /\ Cardinality(walk.present \ (walk.seen \union page)) <= walk.removed]_storeVars
  BY LastPage, TieIsById DEF StoreInv
<1> QED
  BY WalkInductive, <1>1, PTL DEF StoreSpec, MissedOnlyByRemoval

-----------------------------------------------------------------------------
(* Numbers: the least one, quotients and remainders, sums over finite sets. *)

\* Induction in the form the provers can use.
LEMMA Least ==
    ASSUME NEW B \in SUBSET Nat, B # {}
    PROVE  \E m \in B : \A n \in B : m <= n
<1>1. IsWellFoundedOn(OpToRel(<, Nat), Nat)
  BY NatLessThanWellFounded
<1>2. PICK m \in B : \A n \in B : ~ (<<n, m>> \in OpToRel(<, Nat))
  BY <1>1, WFMin
<1>3. \A n \in B : <<n, m>> \in OpToRel(<, Nat) <=> n < m
  BY DEF OpToRel
<1>4. \A n \in B : ~(n < m)
  BY <1>2, <1>3, Zenon
<1> QED
  BY <1>4

LEMMA Remainder ==
    ASSUME NEW d \in Nat \ {0}, NEW t \in Nat
    PROVE  /\ t % d \in 0 .. d - 1 /\ t \div d \in Nat
           /\ t = d * (t \div d) + (t % d)
OBVIOUS

LEMMA RemainderOf ==
    ASSUME NEW d \in Nat \ {0}, NEW q \in Nat, NEW r \in 0 .. d - 1
    PROVE  (d * q + r) % d = r
OBVIOUS

\* Of the days, an instant is on the one that begins at its midnight.
LEMMA OneDay ==
    ASSUME NEW d \in Nat \ {0}, NEW t \in Nat
    PROVE  /\ t - (t % d) \in 0..t /\ (t - (t % d)) % d = 0 /\ t < t - (t % d) + d
           /\ \A u \in Nat : u % d = 0 /\ u <= t /\ t < u + d => u = t - (t % d)
<1>1. t % d \in 0 .. d - 1 /\ t \div d \in Nat /\ t = d * (t \div d) + (t % d)
  BY Remainder
<1>2. t - (t % d) = d * (t \div d) + 0 /\ d * (t \div d) \in Nat
  BY <1>1
<1>3. (t - (t % d)) % d = 0
  <2>1. 0 \in 0 .. d - 1
    OBVIOUS
  <2>2. (d * (t \div d) + 0) % d = 0
    BY <1>1, <2>1, RemainderOf
  <2> QED
    BY <1>2, <2>2
<1>4. ASSUME NEW u \in Nat, u % d = 0, u <= t, t < u + d PROVE u = t - (t % d)
  <2>1. u = d * (u \div d) + (u % d) /\ u \div d \in Nat
    BY Remainder
  <2>2. t - u \in 0 .. d - 1
    BY <1>4
  <2>3. (d * (u \div d) + (t - u)) % d = t - u
    BY <2>1, <2>2, RemainderOf
  <2>4. d * (u \div d) = u
    BY <1>4, <2>1
  <2>5. u + (t - u) = t
    OBVIOUS
  <2>6. t % d = t - u
    BY <2>3, <2>4, <2>5
  <2> QED
    BY <2>6
<1> QED
  BY <1>1, <1>2, <1>3, <1>4

\* What MapThenSumSet computes: f gives every subset of S the sum of its
\* members' g, taking out one member after the other, as pick has it.
Sums(S, g, pick, f) ==
    f = [s \in SUBSET S |-> IF s = {} THEN 0 ELSE g[pick[s]] + f[s \ {pick[s]}]]

\* The recursion is well founded: there are sums.
LEMMA SumsExist ==
    ASSUME NEW S, IsFiniteSet(S), NEW g, NEW pick, \A s \in SUBSET S : s # {} => pick[s] \in s
    PROVE  \E f : Sums(S, g, pick, f)
<1> DEFINE Small(n) == {s \in SUBSET S : Cardinality(s) <= n}
           More(f, s) == IF s = {} THEN 0 ELSE g[pick[s]] + f[s \ {pick[s]}]
           Upto(n) == \E f : f = [s \in Small(n) |-> More(f, s)]
           Bad == {n \in Nat : ~Upto(n)}
<1>0. \A s \in SUBSET S : IsFiniteSet(s) /\ Cardinality(s) \in Nat /\ (Cardinality(s) = 0 <=> s = {})
  BY FS_Subset, FS_CardinalityType, FS_EmptySet
<1>1. Upto(0)
  <2> DEFINE f == [s \in Small(0) |-> 0]
  <2>1. \A s \in Small(0) : s = {}
    BY <1>0
  <2>2. f = [s \in Small(0) |-> More(f, s)]
    BY <2>1
  <2> QED
    BY <2>2
<1>2. ASSUME NEW n \in Nat, Upto(n) PROVE Upto(n + 1)
  <2>1. PICK f : f = [s \in Small(n) |-> More(f, s)]
    BY <1>2
  <2> DEFINE h == [s \in Small(n + 1) |-> More(f, s)]
  <2>2. ASSUME NEW s \in Small(n + 1), s # {} PROVE h[s \ {pick[s]}] = f[s \ {pick[s]}]
    <3> DEFINE t == s \ {pick[s]}
    <3>1. pick[s] \in s /\ IsFiniteSet(s) /\ Cardinality(s) \in Nat /\ Cardinality(s) <= n + 1
      BY <1>0, <2>2
    <3>2. Cardinality(t) = Cardinality(s) - 1 /\ t \in SUBSET S
      BY <3>1, FS_RemoveElement
    <3>3. t \in Small(n) /\ t \in Small(n + 1)
      BY <3>1, <3>2
    <3> HIDE DEF Small, More, t
    <3>4. h[t] = More(f, t) /\ f[t] = More(f, t)
      BY <2>1, <3>3
    <3> QED
      BY <3>4 DEF t
  <2>3. \A s \in Small(n + 1) : More(h, s) = More(f, s)
    <3> HIDE DEF Small, h
    <3> QED
      BY <2>2
  <2>4. h = [s \in Small(n + 1) |-> More(h, s)]
    <3> HIDE DEF Small, More
    <3> QED
      BY <2>3
  <2> QED
    BY <2>4
<1>3. \A n \in Nat : Upto(n)
  <2> HIDE DEF Upto
  <2> SUFFICES ASSUME Bad # {} PROVE FALSE
    OBVIOUS
  <2>1. PICK m \in Bad : \A n \in Bad : m <= n
    BY Least
  <2>2. m # 0 /\ m \in Nat
    BY <1>1
  <2>3. m - 1 \in Nat /\ m - 1 \notin Bad
    BY <2>1, <2>2
  <2>4. Upto((m - 1) + 1)
    BY <1>2, <2>3
  <2>5. (m - 1) + 1 = m
    BY <2>2
  <2> QED
    BY <2>4, <2>5
<1>4. \A s \in SUBSET S : Cardinality(s) <= Cardinality(S)
  BY FS_Subset
<1>5. Small(Cardinality(S)) = SUBSET S
  BY <1>4
<1>6. Upto(Cardinality(S))
  <2> HIDE DEF Upto
  <2>1. Cardinality(S) \in Nat
    BY FS_CardinalityType
  <2> QED
    BY <1>3, <2>1
<1>7. PICK f : f = [s \in Small(Cardinality(S)) |-> More(f, s)]
  BY <1>6
<1>8. f = [s \in SUBSET S |-> More(f, s)]
  <2> HIDE DEF Small, More
  <2> QED
    BY <1>5, <1>7
<1> QED
  BY <1>8 DEF Sums

\* A sum of numbers up to w is at most w times their number.
LEMMA SumsBounded ==
    ASSUME NEW S, IsFiniteSet(S), NEW g, NEW pick, \A s \in SUBSET S : s # {} => pick[s] \in s,
           NEW f, Sums(S, g, pick, f), NEW w \in Int, \A i \in S : g[i] \in Int /\ g[i] <= w
    PROVE  f[S] \in Int /\ f[S] <= Cardinality(S) * w
<1> DEFINE Fine(s) == f[s] \in Int /\ f[s] <= Cardinality(s) * w
           Bad == {n \in Nat : \E s \in SUBSET S : Cardinality(s) = n /\ ~Fine(s)}
<1>0. \A s \in SUBSET S : IsFiniteSet(s) /\ Cardinality(s) \in Nat /\ (Cardinality(s) = 0 <=> s = {})
  BY FS_Subset, FS_CardinalityType, FS_EmptySet
<1>1. \A s \in SUBSET S : f[s] = IF s = {} THEN 0 ELSE g[pick[s]] + f[s \ {pick[s]}]
  BY DEF Sums
<1>2. Fine({})
  <2>1. f[{}] = 0 /\ Cardinality({}) = 0
    BY <1>1, FS_EmptySet
  <2> QED
    BY <2>1
<1>3. ASSUME NEW s \in SUBSET S, s # {}, Fine(s \ {pick[s]}) PROVE Fine(s)
  <2> DEFINE t == s \ {pick[s]}
             n == Cardinality(s)
  <2>1. pick[s] \in s /\ IsFiniteSet(s) /\ n \in Nat
    BY <1>0, <1>3
  <2>2. Cardinality(t) = n - 1
    BY <2>1, FS_RemoveElement
  <2>3. f[s] = g[pick[s]] + f[t] /\ g[pick[s]] \in Int /\ g[pick[s]] <= w
    BY <1>1, <1>3, <2>1
  <2>4. f[t] \in Int /\ f[t] <= (n - 1) * w
    BY <1>3, <2>2
  <2> HIDE DEF t, n
  <2>5. (n - 1) * w + w = n * w /\ (n - 1) * w \in Int /\ n * w \in Int
    BY <2>1
  <2>6. f[s] \in Int /\ f[s] <= n * w
    BY <2>3, <2>4, <2>5
  <2> QED
    BY <2>6 DEF n
<1>4. \A s \in SUBSET S : Fine(s)
  <2> HIDE DEF Fine
  <2> SUFFICES ASSUME Bad # {} PROVE FALSE
    BY <1>0
  <2>1. PICK m \in Bad : \A n \in Bad : m <= n
    BY Least
  <2>2. PICK s \in SUBSET S : Cardinality(s) = m /\ ~Fine(s)
    OBVIOUS
  <2>3. s # {} /\ pick[s] \in s /\ IsFiniteSet(s)
    BY <1>0, <1>2, <2>2
  <2>4. Cardinality(s \ {pick[s]}) = m - 1
    <3>1. Cardinality(s \ {pick[s]}) = Cardinality(s) - 1
      BY <2>3, FS_RemoveElement
    <3> QED
      BY <2>2, <3>1
  <2>5. m - 1 \in Nat /\ m - 1 \notin Bad
    <3>1. m \in Nat /\ m # 0
      BY <1>0, <2>2, <2>3
    <3> QED
      BY <2>1, <3>1
  <2>6. Fine(s \ {pick[s]})
    BY <2>4, <2>5
  <2> QED
    BY <1>3, <2>2, <2>3, <2>6
<1> QED
  BY <1>4

\* The sum of dwell_time is of that kind.
LEMMA DwellSum ==
    ASSUME NEW S, IsFiniteSet(S), NEW w \in Int,
           \A i \in S : events[i].end - events[i].start \in Int /\ events[i].end - events[i].start <= w
    PROVE  MapThenSumSet(LAMBDA i : events[i].end - events[i].start, S) <= Cardinality(S) * w
<1> DEFINE g == [i \in S |-> events[i].end - events[i].start]
           pick == [s \in SUBSET S |-> CHOOSE x \in s : TRUE]
           Eq(f) == f = [s \in SUBSET S |->
              IF s = {} THEN 0
              ELSE (events[CHOOSE x \in s : TRUE].end - events[CHOOSE x \in s : TRUE].start)
                       + f[s \ {CHOOSE x \in s : TRUE}]]
           sum == CHOOSE f : Eq(f)
<1>1. MapThenSumSet(LAMBDA i : events[i].end - events[i].start, S) = sum[S]
  BY DEF MapThenSumSet, MapThenFoldSet
<1>2. \A s \in SUBSET S : s # {} => (CHOOSE x \in s : TRUE) \in s
  OBVIOUS
<1>3. \A s \in SUBSET S : s # {} =>
         /\ pick[s] = (CHOOSE x \in s : TRUE) /\ pick[s] \in s
         /\ g[pick[s]] = events[CHOOSE x \in s : TRUE].end - events[CHOOSE x \in s : TRUE].start
  BY <1>2
<1>4. \A f : Eq(f) <=> Sums(S, g, pick, f)
  <2> HIDE DEF g, pick
  <2> QED
    BY <1>3 DEF Sums
<1>5. \E f : Eq(f)
  <2> HIDE DEF g, pick, Eq
  <2>1. \E f : Sums(S, g, pick, f)
    BY <1>3, SumsExist
  <2> QED
    BY <1>4, <2>1
<1>6. Sums(S, g, pick, sum)
  <2> HIDE DEF g, pick, Eq
  <2> QED
    BY <1>4, <1>5
<1>7. \A i \in S : g[i] \in Int /\ g[i] <= w
  OBVIOUS
<1>8. sum[S] <= Cardinality(S) * w
  <2> HIDE DEF g, pick, sum
  <2> QED
    BY <1>3, <1>6, <1>7, SumsBounded
<1> QED
  BY <1>1, <1>8

\* A finite set of events is counted kind by kind.
LEMMA CountedByKind ==
    ASSUME StoreTypeOK, NEW S, S \subseteq DOMAIN events
    PROVE  /\ IsFiniteSet(S) /\ Cardinality(S) \in 0..MaxEvents
           /\ Cardinality({i \in S : events[i].kind = "presence"})
                + Cardinality({i \in S : events[i].kind = "rule"}) = Cardinality(S)
<1> DEFINE P == {i \in S : events[i].kind = "presence"}
           R == {i \in S : events[i].kind = "rule"}
<1>1. S \in SUBSET Id /\ MaxEvents \in Nat
  BY StoreAssumption DEF StoreTypeOK
<1>2. IsFiniteSet(Id) /\ Cardinality(Id) = MaxEvents
  <2>1. MaxEvents \in Int /\ 1 \in Int
    BY <1>1
  <2> QED
    BY <1>1, <2>1, FS_Interval DEF Id
<1>3. IsFiniteSet(S) /\ Cardinality(S) <= MaxEvents
  BY <1>1, <1>2, FS_Subset
<1>4. Cardinality(S) \in Nat /\ P \in SUBSET S /\ R \in SUBSET S
  BY <1>3, FS_CardinalityType
<1>5. IsFiniteSet(P) /\ IsFiniteSet(R)
  BY <1>3, <1>4, FS_Subset
<1>6. P \union R = S /\ P \intersect R = {}
  BY DEF StoreTypeOK, EventRow, Kind
<1>7. Cardinality(P \union R) = Cardinality(P) + Cardinality(R) - Cardinality(P \intersect R)
  BY <1>5, FS_Union
<1>8. Cardinality(P) \in Nat /\ Cardinality(R) \in Nat /\ Cardinality({}) = 0
  BY <1>5, FS_CardinalityType, FS_EmptySet
<1>9. Cardinality(P) + Cardinality(R) = Cardinality(S)
  <2> HIDE DEF P, R
  <2>1. Cardinality(P \union R) = Cardinality(S) /\ Cardinality(P \intersect R) = 0
    BY <1>6, <1>8
  <2> QED
    BY <1>7, <1>8, <2>1
<1> QED
  BY <1>1, <1>3, <1>4, <1>9

\* The breakdown of a window counts its events.
LEMMA BreakdownCounts ==
    ASSUME StoreTypeOK, NEW c, NEW from, NEW to
    PROVE  /\ Counted(event_type_breakdown(c, from, to)) = Cardinality(Within(c, from, to))
           /\ Within(c, from, to) \subseteq DOMAIN events
<1>1. Within(c, from, to) \subseteq DOMAIN events
  BY DEF Within, Matching
<1>2. \A k \in Kind : event_type_breakdown(c, from, to)[k]
                        = Cardinality({i \in Within(c, from, to) : events[i].kind = k})
  BY DEF event_type_breakdown
<1>3. "presence" \in Kind /\ "rule" \in Kind
  BY DEF Kind
<1> QED
  BY <1>1, <1>2, <1>3, CountedByKind DEF Counted

\* An interval does not end before it begins.
Spans ==
    /\ \A i \in DOMAIN events : events[i].start <= events[i].end
    /\ \A i \in DOMAIN tracks : tracks[i].first <= tracks[i].last

LEMMA StepSpans == StoreTypeOK /\ Spans /\ StoreNext => Spans'
<1> SUFFICES ASSUME StoreTypeOK, Spans, StoreNext PROVE Spans'
  OBVIOUS
<1>1. ASSUME NEW i \in Id, NEW c \in Camera, NEW kind \in Kind, Store(i, c, kind) PROVE Spans'
  <2>1. now - Length(kind) <= now
    BY StoreConstants DEF StoreTypeOK, Length
  <2>2. \A j \in DOMAIN events' : events'[j].start <= events'[j].end
    BY <1>1, <2>1 DEF Store, Spans
  <2>3. \A j \in DOMAIN tracks' : tracks'[j].first <= tracks'[j].last
    BY <1>1, <2>1 DEF Store, Spans
  <2> QED
    BY <2>2, <2>3 DEF Spans
<1>2. CASE UNCHANGED <<events, tracks>>
  BY <1>2 DEF Spans
<1>3. CASE SweepDelete
  BY <1>3 DEF SweepDelete, Without, Spans
<1>4. CASE DeleteCommit
  BY <1>4 DEF DeleteCommit, Without, Spans
<1>5. CASE SweepStart \/ SweepSelect \/ SweepCommit \/ SweepAborts
  BY <1>2, <1>5 DEF SweepStart, SweepSelect, SweepCommit, SweepAborts, rows
<1>6. ASSUME NEW i \in Id, NEW ok \in BOOLEAN, SweepObject(i, ok) \/ DeleteObject(i, ok)
      PROVE  Spans'
  BY <1>2, <1>6 DEF SweepObject, DeleteObject, rows
<1> QED
  BY <1>1, <1>2, <1>3, <1>4, <1>5, <1>6
     DEF StoreNext, Sweep, DeleteCollect, DeleteReturns, Export, ExportAudit, WalkStarts, WalkPage,
         StoreTick, rows

\* What the reports need to know of the rows.
ReportFacts == StoreTypeOK /\ Ended /\ Spans

LEMMA MinOf ==
    ASSUME NEW S, NEW m \in S, S \subseteq Int, \A x \in S : m <= x
    PROVE  Min(S) = m
<1> DEFINE c == CHOOSE x \in S : \A y \in S : x <= y
<1>1. c \in S /\ \A y \in S : c <= y
  OBVIOUS
<1> HIDE DEF c
<1>2. c = m
  <2>1. c \in Int /\ m \in Int /\ c <= m /\ m <= c
    BY <1>1
  <2> QED
    BY <2>1
<1> QED
  BY <1>2 DEF Min, c

LEMMA MinTwo ==
    ASSUME NEW a \in Nat, NEW b \in Nat
    PROVE  Min({a, b}) = IF a <= b THEN a ELSE b
<1> DEFINE S == {a, b}
<1>1. a \in S /\ b \in S /\ S \subseteq Int /\ \A x \in S : x = a \/ x = b
  OBVIOUS
<1> HIDE DEF S
<1>2. CASE a <= b
  <2>1. \A x \in S : a <= x
    BY <1>1, <1>2
  <2> QED
    <3>1. Min(S) = a
      BY <1>1, <2>1, MinOf
    <3> QED
      BY <1>2, <3>1 DEF S
<1>3. CASE ~(a <= b)
  <2>1. \A x \in S : b <= x
    BY <1>1, <1>3
  <2> QED
    <3>1. Min(S) = b
      BY <1>1, <2>1, MinOf
    <3> QED
      BY <1>3, <3>1 DEF S
<1> QED
  BY <1>2, <1>3

\* An answer shows all the presences of its day, and of the rule events as many
\* as its limit lets through.
LEMMA Answers ==
    ASSUME StoreTypeOK, NEW day, NEW answer \in timeline(day)
    PROVE  /\ answer.intervals = OfDay(day, "presence")
           /\ answer.markers \subseteq OfDay(day, "rule")
           /\ Cardinality(answer.markers) = Min({Markers, Cardinality(OfDay(day, "rule"))})
           /\ answer.markers = OfDay(day, "rule") \/ Cardinality(answer.markers) = Markers
<1> DEFINE all == OfDay(day, "rule")
<1>1. PICK R \in markers(day) : answer = [intervals |-> OfDay(day, "presence"), markers |-> R]
  BY DEF timeline
<1>2. R \subseteq all /\ Cardinality(R) = Min({Markers, Cardinality(all)})
  BY DEF markers
<1>3. IsFiniteSet(all) /\ Cardinality(all) \in Nat
  <2>1. all \subseteq DOMAIN events
    BY DEF OfDay
  <2> HIDE DEF all
  <2>2. IsFiniteSet(all) /\ Cardinality(all) \in 0..MaxEvents
    BY <2>1, CountedByKind
  <2> QED
    BY <2>2
<1> HIDE DEF all
<1>4. R = all \/ Cardinality(R) # Cardinality(all)
  BY <1>2, <1>3, FS_Subset
<1>5. Cardinality(R) = Markers \/ Cardinality(R) = Cardinality(all)
  BY <1>2, <1>3, MinTwo, StoreAssumption
<1> QED
  BY <1>1, <1>2, <1>4, <1>5 DEF all

LEMMA TodayTold == ReportFacts => DayAgrees
<1> SUFFICES ASSUME ReportFacts PROVE DayAgrees
  OBVIOUS
<1> DEFINE Today == {i \in DOMAIN events : events[i].start >= midnight(now)}
           by_type == event_type_breakdown(0, midnight(now), now)
<1>0. /\ StoreTypeOK /\ now \in Nat /\ Day \in Nat \ {0} /\ 0 \in Nat
      /\ \A i \in DOMAIN events : /\ events[i].start \in Nat /\ events[i].end \in Nat
                                  /\ events[i].kind \in {"presence", "rule"}
                                  /\ events[i].start <= events[i].end /\ events[i].end <= now
  BY StoreAssumption, StoreConstants DEF ReportFacts, StoreTypeOK, EventRow, Kind, Ended, Spans
<1>1. midnight(now) \in Nat /\ now < midnight(now) + Day
  BY <1>0, OneDay DEF midnight
<1>2. Within(0, midnight(now), now) = Today
  BY <1>0 DEF Within, Matching
<1>3. Counted(by_type) = Cardinality(Today)
  BY <1>0, <1>2, BreakdownCounts
<1>4. ASSUME NEW answer \in timeline(midnight(now))
      PROVE  /\ Cardinality(answer.intervals) = by_type["presence"]
             /\ Cardinality(answer.markers) = Min({Markers, by_type["rule"]})
  <2>1. \A i \in DOMAIN events : OnDay(i, midnight(now)) <=> events[i].start >= midnight(now)
    BY <1>0, <1>1 DEF OnDay
  <2>2. \A kind : OfDay(midnight(now), kind) = {i \in Today : events[i].kind = kind}
    BY <2>1 DEF OfDay
  <2>3. \A kind \in Kind : by_type[kind] = Cardinality(OfDay(midnight(now), kind))
    BY <1>2, <2>2 DEF event_type_breakdown
  <2> HIDE DEF by_type
  <2>4. by_type["presence"] = Cardinality(OfDay(midnight(now), "presence"))
        /\ by_type["rule"] = Cardinality(OfDay(midnight(now), "rule"))
    BY <2>3 DEF Kind
  <2> QED
    BY <1>0, <2>4, Answers
<1>5. ASSUME NEW i \in DOMAIN events
      PROVE  \E day \in 0..now :
               /\ day % Day = 0
               /\ \A answer \in timeline(day) :
                    i \in answer.intervals \union answer.markers \/ Cardinality(answer.markers) = Markers
               /\ \A other \in 0..now \ {day} : other % Day = 0 =>
                    \A answer \in timeline(other) : i \notin answer.intervals \union answer.markers
  <2> DEFINE t == events[i].start
             m == t - (t % Day)
  <2>1. t \in Nat /\ t <= now
    BY <1>0
  <2>2. \A d \in 0..now : OnDay(i, d) <=> d <= t /\ t < d + Day
    BY <1>0, <2>1 DEF OnDay
  <2>3. /\ m \in 0..t /\ m % Day = 0 /\ t < m + Day
        /\ \A d \in Nat : d % Day = 0 /\ d <= t /\ t < d + Day => d = m
    BY <1>0, <2>1, OneDay
  <2> HIDE DEF t, m
  <2>4. m \in 0..now /\ m <= t
    BY <1>0, <2>1, <2>3
  <2>5. OnDay(i, m) /\ \A d \in 0..now \ {m} : d % Day = 0 => ~OnDay(i, d)
    BY <2>2, <2>3, <2>4
  <2>6. \A d \in 0..now : OnDay(i, d) <=> i \in OfDay(d, "presence") \union OfDay(d, "rule")
    BY <1>0 DEF OfDay
  <2>7. ASSUME NEW answer \in timeline(m)
        PROVE  i \in answer.intervals \union answer.markers \/ Cardinality(answer.markers) = Markers
    BY <1>0, <2>4, <2>5, <2>6, Answers
  <2>8. ASSUME NEW d \in 0..now \ {m}, d % Day = 0, NEW answer \in timeline(d)
        PROVE  i \notin answer.intervals \union answer.markers
    BY <1>0, <2>5, <2>6, <2>8, Answers
  <2> QED
    BY <2>3, <2>4, <2>7, <2>8
<1> HIDE DEF by_type
<1> QED
  BY <1>3, <1>4, <1>5 DEF DayAgrees, events_today, by_type

\* A track of the window is in the bucket its first tick falls into.
LEMMA Bucketed ==
    ASSUME ReportFacts, NEW c, NEW from \in Nat, NEW to \in Nat, NEW step \in Nat \ {0},
           NEW i \in people_counting(c, from, to), tracks[i].first < to
    PROVE  \E b \in DOMAIN occupancy_trend(c, from, to, step) :
              i \in occupancy_trend(c, from, to, step)[b]
<1> DEFINE first == tracks[i].first
           last == tracks[i].last
           b == (first - from) \div step
           n == (to - from + step - 1) \div step
<1>1. /\ i \in OfCamera(tracks, c) /\ first \in Nat /\ last \in Nat
      /\ from <= first /\ first <= last /\ last <= to /\ first < to
  BY DEF people_counting, OfCamera, ReportFacts, StoreTypeOK, TrackRow, Spans
<1>2. first - from \in Nat /\ to - from + step - 1 \in Nat
  BY <1>1
<1>3. b \in Nat /\ (first - from) % step \in 0 .. step - 1
      /\ first - from = step * b + ((first - from) % step)
  BY <1>2, Remainder
<1>4. n \in Nat /\ (to - from + step - 1) % step \in 0 .. step - 1
      /\ to - from + step - 1 = step * n + ((to - from + step - 1) % step)
  BY <1>2, Remainder
<1> HIDE DEF first, last, b, n
<1>5. step * b \in Nat /\ step * n \in Nat /\ step * b = b * step
  BY <1>3, <1>4
<1>6. step * b <= first - from /\ first - from < step * b + step /\ to - from <= step * n
  BY <1>1, <1>3, <1>4, <1>5
<1>7. step * b < step * n
  BY <1>1, <1>5, <1>6
<1>8. b < n
  BY <1>3, <1>4, <1>7
<1>9. b \in 0 .. n - 1
  BY <1>3, <1>4, <1>8
<1>10. /\ last >= from /\ first <= to
       /\ last >= from + b * step /\ first < from + b * step + step
  BY <1>1, <1>5, <1>6
<1> QED
  BY <1>1, <1>9, <1>10 DEF occupancy_trend, first, last, n

LEMMA WindowTold == ReportFacts => \A c : WindowAgrees(c)
<1> SUFFICES ASSUME ReportFacts, NEW c PROVE WindowAgrees(c)
  OBVIOUS
<1>0. /\ StoreTypeOK /\ now \in 1..MaxTime /\ now \in Nat /\ MaxTime \in Nat
      /\ \A i \in DOMAIN events : events[i].start \in 0..MaxTime /\ events[i].end \in 0..MaxTime
  BY StoreConstants DEF ReportFacts, StoreTypeOK, EventRow
<1>1. Counted(breakdown(c)) = Cardinality(Matching(c))
  <2>1. Within(c, 0, MaxTime) = Matching(c)
    BY <1>0 DEF Within, Matching
  <2> QED
    BY <1>0, <2>1, BreakdownCounts DEF breakdown
<1>2. ASSUME NEW from \in 0..now, NEW to \in 0..now, from < to
      PROVE
       LET by_type == event_type_breakdown(c, from, to)
           dwell   == dwell_time(c, from, to)
       IN  /\ \A step \in 1..Day, i \in people_counting(c, from, to) :
                tracks[i].first < to =>
                  LET buckets == occupancy_trend(c, from, to, step)
                  IN  \E b \in DOMAIN buckets : i \in buckets[b]
           /\ dwell[2] = by_type["presence"] /\ dwell[1] <= dwell[2] * (to - from)
           /\ \A R \in semantic_search(c, from, to, MaxEvents) :
                Cardinality(R) = Min({Scan, Counted(by_type)})
  <2> DEFINE W == Within(c, from, to)
             S == {i \in W : events[i].kind = "presence"}
  <2>1. \A step \in 1..Day, i \in people_counting(c, from, to) :
            tracks[i].first < to =>
                \E b \in DOMAIN occupancy_trend(c, from, to, step) :
                    i \in occupancy_trend(c, from, to, step)[b]
    <3>1. from \in Nat /\ to \in Nat /\ \A step \in 1..Day : step \in Nat \ {0}
      BY <1>0, StoreAssumption
    <3> QED
      BY <3>1, Bucketed
  <2>2. W \subseteq DOMAIN events /\ S \subseteq DOMAIN events
    BY DEF Within, Matching
  <2>3. dwell_time(c, from, to)[2] = Cardinality(S)
        /\ event_type_breakdown(c, from, to)["presence"] = Cardinality(S)
    BY DEF dwell_time, event_type_breakdown, Kind
  <2>4. dwell_time(c, from, to)[1] = MapThenSumSet(LAMBDA i : events[i].end - events[i].start, S)
    BY DEF dwell_time
  <2>5. MapThenSumSet(LAMBDA i : events[i].end - events[i].start, S) <= Cardinality(S) * (to - from)
    <3>1. IsFiniteSet(S)
      BY <1>0, <2>2, CountedByKind
    <3>2. \A i \in S : /\ events[i].end - events[i].start \in Int
                       /\ events[i].end - events[i].start <= to - from
      BY <1>0, <2>2 DEF Within
    <3>3. to - from \in Int
      BY <1>0
    <3> HIDE DEF S
    <3> QED
      BY <3>1, <3>2, <3>3, DwellSum
  <2>6. ASSUME NEW R \in semantic_search(c, from, to, MaxEvents)
        PROVE  Cardinality(R) = Min({Scan, Counted(event_type_breakdown(c, from, to))})
    <3>1. Cardinality(W) \in 0..MaxEvents
          /\ Counted(event_type_breakdown(c, from, to)) = Cardinality(W)
      BY <1>0, <2>2, CountedByKind, BreakdownCounts
    <3>2. Cardinality(R) = Min({MaxEvents, Scan, Cardinality(W)})
      BY DEF semantic_search
    <3> HIDE DEF W
    <3>3. /\ MaxEvents \in Nat /\ Scan \in Nat /\ Cardinality(W) \in Nat
      BY <3>1, StoreAssumption
    <3>4. CASE Scan <= Cardinality(W)
      <4>1. Min({MaxEvents, Scan, Cardinality(W)}) = Scan
        BY <3>1, <3>3, <3>4, MinOf
      <4>2. Min({Scan, Cardinality(W)}) = Scan
        BY <3>1, <3>3, <3>4, MinOf
      <4> QED
        BY <3>1, <3>2, <4>1, <4>2
    <3>5. CASE Cardinality(W) <= Scan
      <4>1. Min({MaxEvents, Scan, Cardinality(W)}) = Cardinality(W)
        BY <3>1, <3>3, <3>5, MinOf
      <4>2. Min({Scan, Cardinality(W)}) = Cardinality(W)
        BY <3>1, <3>3, <3>5, MinOf
      <4> QED
        BY <3>1, <3>2, <4>1, <4>2
    <3> QED
      BY <3>3, <3>4, <3>5
  <2> QED
    BY <2>1, <2>3, <2>4, <2>5, <2>6
<1> QED
  BY <1>1, <1>2 DEF WindowAgrees

-----------------------------------------------------------------------------
(* Pages *)

\* Page after page shows every member.
LEMMA AllPages ==
    ASSUME NEW T, NEW ahead, Ordered(T, ahead), NEW m \in Nat, Cardinality(T) <= m
    PROVE  T = UNION {AtPlaces(T, ahead, n * Page, Page) : n \in 0..m}
<1>1. Page \in Nat \ {0}
  BY StoreAssumption
<1>2. ASSUME NEW i \in T PROVE \E n \in 0..m : i \in AtPlaces(T, ahead, n * Page, Page)
  <2> DEFINE r == Cardinality(ahead[i])
             n == r \div Page
  <2>1. r \in 0 .. Cardinality(T) - 1 /\ Cardinality(T) \in Nat
    BY Ranks
  <2>2. r \in Nat /\ r < m
    BY <2>1
  <2>3. n \in Nat /\ r % Page \in 0 .. Page - 1 /\ r = Page * n + (r % Page)
    BY <1>1, <2>2, Remainder
  <2> HIDE DEF r, n
  <2>4. n * Page \in Nat /\ Page * n = n * Page /\ n <= n * Page
    BY <1>1, <2>3
  <2>5. n \in 0..m /\ r \in n * Page .. n * Page + Page - 1
    BY <1>1, <2>2, <2>3, <2>4
  <2> QED
    BY <2>5 DEF AtPlaces, r
<1>3. \A n \in 0..m : AtPlaces(T, ahead, n * Page, Page) \subseteq T
  BY DEF AtPlaces
<1> QED
  BY <1>2, <1>3

\* The rows before a limit begin the list its pages make up.
LEMMA LimitBegins ==
    ASSUME NEW T, NEW ahead, Ordered(T, ahead), NEW m \in Nat, Cardinality(T) <= m
    PROVE  LET pages == [n \in 0..m |-> AtPlaces(T, ahead, n * Page, Page)]
           IN  /\ UNION {pages[n] : n \in 0..m} = T
               /\ BeginsList({i \in T : Cardinality(ahead[i]) < ExportRows}, pages)
<1> DEFINE pages == [n \in 0..m |-> AtPlaces(T, ahead, n * Page, Page)]
           export == {i \in T : Cardinality(ahead[i]) < ExportRows}
<1>1. Page \in Nat \ {0} /\ ExportRows \in Nat \ {0}
  BY StoreAssumption
<1>2. T = UNION {pages[n] : n \in DOMAIN pages} /\ DOMAIN pages = 0..m
  <2>1. {pages[n] : n \in 0..m} = {AtPlaces(T, ahead, n * Page, Page) : n \in 0..m}
    OBVIOUS
  <2> QED
    BY <2>1, AllPages
<1>3. /\ Cardinality(T) \in Nat
      /\ \A i \in T : Cardinality(ahead[i]) \in Nat /\ Cardinality(ahead[i]) < Cardinality(T)
  BY Ranks
<1>4. export = AtPlaces(T, ahead, 0, ExportRows)
  BY <1>1, <1>3 DEF AtPlaces
<1>5. Cardinality(export) = Min({ExportRows, Cardinality(T)})
  <2>1. CASE ExportRows <= Cardinality(T)
    <3>1. 0 \in Nat /\ 0 + ExportRows <= Cardinality(T)
      BY <1>1, <1>3, <2>1
    <3>2. Cardinality(export) = ExportRows
      BY <1>1, <1>4, <3>1, PlacesFilled
    <3> QED
      BY <1>1, <1>3, <2>1, <3>2, MinTwo
  <2>2. CASE ~(ExportRows <= Cardinality(T))
    <3>1. export = T
      BY <1>1, <1>3, <2>2
    <3> QED
      BY <1>1, <1>3, <2>2, <3>1, MinTwo
  <2> QED
    BY <2>1, <2>2
<1>6. ASSUME NEW n \in 0..m, (n + 1) * Page <= ExportRows PROVE pages[n] \subseteq export
  <2>1. n * Page \in Nat /\ (n + 1) * Page = n * Page + Page
    BY <1>1
  <2>2. \A i \in AtPlaces(T, ahead, n * Page, Page) :
           i \in T /\ Cardinality(ahead[i]) \in n * Page .. n * Page + Page - 1
    BY DEF AtPlaces
  <2>3. \A i \in AtPlaces(T, ahead, n * Page, Page) : Cardinality(ahead[i]) < ExportRows
    BY <1>1, <1>6, <2>1, <2>2
  <2> QED
    BY <2>2, <2>3
<1>7. export \subseteq T
  OBVIOUS
<1> HIDE DEF pages, export
<1>8. UNION {pages[n] : n \in 0..m} = T
  BY <1>2
<1>9. BeginsList(export, pages)
  BY <1>2, <1>5, <1>6, <1>7 DEF BeginsList
<1> QED
  BY <1>8, <1>9 DEF pages, export

LEMMA EventPages ==
    ASSUME StoreTypeOK, NEW c, NEW v \in Views, NEW tie \in TieOrders
    PROVE  LET pages == [n \in 0..MaxEvents |-> list_events(c, View(v, n * Page), tie)]
           IN  /\ UNION {pages[n] : n \in 0..MaxEvents} = Matching(c)
               /\ BeginsList(export_events_csv(c, View(v, 0), tie), pages)
<1> DEFINE A == AheadIn(c, View(v, 0))
           M == Matching(c)
<1>0. tie = ById
  BY DEF TieOrders, ById
<1>1. Ordered(M, A)
  <2>1. View(v, 0).sort \in {"timestamp", "camera"}
    BY StoreConstants DEF View
  <2> QED
    BY <2>1, ListSorted
<1>2. Cardinality(M) <= MaxEvents /\ MaxEvents \in Nat
  <2>1. M \subseteq DOMAIN events
    BY DEF Matching
  <2>2. Cardinality(M) \in 0..MaxEvents /\ MaxEvents \in Nat
    BY <2>1, CountedByKind, StoreAssumption
  <2> QED
    BY <2>2
<1>3. \A n \in 0..MaxEvents :
         list_events(c, View(v, n * Page), tie) = AtPlaces(M, A, n * Page, Page)
  <2> SUFFICES ASSUME NEW n \in 0..MaxEvents
               PROVE  list_events(c, View(v, n * Page), ById) = AtPlaces(M, A, n * Page, Page)
    BY <1>0
  <2>1. \A i, j : Before(j, i, View(v, n * Page), ById) <=> Before(j, i, View(v, 0), ById)
    BY DEF Before, View
  <2>2. View(v, n * Page).offset = n * Page
    BY DEF View
  <2>3. \A i \in M : A[i] = {j \in M : Before(j, i, View(v, n * Page), ById)}
    BY <2>1 DEF AheadIn
  <2> HIDE DEF A
  <2> QED
    BY <2>2, <2>3 DEF list_events, AtPlaces
<1>4. export_events_csv(c, View(v, 0), tie) = {i \in M : Cardinality(A[i]) < ExportRows}
  BY <1>0 DEF export_events_csv, AheadIn
<1> HIDE DEF M, A
<1>5. [n \in 0..MaxEvents |-> list_events(c, View(v, n * Page), tie)]
        = [n \in 0..MaxEvents |-> AtPlaces(M, A, n * Page, Page)]
  BY <1>3
<1>6. LET pages == [n \in 0..MaxEvents |-> AtPlaces(M, A, n * Page, Page)]
      IN  /\ UNION {pages[n] : n \in 0..MaxEvents} = M
          /\ BeginsList({i \in M : Cardinality(A[i]) < ExportRows}, pages)
  BY <1>1, <1>2, LimitBegins
<1> QED
  BY <1>4, <1>5, <1>6 DEF M

\* Two audit rows of one tick are of two actions.
LEMMA AuditFinite ==
    ASSUME audit \subseteq AuditRow
    PROVE  IsFiniteSet(audit) /\ Cardinality(audit) \in Nat
<1> DEFINE h == [a \in audit |-> <<a.ts, a.action>>]
           T == (1..MaxTime) \X Action
<1>1. IsFiniteSet(T)
  <2>1. IsFiniteSet(1..MaxTime)
    BY StoreConstants, FS_Interval
  <2>2. IsFiniteSet({"delete"}) /\ IsFiniteSet({"export"})
    BY FS_Singleton
  <2>3. IsFiniteSet({"delete"} \union {"export"})
    BY <2>2, FS_Union
  <2>4. Action = {"delete"} \union {"export"}
    BY DEF Action
  <2>5. IsFiniteSet(Action)
    BY <2>3, <2>4
  <2> QED
    BY <2>1, <2>5, FS_Product
<1>2. h \in Injection(audit, T)
  BY DEF AuditRow, Injection, IsInjective
<1>3. IsFiniteSet(audit)
  <2> HIDE DEF h, T
  <2> QED
    BY <1>1, <1>2, FS_Injection
<1> QED
  BY <1>3, FS_CardinalityType

LEMMA AuditPages ==
    StoreTypeOK =>
      \A action \in Action \union {AnyAction}, from \in 0..now, direction \in {"asc", "desc"} :
        \A tie \in {f \in [Action -> 1..2] : IsInjective(f)} :
          LET found == audit_query(action, from, now)
              pages == [n \in 0..Cardinality(audit) |-> list_audit(found, direction, n * Page, tie)]
          IN  /\ UNION {pages[n] : n \in 0..Cardinality(audit)} = found
              /\ BeginsList(export_audit_csv(found, direction, tie), pages)
<1> SUFFICES ASSUME StoreTypeOK,
                    NEW action \in Action \union {AnyAction}, NEW from \in 0..now,
                    NEW direction \in {"asc", "desc"},
                    NEW tie \in {f \in [Action -> 1..2] : IsInjective(f)}
             PROVE  LET found == audit_query(action, from, now)
                   pages == [n \in 0..Cardinality(audit) |-> list_audit(found, direction, n * Page, tie)]
               IN  /\ UNION {pages[n] : n \in 0..Cardinality(audit)} = found
                   /\ BeginsList(export_audit_csv(found, direction, tie), pages)
  OBVIOUS
<1> DEFINE M == audit_query(action, from, now)
           A == [a \in M |-> {b \in M : AuditBefore(b, a, direction, tie)}]
<1>0. tie \in [Action -> 1..2] /\ IsInjective(tie)
  OBVIOUS
<1>1. audit \subseteq AuditRow /\ IsFiniteSet(audit) /\ Cardinality(audit) \in Nat
  BY AuditFinite DEF StoreTypeOK
<1>2. M \in SUBSET audit
  BY DEF audit_query
<1>3. IsFiniteSet(M) /\ Cardinality(M) <= Cardinality(audit)
  BY <1>1, <1>2, FS_Subset
<1>4. /\ \A a \in M : a.ts \in Int /\ a.action \in Action /\ tie[a.action] \in Int
      /\ \A a, b \in M : a.ts = b.ts /\ tie[a.action] = tie[b.action] => a = b
  <2>1. \A a \in M : a \in AuditRow
    BY <1>1, <1>2
  <2>2. \A a \in M : a.ts \in Int /\ a.action \in Action /\ a = [ts |-> a.ts, action |-> a.action]
    BY <2>1, StoreConstants DEF AuditRow
  <2>3. /\ \A x \in Action : tie[x] \in Int
        /\ \A x, y \in Action : tie[x] = tie[y] => x = y
    BY <1>0 DEF IsInjective
  <2> QED
    BY <2>2, <2>3
<1>5. \A a, b \in M : b \in A[a] <=> AuditBefore(b, a, direction, tie)
  OBVIOUS
<1>6. A \in [M -> SUBSET M]
  OBVIOUS
<1>7. \A n \in 0..Cardinality(audit) :
         list_audit(M, direction, n * Page, tie) = AtPlaces(M, A, n * Page, Page)
  BY DEF list_audit, AtPlaces
<1>14. export_audit_csv(M, direction, tie) = {a \in M : Cardinality(A[a]) < ExportRows}
  BY DEF export_audit_csv
<1> HIDE DEF M, A
<1>8. \A a \in M : a \notin A[a]
  BY <1>4, <1>5 DEF AuditBefore
<1>9. ASSUME NEW a \in M, NEW b \in M, b \in A[a], NEW c \in A[b] PROVE c \in A[a]
  <2>1. c \in M
    BY <1>6
  <2> QED
    BY <1>4, <1>5, <1>9, <2>1 DEF AuditBefore
<1>10. \A a, b \in M : a = b \/ a \in A[b] \/ b \in A[a]
  BY <1>4, <1>5 DEF AuditBefore
<1>11. Ordered(M, A)
  BY <1>3, <1>6, <1>8, <1>9, <1>10 DEF Ordered
<1>12. LET pages == [n \in 0..Cardinality(audit) |-> AtPlaces(M, A, n * Page, Page)]
       IN  /\ UNION {pages[n] : n \in 0..Cardinality(audit)} = M
           /\ BeginsList({a \in M : Cardinality(A[a]) < ExportRows}, pages)
  BY <1>1, <1>3, <1>11, LimitBegins
<1>13. [n \in 0..Cardinality(audit) |-> list_audit(M, direction, n * Page, tie)]
         = [n \in 0..Cardinality(audit) |-> AtPlaces(M, A, n * Page, Page)]
  BY <1>7
<1> QED
  BY <1>12, <1>13, <1>14 DEF M

LEMMA PagesTold == StoreTypeOK => PagesAgree
<1> SUFFICES ASSUME StoreTypeOK PROVE PagesAgree
  OBVIOUS
<1>1. \A c \in Camera \union {0}, v \in Views, tie \in TieOrders :
       LET pages == [n \in 0..MaxEvents |-> list_events(c, View(v, n * Page), tie)]
       IN  /\ UNION {pages[n] : n \in 0..MaxEvents} = Matching(c)
           /\ BeginsList(export_events_csv(c, View(v, 0), tie), pages)
  <2> TAKE c \in Camera \union {0}, v \in Views, tie \in TieOrders
  <2> QED
    BY EventPages
<1>2. ASSUME NEW found \in Trails, NEW direction \in {"asc", "desc"},
             NEW tie \in {f \in [Action -> 1..2] : IsInjective(f)}
      PROVE  LET pages == [n \in 0..Cardinality(audit) |-> list_audit(found, direction, n * Page, tie)]
             IN  /\ UNION {pages[n] : n \in 0..Cardinality(audit)} = found
                 /\ BeginsList(export_audit_csv(found, direction, tie), pages)
  <2>1. PICK action \in Action \union {AnyAction}, from \in 0..now :
               found = audit_query(action, from, now)
    BY DEF Trails
  <2> QED
    BY <2>1, AuditPages
<1> QED
  BY <1>1, <1>2, Zenon DEF PagesAgree

\* Timeline, Overview, analytics, search, lists and exports tell one story of
\* the same rows, for all cameras, retentions, page sizes and lengths of a
\* day (routers/timeline.py, analytics.py, events.py, audit.py).
THEOREM ReportsConsistent == StoreSpec => []ReportsAgree
<1>1. StoreInit => Spans
  BY DEF StoreInit, Spans
<1>2. StoreInv /\ Spans /\ [StoreNext]_storeVars => Spans'
  <2>1. CASE StoreNext
    BY <2>1, StepSpans DEF StoreInv
  <2>2. CASE UNCHANGED storeVars
    BY <2>2 DEF storeVars, Spans
  <2> QED
    BY <2>1, <2>2
<1>3. StoreInv /\ Spans => ReportsAgree
  BY TodayTold, WindowTold, PagesTold DEF ReportFacts, StoreInv, ReportsAgree
<1> QED
  BY StoreInductive, <1>1, <1>2, <1>3, PTL DEF StoreSpec
=============================================================================
