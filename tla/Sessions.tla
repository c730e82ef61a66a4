------------------------------ MODULE Sessions ------------------------------
(***************************************************************************)
(* Accounts and sessions on the server (apps/api/routers/auth.py, users.py): *)
(* one account, its refresh-token rows, and handlers on the threads of the    *)
(* API.  Login, refresh and the confirmation of a second factor read rows,    *)
(* work on the copies and commit later; the other handlers do both at once.   *)
(* A commit writes the columns that differ from the copy, as the ORM does,    *)
(* and fails on a row that is gone.  Wrong or expired tokens only add audit   *)
(* rows, and are left out.  Times are minutes; access tokens are good for     *)
(* everything their user may do, so the latest expiry stands for them all.    *)
(***************************************************************************)
EXTENDS Integers, FiniteSets

CONSTANTS
    Req,            \* handlers that can be at work at a time
    MaxAttempts, LockFor,       \* max_login_attempts, lockout_minutes
    AccessTtl, RefreshTtl,      \* lifetimes of the two kinds of token
    MaxRequests, MaxTokens, MaxSecrets, MaxTime   \* bounds

ASSUME SessionsAssumption ==
    /\ MaxAttempts \in Nat \ {0} /\ LockFor \in Nat \ {0}
    /\ AccessTtl \in Nat \ {0} /\ RefreshTtl \in Nat \ {0}
    /\ MaxRequests \in Nat /\ MaxTokens \in Nat /\ MaxSecrets \in Nat /\ MaxTime \in Nat

Token == 1..MaxTokens
Time  == 0..MaxTime

VARIABLES
    now,
    user,       \* the User row: [failed, until, enabled, secret], or NoUser
    rows,       \* token -> its RefreshToken row, or NoRow
    minted,     \* tokens 1..minted have been issued
    access,     \* when the youngest access token expires
    req,        \* handler -> what it has read, or Idle
    served,     \* requests so far
    epoch,      \* history: how often all sessions were ended
    origin,     \* history: token -> how it came about
    wrong,      \* history: wrong passwords since the counter was due to be 0
    raced,      \* history: the counter was written over a newer value
    proven,     \* history: secrets that a right code was given for
    overtaken   \* history: secrets enabled by a code for an earlier one

history == <<wrong, raced, proven, overtaken>>
vars == <<now, user, rows, minted, access, req, served, epoch, origin, history>>

NoUser == [failed |-> -1, until |-> 0, enabled |-> FALSE, secret |-> 0]
NoRow  == [revoked |-> TRUE, by |-> -1, exp |-> 0]
Idle   == [op |-> "idle"]
Unborn == [parent |-> 0, seen |-> 0, late |-> FALSE]

UserRow == [failed : 0..MaxAttempts - 1, until : 0..MaxTime + LockFor,
            enabled : BOOLEAN, secret : 0..MaxSecrets]
TokenRow == [revoked : BOOLEAN, by : 0..MaxTokens, exp : 1..MaxTime + RefreshTtl]

Init ==
    /\ now = 0
    /\ user = [failed |-> 0, until |-> 0, enabled |-> FALSE, secret |-> 0]
    /\ rows = [j \in Token |-> NoRow]
    /\ minted = 0
    /\ access = 0
    /\ req = [r \in Req |-> Idle]
    /\ served = 0
    /\ epoch = 0
    /\ origin = [j \in Token |-> Unborn]
    /\ wrong = 0
    /\ raced = FALSE
    /\ proven = {}
    /\ overtaken = {}

-----------------------------------------------------------------------------
(* Shared parts *)

\* A request arrives.
Serve == served < MaxRequests /\ served' = served + 1

Done(r) == req' = [req EXCEPT ![r] = Idle]

\* Commits the columns of "new" that differ from the copy "saw".
Save(saw, new) ==
    user' = [c \in DOMAIN user |-> IF new[c] = saw[c] THEN user[c] ELSE new[c]]

\* Faulty variant: the lock is compared with its wrong end.
LockedSince(saw) == saw.until - LockFor > now

Locked(saw) == saw.until > now

\* What the two kinds of token carry as their end, and when it is too late.
create_access_token  == now + AccessTtl
create_refresh_token == now + RefreshTtl
Expires(exp) == exp <= now

\* decode_token: the signed token behind row j is still good.
decode_token(j) == rows[j] # NoRow /\ ~Expires(rows[j].exp)

\* The sessions that GET /sessions lists: rows neither revoked nor expired.
Active(j) == ~rows[j].revoked /\ ~Expires(rows[j].exp)

\* The sessions an administrator is shown.
user_sessions == {j \in 1..minted : Active(j)}

\* A new pair of tokens; "rest" is what else becomes of the rows.
Issue(rest, birth) ==
    /\ minted < MaxTokens
    /\ minted' = minted + 1
    /\ rows' = [rest EXCEPT ![minted + 1] =
                   [revoked |-> FALSE, by |-> 0, exp |-> create_refresh_token]]
    /\ access' = create_access_token
    /\ origin' = [origin EXCEPT ![minted + 1] = birth]


-----------------------------------------------------------------------------
(* Login *)

LoginRead(r, ok) ==
    /\ Serve
    /\ req[r] = Idle /\ user # NoUser
    /\ req' = [req EXCEPT ![r] = [op |-> "login", ok |-> ok, saw |-> user, seen |-> epoch]]
    /\ UNCHANGED <<now, user, rows, minted, access, epoch, origin, history>>

AtLogin(r) == req[r].op = "login"

LoginLocked(r) ==
    /\ AtLogin(r) /\ Locked(req[r].saw)
    /\ Done(r)
    /\ UNCHANGED <<now, user, rows, minted, access, served, epoch, origin, history>>

\* Faulty variant: the counter is not reset with the lock.
FailureNoReset(saw) ==
    [saw EXCEPT !.failed = @ + 1,
                !.until = IF saw.failed + 1 >= MaxAttempts THEN now + LockFor ELSE @]

\* After a wrong password; the last one allowed locks, and counts from 0 again.
Failure(saw) ==
    IF saw.failed + 1 >= MaxAttempts
    THEN [saw EXCEPT !.failed = 0, !.until = now + LockFor]
    ELSE [saw EXCEPT !.failed = @ + 1]

LoginFails(r) ==
    LET saw  == req[r].saw
        full == saw.failed + 1 >= MaxAttempts
    IN  /\ AtLogin(r) /\ ~Locked(saw) /\ ~req[r].ok
        /\ user # NoUser
        /\ Save(saw, Failure(saw))
        /\ wrong' = IF full THEN 0 ELSE wrong + 1
        /\ raced' = (saw.failed # user.failed \/ (raced /\ ~full))
        /\ Done(r)
        /\ UNCHANGED <<now, rows, minted, access, served, epoch, origin, proven, overtaken>>

\* No code or a wrong one; or the row that would be written is gone.
LoginRefused(r) ==
    /\ AtLogin(r) /\ ~Locked(req[r].saw)
    /\ (req[r].ok /\ req[r].saw.enabled) \/ user = NoUser
    /\ Done(r)
    /\ UNCHANGED <<now, user, rows, minted, access, served, epoch, origin, history>>

\* Without a second factor the counter and an old lock stay as they are.
LoginSucceeds(r) ==
    LET saw == req[r].saw
    IN  /\ AtLogin(r) /\ ~Locked(saw) /\ req[r].ok
        /\ user # NoUser
        /\ saw.enabled => saw.secret # 0
        /\ IF saw.enabled
           THEN /\ Save(saw, [saw EXCEPT !.failed = 0, !.until = 0])
                /\ wrong' = 0
                /\ raced' = (saw.failed # user.failed)
           ELSE UNCHANGED <<user, wrong, raced>>
        /\ Issue(rows, [parent |-> 0, seen |-> req[r].seen,
                        late |-> req[r].seen # epoch])
        /\ Done(r)
        /\ UNCHANGED <<now, served, epoch, proven, overtaken>>

-----------------------------------------------------------------------------
(* Refresh: the row is read, judged and, at the commit, revoked and replaced. *)

\* Faulty variant: a token that was used already is accepted.
UsableAgain(j) == TRUE

Usable(j) == ~rows[j].revoked /\ rows[j].by = 0

RefreshRead(r, j) ==
    /\ Serve
    /\ req[r] = Idle /\ user # NoUser
    /\ decode_token(j) /\ Usable(j)
    /\ req' = [req EXCEPT ![r] = [op |-> "refresh", j |-> j, saw |-> rows[j], seen |-> epoch]]
    /\ UNCHANGED <<now, user, rows, minted, access, epoch, origin, history>>

RefreshCommit(r) ==
    /\ req[r].op = "refresh"
    /\ LET j == req[r].j
       IN  /\ rows[j] # NoRow
           /\ Issue([rows EXCEPT ![j].revoked = TRUE, ![j].by = minted + 1],
                    [parent |-> j, seen |-> req[r].seen,
                     late |-> rows[j] # req[r].saw \/ req[r].seen # epoch])
    /\ Done(r)
    /\ UNCHANGED <<now, user, served, epoch, history>>

\* The row is gone with its user, or swept.
RefreshFails(r) ==
    /\ req[r].op = "refresh" /\ rows[req[r].j] = NoRow
    /\ Done(r)
    /\ UNCHANGED <<now, user, rows, minted, access, served, epoch, origin, history>>

-----------------------------------------------------------------------------
(* Ending sessions *)

Logout(j) ==
    /\ Serve
    /\ decode_token(j) /\ ~rows[j].revoked
    /\ rows' = [rows EXCEPT ![j].revoked = TRUE]
    /\ UNCHANGED <<now, user, minted, access, req, epoch, origin, history>>

SignedIn == user # NoUser /\ ~Expires(access)

RevokeOwnSession(j) ==
    /\ Serve
    /\ SignedIn
    /\ rows[j] # NoRow /\ ~rows[j].revoked
    /\ rows' = [rows EXCEPT ![j].revoked = TRUE]
    /\ UNCHANGED <<now, user, minted, access, req, epoch, origin, history>>

\* Faulty variant: the filter spares the tokens that came from a rotation.
AllRevokedButRotated ==
    [j \in Token |-> IF origin[j].parent # 0 THEN rows[j] ELSE [rows[j] EXCEPT !.revoked = TRUE]]

AllRevoked == [j \in Token |-> [rows[j] EXCEPT !.revoked = TRUE]]

RevokeAll ==
    /\ Serve
    /\ rows' = AllRevoked
    /\ epoch' = epoch + 1
    /\ UNCHANGED <<now, user, minted, access, req, origin, history>>

\* The user's new password, and an administrator's revocation.
ChangePassword == SignedIn /\ RevokeAll
RevokeUserSessions == user # NoUser /\ RevokeAll

\* The rows of refresh tokens are deleted with their user.
DeleteUser ==
    /\ Serve
    /\ user # NoUser
    /\ user' = NoUser
    /\ rows' = [j \in Token |-> NoRow]
    /\ UNCHANGED <<now, minted, access, req, epoch, origin, history>>

\* The retention sweep of the worker deletes the rows that have expired.
SweepTokens ==
    /\ \E j \in Token : rows[j] # NoRow /\ rows[j].exp < now
    /\ rows' = [j \in Token |-> IF rows[j].exp < now THEN NoRow ELSE rows[j]]
    /\ UNCHANGED <<now, user, minted, access, req, served, epoch, origin, history>>

-----------------------------------------------------------------------------
(* Second factor *)

\* Faulty variant: a factor that was enabled stays so.
SetupKeeps(s) == [user EXCEPT !.secret = s]

\* A new secret, to be enabled by a code.
Setup(s) == [user EXCEPT !.secret = s, !.enabled = FALSE]

MfaSetup ==
    /\ Serve
    /\ SignedIn
    /\ \E s \in 1..MaxSecrets : s # user.secret /\ s \notin proven /\ user' = Setup(s)
    /\ UNCHANGED <<now, rows, minted, access, req, epoch, origin, history>>

MfaVerifyRead(r) ==
    /\ Serve
    /\ req[r] = Idle /\ SignedIn /\ user.secret # 0
    /\ req' = [req EXCEPT ![r] = [op |-> "verify", saw |-> user]]
    /\ UNCHANGED <<now, user, rows, minted, access, epoch, origin, history>>

MfaVerifyCommit(r) ==
    /\ req[r].op = "verify"
    /\ IF user = NoUser
       THEN UNCHANGED <<user, proven, overtaken>>
       ELSE /\ Save(req[r].saw, [req[r].saw EXCEPT !.enabled = TRUE])
            /\ proven' = proven \union {req[r].saw.secret}
            /\ overtaken' = overtaken \union ({user.secret} \ {req[r].saw.secret})
    /\ Done(r)
    /\ UNCHANGED <<now, rows, minted, access, served, epoch, origin, wrong, raced>>

ResetUserMfa ==
    /\ Serve
    /\ user # NoUser /\ user.enabled
    /\ user' = [user EXCEPT !.enabled = FALSE, !.secret = 0]
    /\ UNCHANGED <<now, rows, minted, access, req, epoch, origin, history>>

Tick ==
    /\ now < MaxTime
    /\ now' = now + 1
    /\ UNCHANGED <<user, rows, minted, access, req, served, epoch, origin, history>>

-----------------------------------------------------------------------------
Next ==
    \/ \E r \in Req :
         \/ \E ok \in BOOLEAN : LoginRead(r, ok)
         \/ LoginLocked(r) \/ LoginFails(r) \/ LoginRefused(r) \/ LoginSucceeds(r)
         \/ \E j \in 1..minted : RefreshRead(r, j)
         \/ RefreshCommit(r) \/ RefreshFails(r)
         \/ MfaVerifyRead(r) \/ MfaVerifyCommit(r)
    \/ \E j \in 1..minted : Logout(j) \/ RevokeOwnSession(j)
    \/ ChangePassword \/ RevokeUserSessions \/ DeleteUser \/ SweepTokens
    \/ MfaSetup \/ ResetUserMfa
    \/ Tick

Spec == Init /\ [][Next]_vars

-----------------------------------------------------------------------------
(* Properties *)

\* The types; in particular the failure counter never reaches its limit, and
\* only tokens that were issued have rows.
TypeOK ==
    /\ now \in Time /\ minted \in 0..MaxTokens /\ epoch \in 0..MaxRequests /\ served \in 0..MaxRequests
    /\ user \in UserRow \union {NoUser}
    /\ rows \in [Token -> TokenRow \union {NoRow}]
    /\ \A j \in Token : j > minted => rows[j] = NoRow
    /\ access \in 0..MaxTime + AccessTtl

\* A refresh token has one successor (jwt.py: "replay of an old refresh is
\* rejected"), unless a second use had read the row before the first commit.
OneSuccessor ==
    \A j, k \in 1..minted :
        j # k /\ origin[j].parent # 0 /\ origin[j].parent = origin[k].parent
            => origin[j].late \/ origin[k].late

\* Once all sessions were ended (password change, revoke-all), a session that
\* is active was begun by a request that came later, or by one overtaken.
SignOutHolds ==
    \A j \in user_sessions : origin[j].seen = epoch \/ origin[j].late

\* The counter counts: it is the number of wrong passwords since the last lock
\* or login with a second factor, unless two logins overlapped.
LockoutCounts == user # NoUser => user.failed = wrong \/ raced

\* While an account is locked no login succeeds, but for one that had read the
\* account before; and nothing but a second factor lifts the lock.
LockHolds ==
    [][ user # NoUser /\ user' # NoUser /\ user.until > now
        => /\ minted' > minted /\ origin'[minted'].parent = 0
               => \E r \in Req : AtLogin(r) /\ req'[r] = Idle /\ req[r].saw.until # user.until
           /\ user'.until < user.until
               => \E r \in Req : AtLogin(r) /\ req'[r] = Idle /\ req[r].saw.enabled ]_vars

\* The lockout does what login reads from it (auth.py 72-92, 112-121).
LockoutHolds == []LockoutCounts /\ LockHolds

\* An enabled second factor is one that its user has shown to possess, unless
\* a confirmation was overtaken by a new set-up or a reset.
FactorProven ==
    user # NoUser /\ user.enabled => user.secret \in proven \union overtaken

\* A password change "revokes every OTHER refresh token (other devices sign out;
\* this session keeps working)" (auth.py 219-220; USER_GUIDE.md 316).  Does not
\* hold: every token is revoked, the one of the session that asks included.
OwnSessionKept == [][ChangePassword /\ user_sessions # {} => user_sessions' # {}]_vars
=============================================================================
