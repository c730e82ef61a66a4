---------------------------- MODULE SessionsProofs ----------------------------
(***************************************************************************)
(* Theorems about Sessions, for every number of handlers, tokens, requests  *)
(* and secrets, every lockout and all lifetimes.                            *)
(***************************************************************************)
EXTENDS Sessions, TLAPS

\* What a handler that is at work has read.
Copies ==
    {Idle} \union [op : {"login"}, ok : BOOLEAN, saw : UserRow, seen : 0..MaxRequests]
           \union [op : {"refresh"}, j : Token, saw : TokenRow, seen : 0..MaxRequests]
           \union [op : {"verify"}, saw : UserRow]

Origins == [parent : 0..MaxTokens, seen : 0..MaxRequests, late : BOOLEAN]

\* A refresh at work read a row that had not been used.
ReqInv ==
    /\ req \in [Req -> Copies]
    /\ \A r \in Req : req[r].op = "refresh" => req[r].saw.by = 0

HistoryInv ==
    /\ origin \in [Token -> Origins]
    /\ epoch <= served

\* A token with a successor never reads as unused again, whatever becomes of
\* its row.
UsedInv ==
    \A j \in 1..minted :
        origin[j].parent # 0 => origin[j].parent \in 1..minted /\ rows[origin[j].parent].by # 0

\* SignOutHolds of rows that have expired as well.
SignedOutInv ==
    \A j \in 1..minted : rows[j].revoked \/ origin[j].seen = epoch \/ origin[j].late

SInv == TypeOK /\ ReqInv /\ HistoryInv /\ UsedInv /\ SignedOutInv /\ OneSuccessor /\ FactorProven

-----------------------------------------------------------------------------
(* Lemmas *)

\* A refresh, a login or a confirmation at work holds what it has read.
LEMMA CopyKinds ==
    ASSUME ReqInv, NEW r \in Req
    PROVE  /\ req[r].op = "login" =>
                 req[r] \in [op : {"login"}, ok : BOOLEAN, saw : UserRow, seen : 0..MaxRequests]
           /\ req[r].op = "refresh" =>
                 req[r] \in [op : {"refresh"}, j : Token, saw : TokenRow, seen : 0..MaxRequests]
           /\ req[r].op = "verify" => req[r] \in [op : {"verify"}, saw : UserRow]
<1>1. req[r] \in Copies  BY DEF ReqInv
<1> QED BY <1>1 DEF Copies, Idle

\* A commit of the ORM keeps the row a row, and writes what differs from the copy.
LEMMA SaveKeeps ==
    ASSUME user \in UserRow, NEW saw \in UserRow, NEW new \in UserRow, Save(saw, new)
    PROVE  /\ user' \in UserRow
           /\ user'.failed = IF new.failed = saw.failed THEN user.failed ELSE new.failed
           /\ user'.until = IF new.until = saw.until THEN user.until ELSE new.until
           /\ user'.enabled = IF new.enabled = saw.enabled THEN user.enabled ELSE new.enabled
           /\ user'.secret = IF new.secret = saw.secret THEN user.secret ELSE new.secret
<1>1. DOMAIN user = {"failed", "until", "enabled", "secret"}  BY DEF UserRow
<1>2. user' = [c \in {"failed", "until", "enabled", "secret"} |->
                  IF new[c] = saw[c] THEN user[c] ELSE new[c]]
    BY <1>1 DEF Save
<1>3. user' = [failed |-> IF new.failed = saw.failed THEN user.failed ELSE new.failed,
               until |-> IF new.until = saw.until THEN user.until ELSE new.until,
               enabled |-> IF new.enabled = saw.enabled THEN user.enabled ELSE new.enabled,
               secret |-> IF new.secret = saw.secret THEN user.secret ELSE new.secret]
    BY <1>2
<1> QED BY <1>3 DEF UserRow

\* What a new pair of tokens does to rows and origins.
LEMMA IssueKeeps ==
    ASSUME TypeOK, HistoryInv, NEW rest \in [Token -> TokenRow \union {NoRow}],
           \A j \in Token : j > minted => rest[j] = NoRow,
           NEW birth \in Origins, Issue(rest, birth)
    PROVE  /\ minted + 1 \in Token
           /\ minted' = minted + 1
           /\ rows' \in [Token -> TokenRow \union {NoRow}]
           /\ \A j \in Token : j > minted' => rows'[j] = NoRow
           /\ rows'[minted + 1] \in TokenRow
           /\ \A j \in Token \ {minted + 1} : rows'[j] = rest[j] /\ origin'[j] = origin[j]
           /\ origin' \in [Token -> Origins]
           /\ origin'[minted + 1] = birth
           /\ access' \in 0..MaxTime + AccessTtl
<1>1. minted \in 0..MaxTokens /\ minted < MaxTokens /\ now \in 0..MaxTime
    BY DEF TypeOK, Issue, Time
<1>2. minted + 1 \in Token  BY <1>1, SessionsAssumption DEF Token
<1>3. now + RefreshTtl \in 1..MaxTime + RefreshTtl /\ now + AccessTtl \in 0..MaxTime + AccessTtl
    BY <1>1, SessionsAssumption
<1>4. [revoked |-> FALSE, by |-> 0, exp |-> now + RefreshTtl] \in TokenRow
    BY <1>3, SessionsAssumption DEF TokenRow
<1>5. rows' = [rest EXCEPT ![minted + 1] = [revoked |-> FALSE, by |-> 0, exp |-> now + RefreshTtl]]
    BY DEF Issue, create_refresh_token
<1>6. \A j \in Token : j > minted + 1 => j > minted  BY <1>1 DEF Token
<1> QED BY <1>1, <1>2, <1>3, <1>4, <1>5, <1>6 DEF Issue, create_access_token, HistoryInv

\* Rows end in three ways: revoked, deleted with their user, or swept.
RowsEnd ==
    /\ rows' \in [Token -> TokenRow \union {NoRow}]
    /\ \A j \in Token : /\ rows'[j] = rows[j] \/ rows'[j].revoked
                        /\ rows[j].by # 0 => rows'[j].by # 0
                        /\ rows[j] = NoRow => rows'[j] = NoRow
    /\ UNCHANGED <<minted, origin>>
    /\ epoch' = epoch \/ \A j \in Token : rows'[j].revoked

\* A revoked row keeps its successor; no row is its own revocation.
LEMMA RevokedRow ==
    ASSUME NEW row \in TokenRow \union {NoRow}
    PROVE  LET revoked == [row EXCEPT !.revoked = TRUE]
           IN  /\ revoked \in TokenRow \union {NoRow}
               /\ revoked.revoked /\ revoked.by = row.by
               /\ row = NoRow => revoked = NoRow
<1> DEFINE revoked == [row EXCEPT !.revoked = TRUE]
<1>1. CASE row \in TokenRow
    <2>2. revoked.revoked /\ revoked.by = row.by  BY <1>1 DEF TokenRow
    <2>3. revoked \in TokenRow  BY <1>1 DEF TokenRow
    <2>4. row # NoRow
        <3>1. row.by \in 0..MaxTokens  BY <1>1 DEF TokenRow
        <3> QED BY <3>1, SessionsAssumption DEF NoRow
    <2> QED BY <2>2, <2>3, <2>4
<1>2. CASE row = NoRow
    <2>1. row.revoked = TRUE /\ row = [c \in DOMAIN row |-> row[c]]  BY <1>2 DEF NoRow
    <2>2. revoked = row  BY <2>1, Zenon
    <2> QED BY <1>2, <2>1, <2>2
<1> QED BY <1>1, <1>2

\* Revoking one row.
LEMMA RevokeOneEnds ==
    ASSUME TypeOK, NEW j \in Token, rows[j] # NoRow,
           rows' = [rows EXCEPT ![j].revoked = TRUE], UNCHANGED <<minted, origin, epoch>>
    PROVE  RowsEnd
<1>1. rows \in [Token -> TokenRow \union {NoRow}]  BY DEF TypeOK
<1>2. rows'[j] = [rows[j] EXCEPT !.revoked = TRUE]  BY <1>1
<1>3. /\ rows'[j] \in TokenRow \union {NoRow}
      /\ rows'[j].revoked /\ rows'[j].by = rows[j].by
    BY <1>1, <1>2, RevokedRow
<1>4. \A k \in Token \ {j} : rows'[k] = rows[k]  BY <1>1
<1> QED BY <1>1, <1>3, <1>4 DEF RowsEnd

\* Revoking all of them.
LEMMA RevokeAllEnds ==
    ASSUME TypeOK, rows' = AllRevoked, UNCHANGED <<minted, origin>> PROVE RowsEnd
<1>1. rows \in [Token -> TokenRow \union {NoRow}]  BY DEF TypeOK
<1>2. ASSUME NEW j \in Token
      PROVE  /\ rows'[j] \in TokenRow \union {NoRow}
             /\ rows'[j].revoked /\ rows'[j].by = rows[j].by
             /\ rows[j] = NoRow => rows'[j] = NoRow
    <2>1. rows'[j] = [rows[j] EXCEPT !.revoked = TRUE]  BY DEF AllRevoked
    <2> QED BY <1>1, <2>1, RevokedRow
<1>3. rows' \in [Token -> TokenRow \union {NoRow}]  BY <1>2 DEF AllRevoked
<1> QED BY <1>2, <1>3 DEF RowsEnd

\* Whatever ends sessions keeps what is known of rows and origins.
LEMMA EndingKeeps ==
    ASSUME SInv, RowsEnd PROVE UsedInv' /\ SignedOutInv' /\ OneSuccessor'
<1>1. minted \in 0..MaxTokens  BY DEF SInv, TypeOK
<1>2. \A j \in 1..minted : j \in Token  BY <1>1, SessionsAssumption DEF Token
<1>3. UsedInv'  BY <1>2 DEF SInv, RowsEnd, UsedInv
<1>4. SignedOutInv'
    <2> SUFFICES ASSUME NEW j \in 1..minted
                 PROVE  (rows[j].revoked \/ origin[j].seen = epoch \/ origin[j].late)'
        BY DEF SignedOutInv, RowsEnd
    <2> QED BY <1>2 DEF SInv, RowsEnd, SignedOutInv
<1>5. OneSuccessor'  BY DEF SInv, RowsEnd, OneSuccessor
<1> QED BY <1>3, <1>4, <1>5

\* So does a new pair of tokens, if it is recorded truthfully what it stems from:
\* one that is not late begins in this epoch, from a token unused until now.
LEMMA IssuingKeeps ==
    ASSUME SInv, NEW rest \in [Token -> TokenRow \union {NoRow}],
           \A j \in Token : j > minted => rest[j] = NoRow,
           NEW birth \in Origins, Issue(rest, birth),
           UNCHANGED epoch,
           birth.late \/ birth.seen = epoch,
           \A j \in Token : rest[j] = rows[j] \/ rest[j].revoked,
           \A j \in Token : rows[j].by # 0 => rest[j].by # 0,
           birth.parent # 0 =>
               /\ birth.parent \in 1..minted
               /\ rest[birth.parent].by # 0
               /\ birth.late \/ rows[birth.parent].by = 0
    PROVE  UsedInv' /\ SignedOutInv' /\ OneSuccessor'
<1>1. minted \in 0..MaxTokens /\ TypeOK /\ HistoryInv  BY DEF SInv, TypeOK
<1>2. /\ minted + 1 \in Token
      /\ minted' = minted + 1
      /\ \A j \in Token \ {minted + 1} : rows'[j] = rest[j] /\ origin'[j] = origin[j]
      /\ origin'[minted + 1] = birth
    BY <1>1, IssueKeeps
<1>3. \A j \in 1..minted' : j = minted + 1 \/ (j \in 1..minted /\ j \in Token \ {minted + 1})
    BY <1>1, <1>2, SessionsAssumption DEF Token
<1>4. \A j \in 1..minted : rows'[j] = rest[j] /\ origin'[j] = origin[j]
    BY <1>1, <1>2, SessionsAssumption DEF Token
<1>5. 1..minted \subseteq Token  BY <1>1, SessionsAssumption DEF Token
<1>6. UsedInv'
    <2> SUFFICES ASSUME NEW j \in 1..minted', origin'[j].parent # 0
                 PROVE  origin'[j].parent \in 1..minted /\ rest[origin'[j].parent].by # 0
        BY <1>1, <1>2, <1>4 DEF UsedInv
    <2>1. CASE j = minted + 1  BY <1>2, <2>1
    <2>2. CASE j # minted + 1
        <3>1. origin'[j] = origin[j] /\ j \in 1..minted  BY <1>3, <1>4, <2>2
        <3> QED BY <1>5, <3>1 DEF SInv, UsedInv
    <2> QED BY <2>1, <2>2
<1>7. SignedOutInv'
    <2> SUFFICES ASSUME NEW j \in 1..minted'
                 PROVE  rows'[j].revoked \/ origin'[j].seen = epoch \/ origin'[j].late
        BY DEF SignedOutInv
    <2>1. CASE j = minted + 1  BY <1>2, <2>1
    <2>2. CASE j # minted + 1
        <3>1. j \in 1..minted /\ rows'[j] = rest[j] /\ origin'[j] = origin[j]
            BY <1>3, <1>4, <2>2
        <3> QED BY <1>5, <3>1 DEF SInv, SignedOutInv
    <2> QED BY <2>1, <2>2
<1>8. OneSuccessor'
    <2> SUFFICES ASSUME NEW j \in 1..minted', NEW k \in 1..minted', j # k,
                        origin'[j].parent # 0, origin'[j].parent = origin'[k].parent
                 PROVE  origin'[j].late \/ origin'[k].late
        BY DEF OneSuccessor
    <2>1. ASSUME NEW i \in 1..minted, origin[i].parent = birth.parent, birth.parent # 0
          PROVE  birth.late
        BY <2>1 DEF SInv, UsedInv
    <2>2. CASE j # minted + 1 /\ k # minted + 1
        <3>1. j \in 1..minted /\ k \in 1..minted  BY <1>3, <2>2
        <3> QED BY <1>4, <3>1 DEF SInv, OneSuccessor
    <2>3. CASE j = minted + 1
        <3>1. k \in 1..minted  BY <1>3, <2>3
        <3> QED BY <1>2, <1>4, <2>1, <2>3, <3>1
    <2>4. CASE k = minted + 1
        <3>1. j \in 1..minted  BY <1>3, <2>4
        <3> QED BY <1>2, <1>4, <2>1, <2>4, <3>1
    <2> QED BY <2>2, <2>3, <2>4
<1> QED BY <1>6, <1>7, <1>8

-----------------------------------------------------------------------------
(* The steps. *)

\* Nothing has been issued, nothing is at work.
LEMMA InitSessions == Init => SInv
<1> SUFFICES ASSUME Init PROVE SInv  OBVIOUS
<1>1. user \in UserRow  BY SessionsAssumption DEF Init, UserRow
<1>2. TypeOK  BY <1>1, SessionsAssumption DEF Init, TypeOK, Time, Token
<1>3. ReqInv  BY DEF Init, ReqInv, Copies, Idle
<1>4. Unborn \in Origins  BY SessionsAssumption DEF Unborn, Origins
<1>5. HistoryInv  BY <1>4 DEF Init, HistoryInv
<1>6. UsedInv /\ SignedOutInv /\ OneSuccessor  BY DEF Init, UsedInv, SignedOutInv, OneSuccessor
<1>7. FactorProven  BY DEF Init, FactorProven
<1> QED BY <1>2, <1>3, <1>5, <1>6, <1>7 DEF SInv

\* A handler that ends, or reads, leaves the other copies alone.
LEMMA HandlerTurns ==
    ASSUME ReqInv, NEW r \in Req, NEW copy \in Copies, copy.op = "refresh" => copy.saw.by = 0,
           req' = [req EXCEPT ![r] = copy]
    PROVE  ReqInv'
BY DEF ReqInv

LEMMA DoneKeeps == ASSUME ReqInv, NEW r \in Req, Done(r) PROVE ReqInv'
<1>1. Idle \in Copies /\ Idle.op # "refresh"  BY DEF Copies, Idle
<1> QED BY <1>1, HandlerTurns DEF Done

\* Every step issues a pair of tokens or ends rows.
LEMMA IssueOrEnd ==
    ASSUME SInv, [Next]_vars
    PROVE  RowsEnd \/ \E r \in Req : LoginSucceeds(r) \/ RefreshCommit(r)
<1>0. TypeOK /\ rows \in [Token -> TokenRow \union {NoRow}]  BY DEF SInv, TypeOK
<1>1. CASE UNCHANGED <<rows, minted, origin, epoch>>  BY <1>0, <1>1 DEF RowsEnd
<1>2. ASSUME NEW j \in 1..minted, Logout(j) \/ RevokeOwnSession(j) PROVE RowsEnd
    <2>1. j \in Token  BY <1>0, SessionsAssumption DEF TypeOK, Token
    <2> QED BY <1>0, <1>2, <2>1, RevokeOneEnds DEF Logout, RevokeOwnSession, decode_token
<1>3. CASE ChangePassword \/ RevokeUserSessions
    BY <1>0, <1>3, RevokeAllEnds DEF ChangePassword, RevokeUserSessions, RevokeAll
<1>4. CASE DeleteUser  BY <1>0, <1>4 DEF DeleteUser, RowsEnd, NoRow
<1>5. CASE SweepTokens
    <2>1. \A j \in Token : rows'[j] = rows[j] \/ rows'[j] = NoRow  BY <1>5 DEF SweepTokens
    <2>2. rows' \in [Token -> TokenRow \union {NoRow}]
        <3>1. rows' = [j \in Token |-> rows'[j]]  BY <1>5 DEF SweepTokens
        <3> QED BY <1>0, <2>1, <3>1
    <2>3. NoRow.revoked /\ NoRow.by # 0  BY DEF NoRow
    <2> QED BY <1>0, <1>5, <2>1, <2>2, <2>3 DEF SweepTokens, RowsEnd
<1> QED BY <1>1, <1>2, <1>3, <1>4, <1>5
    DEF Next, LoginRead, LoginLocked, LoginFails, LoginRefused, RefreshRead, RefreshFails,
        MfaVerifyRead, MfaVerifyCommit, MfaSetup, ResetUserMfa, Tick, vars

\* What the two steps that issue tokens hand to Issue.
LEMMA Births ==
    ASSUME SInv, NEW r \in Req, LoginSucceeds(r) \/ RefreshCommit(r)
    PROVE  \E rest \in [Token -> TokenRow \union {NoRow}], birth \in Origins :
              /\ \A j \in Token : j > minted => rest[j] = NoRow
              /\ Issue(rest, birth)
              /\ birth.late \/ birth.seen = epoch
              /\ \A j \in Token : rest[j] = rows[j] \/ rest[j].revoked
              /\ \A j \in Token : rows[j].by # 0 => rest[j].by # 0
              /\ birth.parent # 0 =>
                     /\ birth.parent \in 1..minted
                     /\ rest[birth.parent].by # 0
                     /\ birth.late \/ rows[birth.parent].by = 0
<1>0. /\ rows \in [Token -> TokenRow \union {NoRow}]
      /\ \A j \in Token : j > minted => rows[j] = NoRow
      /\ minted \in 0..MaxTokens
      /\ ReqInv
    BY DEF SInv, TypeOK
<1>1. CASE LoginSucceeds(r)
    <2> DEFINE birth == [parent |-> 0, seen |-> req[r].seen, late |-> req[r].seen # epoch]
    <2>1. req[r].seen \in 0..MaxRequests  BY <1>0, <1>1, CopyKinds DEF LoginSucceeds, AtLogin
    <2>2. birth \in Origins  BY <2>1, SessionsAssumption DEF Origins
    <2>3. Issue(rows, birth)  BY <1>1 DEF LoginSucceeds
    <2>4. birth.parent = 0 /\ (birth.late \/ birth.seen = epoch)  OBVIOUS
    <2> HIDE DEF birth
    <2> QED BY <1>0, <2>2, <2>3, <2>4
<1>2. CASE RefreshCommit(r)
    <2> DEFINE j == req[r].j
               rest == [rows EXCEPT ![j].revoked = TRUE, ![j].by = minted + 1]
               birth == [parent |-> j, seen |-> req[r].seen,
                         late |-> rows[j] # req[r].saw \/ req[r].seen # epoch]
    <2>1. /\ req[r] \in [op : {"refresh"}, j : Token, saw : TokenRow, seen : 0..MaxRequests]
          /\ req[r].saw.by = 0
        BY <1>0, <1>2, CopyKinds DEF RefreshCommit, ReqInv
    <2>2. j \in Token /\ req[r].seen \in 0..MaxRequests  BY <2>1
    <2>3. birth \in Origins  BY <2>2, SessionsAssumption DEF Origins, Token
    <2>4. Issue(rest, birth) /\ rows[j] # NoRow  BY <1>2 DEF RefreshCommit
    <2>5. j \in 1..minted
        <3>1. ~(j > minted)  BY <1>0, <2>2, <2>4
        <3>2. j \in Nat \ {0} /\ minted \in Nat  BY <1>0, <2>2, SessionsAssumption DEF Token
        <3> QED BY <3>1, <3>2
    <2>6. rows[j] \in TokenRow
        <3>1. rows[j] \in TokenRow \union {NoRow}  BY <1>0, <2>2
        <3> QED BY <2>4, <3>1
    <2>7. minted + 1 \in 0..MaxTokens
        <3>1. minted < MaxTokens  BY <2>4 DEF Issue
        <3>2. minted \in 0..MaxTokens /\ MaxTokens \in Nat  BY <1>0, SessionsAssumption
        <3> QED BY <3>1, <3>2
    <2>8. rest[j] = [revoked |-> TRUE, by |-> minted + 1, exp |-> rows[j].exp]
        BY <1>0, <2>2, <2>6 DEF TokenRow
    <2>9. \A k \in Token \ {j} : rest[k] = rows[k]  BY <1>0
    <2> HIDE DEF rest
    <2>10. rest[j] \in TokenRow /\ rest[j].revoked /\ rest[j].by = minted + 1
        BY <2>6, <2>7, <2>8 DEF TokenRow
    <2>11. rest \in [Token -> TokenRow \union {NoRow}]
        <3>1. rest = [k \in Token |-> rest[k]]  BY <1>0 DEF rest
        <3> QED BY <1>0, <2>9, <2>10, <3>1
    <2>12. birth.late \/ (birth.seen = epoch /\ rows[birth.parent].by = 0)  BY <2>1
    <2>13. birth.parent = j  OBVIOUS
    <2>14. minted + 1 # 0  BY <1>0
    <2>15. \A k \in Token : k > minted => rest[k] = NoRow  BY <1>0, <2>5, <2>9
    <2>16. \A k \in Token : rest[k] = rows[k] \/ rest[k].revoked  BY <2>9, <2>10
    <2>17. \A k \in Token : rows[k].by # 0 => rest[k].by # 0  BY <2>9, <2>10, <2>14
    <2> HIDE DEF j, birth
    <2> QED BY <2>3, <2>4, <2>5, <2>10, <2>11, <2>12, <2>13, <2>14, <2>15, <2>16, <2>17
<1> QED BY <1>1, <1>2

\* Rows and origins.
LEMMA StepRows == SInv /\ [Next]_vars => UsedInv' /\ SignedOutInv' /\ OneSuccessor'
<1> SUFFICES ASSUME SInv, [Next]_vars PROVE UsedInv' /\ SignedOutInv' /\ OneSuccessor'
    OBVIOUS
<1>1. CASE RowsEnd  BY <1>1, EndingKeeps
<1>2. ASSUME NEW r \in Req, LoginSucceeds(r) \/ RefreshCommit(r)
      PROVE  UsedInv' /\ SignedOutInv' /\ OneSuccessor'
    <2>1. UNCHANGED epoch  BY <1>2 DEF LoginSucceeds, RefreshCommit
    <2> QED BY <1>2, <2>1, Births, IssuingKeeps
<1> QED BY <1>1, <1>2, IssueOrEnd

\* What handlers have read.
LEMMA StepReq == SInv /\ [Next]_vars => ReqInv'
<1> SUFFICES ASSUME SInv, [Next]_vars PROVE ReqInv'  OBVIOUS
<1>0. ReqInv /\ TypeOK  BY DEF SInv
<1>1. CASE UNCHANGED req  BY <1>0, <1>1 DEF ReqInv
<1>2. ASSUME NEW r \in Req, Done(r) PROVE ReqInv'  BY <1>0, <1>2, DoneKeeps
<1>3. ASSUME NEW r \in Req, NEW ok \in BOOLEAN, LoginRead(r, ok) PROVE ReqInv'
    <2> DEFINE copy == [op |-> "login", ok |-> ok, saw |-> user, seen |-> epoch]
    <2>1. user \in UserRow /\ epoch \in 0..MaxRequests  BY <1>0, <1>3 DEF TypeOK, LoginRead
    <2>2. copy \in Copies /\ copy.op # "refresh"  BY <2>1 DEF Copies
    <2>3. req' = [req EXCEPT ![r] = copy]  BY <1>3 DEF LoginRead
    <2> HIDE DEF copy
    <2> QED BY <1>0, <2>2, <2>3, HandlerTurns
<1>4. ASSUME NEW r \in Req, NEW j \in 1..minted, RefreshRead(r, j) PROVE ReqInv'
    <2> DEFINE copy == [op |-> "refresh", j |-> j, saw |-> rows[j], seen |-> epoch]
    <2>1. j \in Token  BY <1>0, SessionsAssumption DEF TypeOK, Token
    <2>2. rows[j] \in TokenRow /\ rows[j].by = 0 /\ epoch \in 0..MaxRequests
        BY <1>0, <1>4, <2>1 DEF TypeOK, RefreshRead, decode_token, Usable
    <2>3. copy \in Copies /\ copy.saw.by = 0  BY <2>1, <2>2 DEF Copies
    <2>4. req' = [req EXCEPT ![r] = copy]  BY <1>4 DEF RefreshRead
    <2> HIDE DEF copy
    <2> QED BY <1>0, <2>3, <2>4, HandlerTurns
<1>5. ASSUME NEW r \in Req, MfaVerifyRead(r) PROVE ReqInv'
    <2> DEFINE copy == [op |-> "verify", saw |-> user]
    <2>1. user \in UserRow  BY <1>0, <1>5 DEF TypeOK, MfaVerifyRead, SignedIn
    <2>2. copy \in Copies /\ copy.op # "refresh"  BY <2>1 DEF Copies
    <2>3. req' = [req EXCEPT ![r] = copy]  BY <1>5 DEF MfaVerifyRead
    <2> HIDE DEF copy
    <2> QED BY <1>0, <2>2, <2>3, HandlerTurns
<1> QED BY <1>1, <1>2, <1>3, <1>4, <1>5
    DEF Next, LoginLocked, LoginFails, LoginRefused, LoginSucceeds, RefreshCommit, RefreshFails,
        MfaVerifyCommit, Logout, RevokeOwnSession, ChangePassword, RevokeUserSessions, RevokeAll,
        DeleteUser, SweepTokens, MfaSetup, ResetUserMfa, Tick, vars

\* How tokens came about.
LEMMA StepHistory == SInv /\ [Next]_vars => HistoryInv'
<1> SUFFICES ASSUME SInv, [Next]_vars PROVE HistoryInv'  OBVIOUS
<1>0. HistoryInv /\ TypeOK  BY DEF SInv
<1>1. epoch' <= served'
    <2>1. UNCHANGED <<served, epoch>> \/ (served' = served + 1 /\ epoch' \in {epoch, epoch + 1})
        BY ZenonT(40) DEF Next, Serve, LoginRead, LoginLocked, LoginFails, LoginRefused, LoginSucceeds,
               RefreshRead, RefreshCommit, RefreshFails, MfaVerifyRead, MfaVerifyCommit, Logout,
               RevokeOwnSession, ChangePassword, RevokeUserSessions, RevokeAll, DeleteUser,
               SweepTokens, MfaSetup, ResetUserMfa, Tick, vars
    <2> QED BY <1>0, <2>1 DEF HistoryInv, TypeOK
<1>2. origin' \in [Token -> Origins]
    <2>1. CASE RowsEnd  BY <1>0, <2>1 DEF RowsEnd, HistoryInv
    <2>2. ASSUME NEW r \in Req, LoginSucceeds(r) \/ RefreshCommit(r)
          PROVE  origin' \in [Token -> Origins]
        BY <1>0, <2>2, Births, IssueKeeps
    <2> QED BY <2>1, <2>2, IssueOrEnd
<1> QED BY <1>1, <1>2 DEF HistoryInv

\* A wrong password leaves a row: the counter stays below its limit.
LEMMA FailureRow ==
    ASSUME NEW saw \in UserRow, now \in Time PROVE Failure(saw) \in UserRow
<1>1. saw.failed \in 0..MaxAttempts - 1  BY DEF UserRow
<1>2. CASE saw.failed + 1 >= MaxAttempts
    <2>1. Failure(saw) = [saw EXCEPT !.failed = 0, !.until = now + LockFor]  BY <1>2 DEF Failure
    <2>2. now + LockFor \in 0..MaxTime + LockFor /\ 0 \in 0..MaxAttempts - 1
        BY SessionsAssumption DEF Time
    <2> QED BY <2>1, <2>2 DEF UserRow
<1>3. CASE ~(saw.failed + 1 >= MaxAttempts)
    <2>1. Failure(saw) = [saw EXCEPT !.failed = @ + 1]  BY <1>3 DEF Failure
    <2>2. saw.failed + 1 \in 0..MaxAttempts - 1  BY <1>1, <1>3, SessionsAssumption
    <2> QED BY <2>1, <2>2 DEF UserRow
<1> QED BY <1>2, <1>3

\* The account: a commit of the login or of a confirmation keeps it well typed.
LEMMA StepUser == SInv /\ [Next]_vars => user' \in UserRow \union {NoUser}
<1> SUFFICES ASSUME SInv, [Next]_vars PROVE user' \in UserRow \union {NoUser}  OBVIOUS
<1>0. ReqInv /\ user \in UserRow \union {NoUser} /\ now \in 0..MaxTime
    BY DEF SInv, TypeOK, Time
<1>1. CASE UNCHANGED user  BY <1>0, <1>1
<1>2. ASSUME NEW r \in Req, LoginFails(r) PROVE user' \in UserRow
    <2>1. req[r].saw \in UserRow  BY <1>0, <1>2, CopyKinds DEF LoginFails, AtLogin
    <2>2. Failure(req[r].saw) \in UserRow  BY <1>0, <2>1, FailureRow DEF Time
    <2> QED BY <1>0, <1>2, <2>1, <2>2, SaveKeeps DEF LoginFails
<1>3. ASSUME NEW r \in Req, LoginSucceeds(r) PROVE user' \in UserRow
    <2> DEFINE saw == req[r].saw
               new == [saw EXCEPT !.failed = 0, !.until = 0]
    <2>1. saw \in UserRow /\ user \in UserRow
        BY <1>0, <1>3, CopyKinds DEF LoginSucceeds, AtLogin
    <2>2. 0 \in 0..MaxAttempts - 1 /\ 0 \in 0..MaxTime + LockFor  BY SessionsAssumption
    <2> HIDE DEF saw
    <2>3. new \in UserRow  BY <2>1, <2>2 DEF UserRow
    <2>4. Save(saw, new) \/ UNCHANGED user  BY <1>3 DEF LoginSucceeds, saw
    <2> HIDE DEF new
    <2> QED BY <2>1, <2>3, <2>4, SaveKeeps
<1>4. ASSUME NEW r \in Req, MfaVerifyCommit(r), user # NoUser PROVE user' \in UserRow
    <2> DEFINE saw == req[r].saw
               new == [saw EXCEPT !.enabled = TRUE]
    <2>1. saw \in UserRow /\ user \in UserRow  BY <1>0, <1>4, CopyKinds DEF MfaVerifyCommit
    <2> HIDE DEF saw
    <2>2. new \in UserRow  BY <2>1 DEF UserRow
    <2>3. Save(saw, new)  BY <1>4 DEF MfaVerifyCommit, saw
    <2> HIDE DEF new
    <2> QED BY <2>1, <2>2, <2>3, SaveKeeps
<1>5. CASE MfaSetup
    <2>1. PICK s \in 1..MaxSecrets : user' = Setup(s)  BY <1>5 DEF MfaSetup
    <2>2. user \in UserRow /\ s \in 0..MaxSecrets  BY <1>0, <1>5 DEF MfaSetup, SignedIn
    <2> QED BY <2>1, <2>2 DEF Setup, UserRow
<1>6. CASE ResetUserMfa
    <2>1. user \in UserRow /\ 0 \in 0..MaxSecrets
        BY <1>0, <1>6, SessionsAssumption DEF ResetUserMfa
    <2> QED BY <1>6, <2>1 DEF ResetUserMfa, UserRow
<1>7. CASE DeleteUser  BY <1>7 DEF DeleteUser
<1> QED BY <1>1, <1>2, <1>3, <1>4, <1>5, <1>6, <1>7
    DEF Next, LoginRead, LoginLocked, LoginRefused, RefreshRead, RefreshCommit, RefreshFails,
        MfaVerifyRead, MfaVerifyCommit, Logout, RevokeOwnSession, ChangePassword,
        RevokeUserSessions, RevokeAll, SweepTokens, Tick, vars

\* Types.
LEMMA StepTypes == SInv /\ [Next]_vars => TypeOK'
<1> SUFFICES ASSUME SInv, [Next]_vars PROVE TypeOK'  OBVIOUS
<1>0. TypeOK /\ HistoryInv  BY DEF SInv
<1>1. user' \in UserRow \union {NoUser}  BY StepUser
<1>2. now' \in Time
    <2>1. now' = now \/ (now < MaxTime /\ now' = now + 1)
        BY DEF Next, LoginRead, LoginLocked, LoginFails, LoginRefused, LoginSucceeds,
               RefreshRead, RefreshCommit, RefreshFails, MfaVerifyRead, MfaVerifyCommit, Logout,
               RevokeOwnSession, ChangePassword, RevokeUserSessions, RevokeAll, DeleteUser,
               SweepTokens, MfaSetup, ResetUserMfa, Tick, vars
    <2> QED BY <1>0, <2>1, SessionsAssumption DEF TypeOK, Time
<1>3. served' \in 0..MaxRequests
    <2>1. served' = served \/ (served < MaxRequests /\ served' = served + 1)
        BY ZenonT(40) DEF Next, Serve, LoginRead, LoginLocked, LoginFails, LoginRefused, LoginSucceeds,
               RefreshRead, RefreshCommit, RefreshFails, MfaVerifyRead, MfaVerifyCommit, Logout,
               RevokeOwnSession, ChangePassword, RevokeUserSessions, RevokeAll, DeleteUser,
               SweepTokens, MfaSetup, ResetUserMfa, Tick, vars
    <2> QED BY <1>0, <2>1, SessionsAssumption DEF TypeOK
<1>4. epoch' \in 0..MaxRequests
    <2>1. epoch' <= served'  BY StepHistory DEF HistoryInv
    <2>2. epoch' = epoch \/ epoch' = epoch + 1
        BY DEF Next, LoginRead, LoginLocked, LoginFails, LoginRefused, LoginSucceeds,
               RefreshRead, RefreshCommit, RefreshFails, MfaVerifyRead, MfaVerifyCommit, Logout,
               RevokeOwnSession, ChangePassword, RevokeUserSessions, RevokeAll, DeleteUser,
               SweepTokens, MfaSetup, ResetUserMfa, Tick, vars
    <2> QED BY <1>0, <1>3, <2>1, <2>2, SessionsAssumption DEF TypeOK
<1>5. /\ minted' \in 0..MaxTokens
      /\ rows' \in [Token -> TokenRow \union {NoRow}]
      /\ \A j \in Token : j > minted' => rows'[j] = NoRow
    <2>1. CASE RowsEnd  BY <1>0, <2>1 DEF RowsEnd, TypeOK
    <2>2. ASSUME NEW r \in Req, LoginSucceeds(r) \/ RefreshCommit(r)
          PROVE  /\ minted' \in 0..MaxTokens
                 /\ rows' \in [Token -> TokenRow \union {NoRow}]
                 /\ \A j \in Token : j > minted' => rows'[j] = NoRow
        <3>1. /\ minted + 1 \in Token /\ minted' = minted + 1
              /\ rows' \in [Token -> TokenRow \union {NoRow}]
              /\ \A j \in Token : j > minted' => rows'[j] = NoRow
            BY <1>0, <2>2, Births, IssueKeeps
        <3> QED BY <3>1, SessionsAssumption DEF Token
    <2> QED BY <2>1, <2>2, IssueOrEnd
<1>6. access' \in 0..MaxTime + AccessTtl
    <2>1. CASE UNCHANGED access  BY <1>0, <2>1 DEF TypeOK
    <2>2. ASSUME NEW r \in Req, LoginSucceeds(r) \/ RefreshCommit(r)
          PROVE  access' \in 0..MaxTime + AccessTtl
        BY <1>0, <2>2, Births, IssueKeeps
    <2> QED BY <2>1, <2>2
        DEF Next, LoginRead, LoginLocked, LoginFails, LoginRefused, RefreshRead, RefreshFails,
            MfaVerifyRead, MfaVerifyCommit, Logout, RevokeOwnSession, ChangePassword,
            RevokeUserSessions, RevokeAll, DeleteUser, SweepTokens, MfaSetup, ResetUserMfa,
            Tick, vars
<1> QED BY <1>1, <1>2, <1>3, <1>4, <1>5, <1>6 DEF TypeOK

\* The second factor: only a confirmation enables one, and it proves the secret
\* it has read or marks the one it finds as overtaken.
LEMMA StepFactor == SInv /\ [Next]_vars => FactorProven'
<1> SUFFICES ASSUME SInv, [Next]_vars PROVE FactorProven'  OBVIOUS
<1>0. ReqInv /\ user \in UserRow \union {NoUser} /\ FactorProven  BY DEF SInv, TypeOK
<1> USE DEF FactorProven
<1>1. ASSUME user # NoUser => user'.enabled = user.enabled /\ user'.secret = user.secret,
             UNCHANGED <<proven, overtaken>>, user' # NoUser => user # NoUser
      PROVE  FactorProven'
    BY <1>0, <1>1
<1>2. ASSUME NEW r \in Req, LoginFails(r) PROVE FactorProven'
    <2> DEFINE saw == req[r].saw
    <2>1. saw \in UserRow /\ user \in UserRow
        BY <1>0, <1>2, CopyKinds DEF LoginFails, AtLogin
    <2>2. Save(saw, Failure(saw))  BY <1>2 DEF LoginFails
    <2> HIDE DEF saw
    <2>3. /\ Failure(saw).enabled = saw.enabled /\ Failure(saw).secret = saw.secret
        BY <2>1 DEF Failure, UserRow
    <2>4. user' = [c \in DOMAIN user |-> IF Failure(saw)[c] = saw[c] THEN user[c] ELSE Failure(saw)[c]]
        BY <2>2 DEF Save
    <2>5. user'.enabled = user.enabled /\ user'.secret = user.secret
        BY <2>1, <2>3, <2>4 DEF UserRow
    <2> QED BY <1>1, <1>2, <2>5 DEF LoginFails
<1>3. ASSUME NEW r \in Req, LoginSucceeds(r) PROVE FactorProven'
    <2> DEFINE saw == req[r].saw
               new == [saw EXCEPT !.failed = 0, !.until = 0]
    <2>1. saw \in UserRow /\ user \in UserRow
        BY <1>0, <1>3, CopyKinds DEF LoginSucceeds, AtLogin
    <2> HIDE DEF saw
    <2>2. new.enabled = saw.enabled /\ new.secret = saw.secret  BY <2>1 DEF UserRow
    <2>3. Save(saw, new) \/ UNCHANGED user  BY <1>3 DEF LoginSucceeds, saw
    <2> HIDE DEF new
    <2>4. user'.enabled = user.enabled /\ user'.secret = user.secret
        BY <2>1, <2>2, <2>3 DEF Save, UserRow
    <2> QED BY <1>1, <1>3, <2>4 DEF LoginSucceeds
<1>4. ASSUME NEW r \in Req, MfaVerifyCommit(r), user # NoUser PROVE FactorProven'
    <2> DEFINE saw == req[r].saw
               new == [saw EXCEPT !.enabled = TRUE]
    <2>1. saw \in UserRow /\ user \in UserRow  BY <1>0, <1>4, CopyKinds DEF MfaVerifyCommit
    <2>2. /\ proven' = proven \union {saw.secret}
          /\ overtaken' = overtaken \union ({user.secret} \ {saw.secret})
        BY <1>4 DEF MfaVerifyCommit
    <2> HIDE DEF saw
    <2>3. new \in UserRow /\ new.secret = saw.secret  BY <2>1 DEF UserRow
    <2>4. Save(saw, new)  BY <1>4 DEF MfaVerifyCommit, saw
    <2> HIDE DEF new
    <2>5. user'.secret = user.secret  BY <2>1, <2>3, <2>4, SaveKeeps
    <2> QED BY <2>2, <2>5
<1>5. CASE MfaSetup
    <2>1. PICK s \in 1..MaxSecrets : user' = Setup(s)  BY <1>5 DEF MfaSetup
    <2>2. user \in UserRow  BY <1>0, <1>5 DEF MfaSetup, SignedIn
    <2>3. user'.enabled = FALSE  BY <2>1, <2>2 DEF Setup, UserRow
    <2> QED BY <2>3
<1>6. CASE ResetUserMfa
    <2>1. user'.enabled = FALSE  BY <1>0, <1>6 DEF ResetUserMfa, UserRow
    <2> QED BY <2>1
<1>7. CASE DeleteUser  BY <1>7 DEF DeleteUser
<1>8. CASE UNCHANGED <<user, proven, overtaken>>  BY <1>1, <1>8
<1> QED BY <1>2, <1>3, <1>4, <1>5, <1>6, <1>7, <1>8
    DEF Next, LoginRead, LoginLocked, LoginRefused, RefreshRead, RefreshCommit, RefreshFails,
        MfaVerifyRead, MfaVerifyCommit, Logout, RevokeOwnSession, ChangePassword,
        RevokeUserSessions, RevokeAll, SweepTokens, Tick, vars, history

-----------------------------------------------------------------------------
(* The lockout. *)

\* The counter counts, and no lock reaches further than LockFor from now: so a
\* new lock never ends before the one it replaces.
LockInv ==
    user # NoUser => (user.failed = wrong \/ raced) /\ user.until <= now + LockFor

\* A wrong password, counted or locking.
LEMMA FailureCounts ==
    ASSUME SInv, LockInv, NEW r \in Req, LoginFails(r)
    PROVE  LockInv' /\ user'.until >= user.until
<1> DEFINE saw == req[r].saw
           new == Failure(saw)
           full == saw.failed + 1 >= MaxAttempts
<1>1. /\ user \in UserRow /\ saw \in UserRow /\ now \in Time
      /\ user.failed = wrong \/ raced
      /\ user.until <= now + LockFor
    BY CopyKinds DEF SInv, TypeOK, LoginFails, AtLogin, LockInv
<1>2. /\ Save(saw, new) /\ now' = now
      /\ wrong' = IF full THEN 0 ELSE wrong + 1
      /\ raced' = (saw.failed # user.failed \/ (raced /\ ~full))
    BY DEF LoginFails
<1>3. /\ new.failed = IF full THEN 0 ELSE saw.failed + 1
      /\ new.until = IF full THEN now + LockFor ELSE saw.until
    BY <1>1 DEF Failure, UserRow
<1>4. new \in UserRow  BY <1>1, FailureRow
<1>5. saw.failed \in Nat /\ user.failed \in Nat /\ user.until \in Nat /\ now + LockFor \in Nat
    BY <1>1, SessionsAssumption DEF UserRow, Time
<1> HIDE DEF saw, new, full
<1>6. /\ user'.failed = IF new.failed = saw.failed THEN user.failed ELSE new.failed
      /\ user'.until = IF new.until = saw.until THEN user.until ELSE new.until
    BY <1>1, <1>2, <1>4, SaveKeeps
<1>7. user'.until = user.until \/ user'.until = now + LockFor  BY <1>3, <1>6
<1>8. ASSUME saw.failed = user.failed, ~raced \/ full PROVE user'.failed = wrong'
    BY <1>1, <1>2, <1>3, <1>5, <1>6, <1>8
<1>9. user'.failed = wrong' \/ raced'  BY <1>2, <1>8
<1> QED BY <1>1, <1>2, <1>5, <1>7, <1>9 DEF LockInv

\* A login with a second factor, which starts counting anew.
LEMMA SuccessClears ==
    ASSUME SInv, LockInv, NEW r \in Req, LoginSucceeds(r), req[r].saw.enabled
    PROVE  LockInv'
<1> DEFINE saw == req[r].saw
           new == [saw EXCEPT !.failed = 0, !.until = 0]
<1>1. user \in UserRow /\ saw \in UserRow /\ now \in Time /\ user.until <= now + LockFor
    BY CopyKinds DEF SInv, TypeOK, LoginSucceeds, AtLogin, LockInv
<1>2. Save(saw, new) /\ now' = now /\ wrong' = 0 /\ raced' = (saw.failed # user.failed)
    BY DEF LoginSucceeds
<1> HIDE DEF saw
<1>3. new.failed = 0 /\ new.until = 0  BY <1>1 DEF UserRow
<1>4. new \in UserRow
    <2>1. 0 \in 0..MaxAttempts - 1 /\ 0 \in 0..MaxTime + LockFor  BY SessionsAssumption
    <2> QED BY <1>1, <2>1 DEF UserRow
<1>5. now + LockFor \in Nat  BY <1>1, SessionsAssumption DEF Time
<1> HIDE DEF new
<1>6. /\ user'.failed = IF new.failed = saw.failed THEN user.failed ELSE new.failed
      /\ user'.until = IF new.until = saw.until THEN user.until ELSE new.until
    BY <1>1, <1>2, <1>4, SaveKeeps
<1>7. user'.failed = wrong' \/ raced'  BY <1>2, <1>3, <1>6
<1>8. user'.until <= now + LockFor  BY <1>1, <1>3, <1>5, <1>6
<1> QED BY <1>2, <1>7, <1>8 DEF LockInv

\* Nothing else touches the counter or the lock.
LEMMA LoginAlone ==
    ASSUME SInv, [Next]_vars, user # NoUser, user' # NoUser,
           ~ \E r \in Req : LoginFails(r),
           ~ \E r \in Req : LoginSucceeds(r) /\ req[r].saw.enabled
    PROVE  user'.failed = user.failed /\ user'.until = user.until /\ UNCHANGED <<wrong, raced>>
<1>0. user \in UserRow /\ ReqInv  BY DEF SInv, TypeOK
<1>1. CASE UNCHANGED <<user, wrong, raced>>  BY <1>1
<1>2. ASSUME NEW r \in Req, MfaVerifyCommit(r)
      PROVE  user'.failed = user.failed /\ user'.until = user.until
    <2> DEFINE saw == req[r].saw
               new == [saw EXCEPT !.enabled = TRUE]
    <2>1. saw \in UserRow  BY <1>0, <1>2, CopyKinds DEF MfaVerifyCommit
    <2>2. Save(saw, new)  BY <1>2 DEF MfaVerifyCommit
    <2> HIDE DEF saw
    <2>3. new \in UserRow /\ new.failed = saw.failed /\ new.until = saw.until
        BY <2>1 DEF UserRow
    <2> HIDE DEF new
    <2> QED BY <1>0, <2>1, <2>2, <2>3, SaveKeeps
<1>3. CASE MfaSetup  BY <1>0, <1>3 DEF MfaSetup, Setup, UserRow, history
<1>4. CASE ResetUserMfa  BY <1>0, <1>4 DEF ResetUserMfa, UserRow, history
<1>5. CASE DeleteUser  BY <1>5 DEF DeleteUser
<1>6. ASSUME NEW r \in Req, LoginSucceeds(r) PROVE UNCHANGED <<user, wrong, raced>>
    BY <1>6 DEF LoginSucceeds
<1>7. \A r \in Req : MfaVerifyCommit(r) => UNCHANGED <<wrong, raced>>
    BY DEF MfaVerifyCommit
<1> QED BY <1>1, <1>2, <1>3, <1>4, <1>5, <1>6, <1>7
    DEF Next, LoginRead, LoginLocked, LoginRefused, RefreshRead, RefreshCommit, RefreshFails,
        MfaVerifyRead, Logout, RevokeOwnSession, ChangePassword, RevokeUserSessions, RevokeAll,
        SweepTokens, Tick, vars, history

\* An account that was deleted does not come back.
LEMMA DeletedForGood == [Next]_vars /\ user = NoUser => user' = NoUser
BY DEF Next, LoginRead, LoginLocked, LoginFails, LoginRefused, LoginSucceeds, RefreshRead,
       RefreshCommit, RefreshFails, MfaVerifyRead, MfaVerifyCommit, Logout, RevokeOwnSession,
       ChangePassword, RevokeUserSessions, RevokeAll, DeleteUser, SweepTokens, MfaSetup,
       ResetUserMfa, SignedIn, Tick, vars

LEMMA TimeForward == [Next]_vars => now' = now \/ now' = now + 1
BY DEF Next, LoginRead, LoginLocked, LoginFails, LoginRefused, LoginSucceeds, RefreshRead,
       RefreshCommit, RefreshFails, MfaVerifyRead, MfaVerifyCommit, Logout, RevokeOwnSession,
       ChangePassword, RevokeUserSessions, RevokeAll, DeleteUser, SweepTokens, MfaSetup,
       ResetUserMfa, Tick, vars

LEMMA StepLock == SInv /\ LockInv /\ [Next]_vars => LockInv'
<1> SUFFICES ASSUME SInv, LockInv, [Next]_vars, user' # NoUser PROVE LockInv'  BY DEF LockInv
<1>0. user # NoUser  BY DeletedForGood
<1>1. CASE \E r \in Req : LoginFails(r)  BY <1>1, FailureCounts
<1>2. CASE \E r \in Req : LoginSucceeds(r) /\ req[r].saw.enabled  BY <1>2, SuccessClears
<1>3. ASSUME ~ \E r \in Req : LoginFails(r),
             ~ \E r \in Req : LoginSucceeds(r) /\ req[r].saw.enabled
      PROVE  LockInv'
    <2>1. user'.failed = user.failed /\ user'.until = user.until /\ UNCHANGED <<wrong, raced>>
        BY <1>0, <1>3, LoginAlone
    <2>2. user \in UserRow /\ now \in Nat /\ now' \in Nat
        BY <1>0, StepTypes DEF SInv, TypeOK, Time
    <2>3. now' >= now  BY <2>2, TimeForward
    <2>4. user.until \in Nat  BY <2>2 DEF UserRow
    <2>5. user'.until <= now' + LockFor
        BY <1>0, <2>1, <2>2, <2>3, <2>4, SessionsAssumption DEF LockInv
    <2> QED BY <1>0, <2>1, <2>5 DEF LockInv
<1> QED BY <1>1, <1>2, <1>3

\* Only a login begins a session that stems from no other.
LEMMA NewSessions ==
    ASSUME SInv, [Next]_vars, minted' > minted, origin'[minted'].parent = 0
    PROVE  \E r \in Req : LoginSucceeds(r)
<1>0. /\ TypeOK /\ HistoryInv /\ ReqInv /\ minted \in Nat
      /\ rows \in [Token -> TokenRow \union {NoRow}]
    BY DEF SInv, TypeOK
<1>1. ~RowsEnd  BY <1>0 DEF RowsEnd
<1>2. ASSUME NEW r \in Req, RefreshCommit(r) PROVE FALSE
    <2>1. req[r] \in [op : {"refresh"}, j : Token, saw : TokenRow, seen : 0..MaxRequests]
        BY <1>0, <1>2, CopyKinds DEF RefreshCommit
    <2>2. req[r].j # 0  BY <2>1 DEF Token
    <2>3. minted' = minted + 1 /\ minted + 1 \in Token
        <3>1. minted < MaxTokens /\ minted' = minted + 1  BY <1>2 DEF RefreshCommit, Issue
        <3> QED BY <1>0, <3>1, SessionsAssumption DEF Token
    <2>4. origin'[minted + 1].parent = req[r].j
        BY <1>0, <1>2, <2>3 DEF RefreshCommit, Issue, HistoryInv
    <2> QED BY <2>2, <2>3, <2>4
<1> QED BY <1>1, <1>2, IssueOrEnd

\* The action of LockHolds.
LEMMA StepHolds ==
    ASSUME SInv, LockInv, [Next]_vars, user # NoUser, user' # NoUser, user.until > now
    PROVE  /\ minted' > minted /\ origin'[minted'].parent = 0
               => \E r \in Req : AtLogin(r) /\ req'[r] = Idle /\ req[r].saw.until # user.until
           /\ user'.until < user.until
               => \E r \in Req : AtLogin(r) /\ req'[r] = Idle /\ req[r].saw.enabled
<1>0. req \in [Req -> Copies] /\ user \in UserRow  BY DEF SInv, ReqInv, TypeOK
<1>1. \A r \in Req : LoginSucceeds(r) => AtLogin(r) /\ req'[r] = Idle /\ ~Locked(req[r].saw)
    BY <1>0 DEF LoginSucceeds, Done
<1>2. ASSUME minted' > minted, origin'[minted'].parent = 0
      PROVE  \E r \in Req : AtLogin(r) /\ req'[r] = Idle /\ req[r].saw.until # user.until
    <2>1. PICK r \in Req : LoginSucceeds(r)  BY <1>2, NewSessions
    <2> QED BY <1>1, <2>1 DEF Locked
<1>3. ASSUME user'.until < user.until
      PROVE  \E r \in Req : AtLogin(r) /\ req'[r] = Idle /\ req[r].saw.enabled
    <2>1. user.until \in Int /\ user'.until \in Int
        BY <1>0, StepTypes DEF TypeOK, UserRow
    <2>2. ~ \E r \in Req : LoginFails(r)  BY <1>3, <2>1, FailureCounts
    <2>3. user'.until # user.until  BY <1>3, <2>1
    <2>4. \E r \in Req : LoginSucceeds(r) /\ req[r].saw.enabled  BY <2>2, <2>3, LoginAlone
    <2> QED BY <1>1, <2>4
<1> QED BY <1>2, <1>3

-----------------------------------------------------------------------------
(* The theorems. *)

\* SInv is inductive: types, copies, and what is known of every token's parent,
\* epoch and row.
THEOREM SessionsInductive == Spec => []SInv
<1>1. Init => SInv  BY InitSessions
<1>2. SInv /\ [Next]_vars => SInv'
    BY StepTypes, StepReq, StepHistory, StepRows, StepFactor DEF SInv
<1> QED BY <1>1, <1>2, PTL DEF Spec

\* The state of the accounts and sessions is well typed.
THEOREM SessionsTypeCorrect == Spec => []TypeOK
<1>1. SInv => TypeOK  BY DEF SInv
<1> QED BY <1>1, SessionsInductive, PTL

\* A refresh token has one successor, unless two uses overlapped (auth.py refresh).
THEOREM SuccessorUnique == Spec => []OneSuccessor
<1>1. SInv => OneSuccessor  BY DEF SInv
<1> QED BY <1>1, SessionsInductive, PTL

\* What was active when all sessions were ended stays ended (auth.py
\* change_password, users.py revoke_user_sessions).
THEOREM SignOutFinal == Spec => []SignOutHolds
<1>1. SInv => SignOutHolds
    BY DEF SInv, SignedOutInv, SignOutHolds, user_sessions, Active
<1> QED BY <1>1, SessionsInductive, PTL

\* An enabled second factor was shown to be possessed, or was overtaken
\* (auth.py mfa_setup, mfa_verify).
THEOREM FactorPossessed == Spec => []FactorProven
<1>1. SInv => FactorProven  BY DEF SInv
<1> QED BY <1>1, SessionsInductive, PTL

\* The lockout counts what it should, lets no later login in, and is lifted by
\* nothing but a second factor (auth.py login).
THEOREM LockoutKept == Spec => LockoutHolds
<1> DEFINE Held == user # NoUser /\ user' # NoUser /\ user.until > now
        => /\ minted' > minted /\ origin'[minted'].parent = 0
               => \E r \in Req : AtLogin(r) /\ req'[r] = Idle /\ req[r].saw.until # user.until
           /\ user'.until < user.until
               => \E r \in Req : AtLogin(r) /\ req'[r] = Idle /\ req[r].saw.enabled
<1>1. Init => LockInv  BY SessionsAssumption DEF Init, LockInv
<1>2. SInv /\ LockInv /\ [Next]_vars => LockInv'  BY StepLock
<1>3. LockInv => LockoutCounts  BY DEF LockInv, LockoutCounts
<1>4. SInv /\ LockInv /\ [Next]_vars => [Held]_vars  BY StepHolds
<1>5. Spec => []LockInv  BY <1>1, <1>2, SessionsInductive, PTL DEF Spec
<1>6. Spec => [][Held]_vars  BY <1>4, <1>5, SessionsInductive, PTL DEF Spec
<1>7. LockHolds <=> [][Held]_vars  BY DEF LockHolds
<1> QED BY <1>3, <1>5, <1>6, <1>7, PTL DEF LockoutHolds

=============================================================================
