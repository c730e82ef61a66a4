------------------------------ MODULE Bootstrap ------------------------------
(***************************************************************************)
(* The start of the API and of the worker (apps/api/bootstrap.py).  Both     *)
(* call build, and with it create the tables, add the columns of later       *)
(* releases, and seed roles, permissions and the first account: two          *)
(* processes may do so at once, on a database that is empty, old or current. *)
(* Seeding is one transaction: it reads, and its commit fails if a row it     *)
(* inserts is there or a row it deletes is gone.  A process that raises       *)
(* exits, and is started again.  Accounts are managed once the API serves     *)
(* (apps/api/routers/users.py).                                              *)
(***************************************************************************)
EXTENDS Integers, FiniteSets, Sequences

CONSTANTS
    Grants,     \* ROLE_PERMISSIONS: pairs of a role and a permission
    OldGrants,  \* pairs an earlier release stored
    Columns,    \* a sequence: the columns _ensure_columns adds
    Account,    \* e-mail addresses; "bootstrap" is bootstrap_admin_email
    MaxChanges  \* bound: accounts operators create and delete

ASSUME BootstrapAssumption ==
    /\ IsFiniteSet(Grants \union OldGrants)
    /\ "bootstrap" \in Account
    /\ Columns \in Seq(STRING)
    /\ MaxChanges \in Nat

VARIABLES
    tables,     \* create_all has been done
    columns,    \* those of Columns the tables have
    grants,     \* rows of role_permissions, with their roles and permissions
    users,      \* User rows
    boot,       \* process -> how far its build is, and what it has read
    changes,    \* accounts created and deleted so far
    emptied     \* history: operators have removed every account

database == <<tables, columns, grants, users>>
operated == <<changes, emptied>>
bootVars == <<database, boot, operated>>

\* A role, one of its permissions, and the row that joins them.
RolePermission == Grants \union OldGrants

Process == {"api", "worker"}
All == {Columns[i] : i \in DOMAIN Columns}
Down == [pc |-> "down"]
At(p, pc) == boot[p].pc = pc
Go(p, state) == boot' = [boot EXCEPT ![p] = state]

BootInit ==
    /\ tables \in BOOLEAN
    /\ columns \in IF tables THEN SUBSET All ELSE {{}}
    /\ grants \in IF tables THEN {OldGrants, Grants} ELSE {{}}
    /\ users \in IF tables THEN {{}, Account \ {"bootstrap"}} ELSE {{}}
    /\ boot = [p \in Process |-> Down]
    /\ changes = 0 /\ emptied = FALSE

-----------------------------------------------------------------------------
(* build: init_db, then seed *)

build(p) ==
    /\ At(p, "down")
    /\ Go(p, [pc |-> "checking"])
    /\ UNCHANGED <<database, operated>>

\* create_all looks which tables there are, and creates those missing.
CheckTables(p) ==
    /\ At(p, "checking")
    /\ Go(p, IF tables THEN [pc |-> "column", n |-> 1] ELSE [pc |-> "creating"])
    /\ UNCHANGED <<database, operated>>

\* Another process may have created them in between: CREATE TABLE raises.
CreateTables(p) ==
    /\ At(p, "creating")
    /\ IF tables
       THEN Go(p, Down) /\ UNCHANGED <<tables, columns>>
       ELSE tables' = TRUE /\ columns' = All /\ Go(p, [pc |-> "column", n |-> 1])
    /\ UNCHANGED <<grants, users, operated>>

\* Faulty variant: a column that is there already is an error.
AddColumnOnce(p, c) == c \notin columns

\* Whether ALTER TABLE lets the start go on: "duplicate column" is swallowed.
AddColumn(p, c) == TRUE

EnsureColumn(p) ==
    /\ At(p, "column")
    /\ LET n == boot[p].n
       IN  IF n > Len(Columns) THEN Go(p, [pc |-> "reading"]) /\ UNCHANGED columns
           ELSE /\ columns' = columns \union {Columns[n]}
                /\ Go(p, IF AddColumn(p, Columns[n]) THEN [pc |-> "column", n |-> n + 1] ELSE Down)
    /\ UNCHANGED <<tables, grants, users, operated>>

\* What seed is going to write: the built-in roles get exactly the permissions
\* of this release, and an account is made if there is none.
SeedReads(p) ==
    /\ At(p, "reading")
    /\ Go(p, [pc |-> "seeding",
              add |-> Grants \ grants, drop |-> grants \ Grants,
              accounts |-> IF users = {} THEN {"bootstrap"} ELSE {}])
    /\ UNCHANGED <<database, operated>>

Conflict(s) ==
    \/ s.add \intersect grants # {}
    \/ ~(s.drop \subseteq grants)
    \/ s.accounts \intersect users # {}

SeedCommits(p) ==
    /\ At(p, "seeding")
    /\ LET s == boot[p]
       IN  IF Conflict(s)
           THEN Go(p, Down) /\ UNCHANGED <<grants, users, emptied>>
           ELSE /\ grants' = (grants \ s.drop) \union s.add
                /\ users' = users \union s.accounts
                /\ emptied' = (emptied /\ s.accounts = {})
                /\ Go(p, [pc |-> "up"])
    /\ UNCHANGED <<tables, columns, changes>>

BootStep(p) ==
    build(p) \/ CheckTables(p) \/ CreateTables(p) \/ EnsureColumn(p) \/ SeedReads(p) \/ SeedCommits(p)

\* The process has ended.
ProcessEnds(p) == Go(p, Down) /\ UNCHANGED <<database, operated>>

-----------------------------------------------------------------------------
(* users.py: whoever may manage users has an account. *)

Serving == At("api", "up")

Change == Serving /\ changes < MaxChanges /\ changes' = changes + 1

create_user(u) ==
    /\ Change /\ users # {}
    /\ u \notin users
    /\ users' = users \union {u}
    /\ UNCHANGED <<tables, columns, grants, boot, emptied>>

\* Nothing keeps the last account, or one's own.
delete_user(u) ==
    /\ Change
    /\ u \in users
    /\ users' = users \ {u}
    /\ emptied' = (emptied \/ users' = {})
    /\ UNCHANGED <<tables, columns, grants, boot>>

-----------------------------------------------------------------------------
BootTypeOK ==
    /\ tables \in BOOLEAN /\ columns \subseteq All
    /\ grants \subseteq RolePermission /\ users \subseteq Account
    /\ \A p \in Process :
          boot[p].pc \in {"down", "checking", "creating", "column", "reading", "seeding", "up"}

\* The tables have every column, the roles their permissions, and somebody can
\* sign in.
Complete ==
    /\ tables /\ columns = All /\ grants = Grants
    /\ users # {} \/ emptied

UpComplete == \A p \in Process : At(p, "up") => Complete

\* Whoever is up works on a complete database, whichever of the two was there
\* first and whatever release had written it; and a start that lost the race
\* for a table, a row or the first account succeeds when it is tried again
\* (bootstrap.py 97-154).
StartsComplete ==
    /\ []UpComplete
    /\ \A p \in Process : At(p, "down") ~> At(p, "up")
==============================================================================
