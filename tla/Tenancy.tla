------------------------------ MODULE Tenancy ------------------------------
(***************************************************************************)
(* Who a request acts for: the default tenant and its administrator, which *)
(* every API process seeds when it starts, logins, the context of a        *)
(* request, and the sender accounts that requests register.                *)
(*                                                                         *)
(* Every statement reads what is committed (READ COMMITTED).  An insert    *)
(* waits for an uncommitted one with the same key and fails if that one    *)
(* commits.  There is one tenant, one administrator and one address to     *)
(* register: rows with other keys are of no concern to these.  The tables  *)
(* exist; passwords and signatures are right.                              *)
(***************************************************************************)
EXTENDS Integers, FiniteSets

CONSTANTS
    Processes,      \* the API's processes
    Logins, Requests,   \* requests to log in and to register the account,
                        \* each made once
    Ids,            \* what the sequence of organization ids may yield
    None,
    MaxFaults,      \* bound: statements that fail while a process seeds
    MaxCrashes      \* bound: processes that die

ASSUME TenancyAssumption == Ids \subseteq Nat \ {0} /\ None \notin Requests

VARIABLES
    org, user, member,      \* the tenant's rows: the organization's id or 0,
                            \* whether there is an administrator, a membership
    pc, newOrg, newUser,    \* a process that starts, and what it has inserted
    faults, crashes,
    login, tokens,          \* where a login is; the tokens issued so far
    at, ctx,                \* where a request is, the organization it acts for
    account         \* the request whose credentials the account has, or None

tenant == <<org, user, member>>
startup == <<pc, newOrg, newUser, faults, crashes>>
auth == <<login, tokens>>
requests == <<at, ctx, account>>
vars == <<tenant, startup, auth, requests>>

\* The first start of all, or one of a database that has been seeded.
Init ==
    /\ org \in Ids \cup {0}
    /\ user = (org # 0)
    /\ member = (org # 0)
    /\ pc = [p \in Processes |-> "down"]
    /\ newOrg = [p \in Processes |-> 0]
    /\ newUser = [p \in Processes |-> FALSE]
    /\ faults = 0 /\ crashes = 0
    /\ login = [l \in Logins |-> "new"]
    /\ tokens = {}
    /\ at = [r \in Requests |-> "new"]
    /\ ctx = [r \in Requests |-> 0]
    /\ account = None

-----------------------------------------------------------------------------
(* init_db: one transaction per process, before it serves                  *)

Goto(p, label) == pc' = [pc EXCEPT ![p] = label]

\* The transaction ends without a commit: its inserts never were.
Discard(p) ==
    /\ newOrg' = [newOrg EXCEPT ![p] = 0]
    /\ newUser' = [newUser EXCEPT ![p] = FALSE]

Start(p) ==
    /\ pc[p] = "down"
    /\ Goto(p, "findOrg")
    /\ UNCHANGED <<tenant, newOrg, newUser, faults, crashes, auth, requests>>

AfterFindOrgSkipping(p) ==      \* mutant: leaves the seed to one that is at it
    IF org # 0 THEN "findUser"
    ELSE IF \E q \in Processes : newOrg[q] # 0 THEN "serving" ELSE "insertOrg"
AfterFindOrg(p) == IF org # 0 THEN "findUser" ELSE "insertOrg"

FindOrg(p) ==
    /\ pc[p] = "findOrg"
    /\ Goto(p, AfterFindOrg(p))
    /\ UNCHANGED <<tenant, newOrg, newUser, faults, crashes, auth, requests>>

OrgIsFree(p) == \A q \in Processes \ {p} : newOrg[q] = 0
UserIsFree(p) == \A q \in Processes \ {p} : ~newUser[q]

\* After a conflict the process serves what the other one has seeded.
AfterConflictAgain == "insertOrg"   \* mutant: tries to insert once more
AfterConflict == "serving"

InsertOrg(p) ==
    /\ pc[p] = "insertOrg"
    /\ OrgIsFree(p)
    /\ IF org = 0
       THEN /\ \E id \in Ids : newOrg' = [newOrg EXCEPT ![p] = id]
            /\ Goto(p, "findUser")
            /\ UNCHANGED newUser
       ELSE Discard(p) /\ Goto(p, AfterConflict)
    /\ UNCHANGED <<tenant, faults, crashes, auth, requests>>

FindUser(p) ==
    /\ pc[p] = "findUser"
    /\ Goto(p, IF user THEN "commit" ELSE "insertUser")
    /\ UNCHANGED <<tenant, newOrg, newUser, faults, crashes, auth, requests>>

\* The user is flushed, for the id that the membership needs, not committed.
UserOnceFlushedEarly(p) == TRUE     \* mutant: commits instead
UserOnceFlushed(p) == user

InsertUser(p) ==
    /\ pc[p] = "insertUser"
    /\ UserIsFree(p)
    /\ IF user
       THEN Discard(p) /\ Goto(p, AfterConflict) /\ UNCHANGED user
       ELSE /\ newUser' = [newUser EXCEPT ![p] = TRUE]
            /\ user' = UserOnceFlushed(p)
            /\ Goto(p, "commit")
            /\ UNCHANGED newOrg
    /\ UNCHANGED <<org, member, faults, crashes, auth, requests>>

\* The membership is inserted by the commit, with the user.
SeedCommit(p) ==
    /\ pc[p] = "commit"
    /\ org' = IF newOrg[p] # 0 THEN newOrg[p] ELSE org
    /\ user' = (user \/ newUser[p])
    /\ member' = (member \/ newUser[p])
    /\ Discard(p)
    /\ Goto(p, "serving")
    /\ UNCHANGED <<faults, crashes, auth, requests>>

\* An error of the database is taken for a concurrent seed.
SeedFault(p) ==
    /\ pc[p] \notin {"down", "serving"}
    /\ faults < MaxFaults
    /\ faults' = faults + 1
    /\ Discard(p)
    /\ Goto(p, "serving")
    /\ UNCHANGED <<tenant, crashes, auth, requests>>

Crash(p) ==
    /\ pc[p] # "down"
    /\ crashes < MaxCrashes
    /\ crashes' = crashes + 1
    /\ Discard(p)
    /\ Goto(p, "down")
    /\ UNCHANGED <<tenant, faults, auth, requests>>

-----------------------------------------------------------------------------
(* Logins and the context of a request                                     *)

Serving == \E p \in Processes : pc[p] = "serving"

\* POST /auth/login by the administrator: the user, then the membership.
ReadUser(l) ==
    /\ login[l] = "new" /\ Serving
    /\ login' = [login EXCEPT ![l] = IF user THEN "membership" ELSE "refused"]
    /\ UNCHANGED <<tenant, startup, tokens, requests>>

\* create_access_token: the claims that a later request is judged by.
Payload(id, role) == [org |-> id, role |-> role]

IssueToken(l) ==
    /\ login[l] = "membership"
    /\ tokens' = tokens \cup {IF member THEN Payload(org, "owner") ELSE Payload(1, "member")}
    /\ login' = [login EXCEPT ![l] = "issued"]
    /\ UNCHANGED <<tenant, startup, requests>>

\* get_auth_context, with a token or the API key, and require_roles.
KeyContext == [org |-> IF org = 0 THEN 1 ELSE org, role |-> "admin"]

Authorize(r) ==
    /\ at[r] = "new" /\ Serving
    /\ \E context \in tokens \cup {KeyContext} :
          IF context.role \in {"owner", "admin"}
          THEN /\ at' = [at EXCEPT ![r] = "find"]
               /\ ctx' = [ctx EXCEPT ![r] = context.org]
          ELSE at' = [at EXCEPT ![r] = "refused"] /\ UNCHANGED ctx
    /\ UNCHANGED <<tenant, startup, auth, account>>

\* The process dies, or a statement fails.
Abort(r) ==
    /\ at[r] \in {"find", "save"}
    /\ at' = [at EXCEPT ![r] = "aborted"]
    /\ UNCHANGED <<tenant, startup, auth, ctx, account>>

-----------------------------------------------------------------------------
(* POST /accounts/add                                                      *)

FindAccount(r) ==
    /\ at[r] = "find"
    /\ at' = [at EXCEPT ![r] = IF account # None /\ ctx[r] = org THEN "exists" ELSE "save"]
    /\ UNCHANGED <<tenant, startup, auth, ctx, account>>

\* The foreign key to the organization and uq_org_account_email.
MayInsertUpsert(r) == ctx[r] = org      \* mutant: ON CONFLICT DO UPDATE
MayInsert(r) == ctx[r] = org /\ account = None

InsertAccount(r) ==
    /\ at[r] = "save"
    /\ IF MayInsert(r)
       THEN account' = r /\ at' = [at EXCEPT ![r] = "added"]
       ELSE at' = [at EXCEPT ![r] = "conflict"] /\ UNCHANGED account
    /\ UNCHANGED <<tenant, startup, auth, ctx>>

-----------------------------------------------------------------------------
Seed(p) == FindOrg(p) \/ InsertOrg(p) \/ FindUser(p) \/ InsertUser(p) \/ SeedCommit(p)

Next ==
    \/ \E p \in Processes : Start(p) \/ Seed(p) \/ SeedFault(p) \/ Crash(p)
    \/ \E l \in Logins : ReadUser(l) \/ IssueToken(l)
    \/ \E r \in Requests : Authorize(r) \/ Abort(r) \/ FindAccount(r) \/ InsertAccount(r)

Spec == Init /\ [][Next]_vars

\* A process that has begun to start goes on.
FairSpec == Spec /\ \A p \in Processes : WF_vars(Seed(p))

-----------------------------------------------------------------------------
(* Properties                                                              *)

Starting == {"findOrg", "insertOrg", "findUser", "insertUser", "commit"}

\* Type invariant.
TypeOK ==
    /\ org \in Ids \cup {0} /\ user \in BOOLEAN /\ member \in BOOLEAN
    /\ pc \in [Processes -> Starting \cup {"down", "serving"}]
    /\ newOrg \in [Processes -> Ids \cup {0}]
    /\ newUser \in [Processes -> BOOLEAN]
    /\ faults \in Nat /\ crashes \in Nat
    /\ login \in [Logins -> {"new", "membership", "issued", "refused"}]
    /\ tokens \subseteq [org: Ids \cup {0, 1}, role: {"owner", "member"}]
    /\ at \in [Requests -> {"new", "find", "save", "refused", "aborted", "conflict",
                            "exists", "added"}]
    /\ ctx \in [Requests -> Ids \cup {0, 1}]
    /\ account \in Requests \cup {None}

\* However many processes seed at once, fail or die on the way, the
\* organization, its administrator and the membership are there together or
\* not at all (database.py:97-134).
TenantIsWhole == user = (org # 0) /\ member = (org # 0)

\* A process that takes a conflict for somebody else's seed is right: unless a
\* statement failed, whoever serves finds the tenant (database.py:133-134).
ServingMeansSeeded == Serving /\ faults = 0 => org # 0

\* The administrator's token names the tenant and the role of its owner, though
\* user and membership are read one after the other (routes.py:137-146).
TokensAreOwners ==
    \A t \in tokens : org # 0 /\ t = [org |-> org, role |-> "owner"]

\* The request that is told "added" is the one whose credentials are stored,
\* and stays so: no other one is told so, whatever the look-ups missed
\* (routes.py:613-639).
CredentialsAreMine == \A r \in Requests : at[r] = "added" => account = r

\* No process waits for ever for another one's uncommitted seed: each that
\* starts will serve, or dies (database.py:98-134).
ProcessesServe == \A p \in Processes : pc[p] \in Starting ~> pc[p] \in {"serving", "down"}
=============================================================================
