--------------------------- MODULE Tenancy_proofs ---------------------------
(***************************************************************************)
(* Proofs about the seeding of the tenant, logins and accounts, for any    *)
(* number of processes, requests, failures and crashes.                    *)
(*                                                                         *)
(* The inductive invariant says what a process that seeds has inserted at  *)
(* each statement (Inserted): it inserts the administrator only together   *)
(* with the organization, and it is the only one that has inserted it.     *)
(* The last section is what can be proved of ProcessesServe: nobody waits  *)
(* in a circle, and no step goes back.                                     *)
(***************************************************************************)
EXTENDS Tenancy, TLAPS

\* What the transaction of a process holds; only one can hold an organization.
Inserted ==
    \A p \in Processes :
        /\ newOrg[p] # 0 =>
              /\ org = 0 /\ pc[p] \in {"findUser", "insertUser", "commit"}
              /\ \A q \in Processes : newOrg[q] # 0 => q = p
        /\ newUser[p] => newOrg[p] # 0 /\ pc[p] = "commit"
        /\ pc[p] \in {"findUser", "commit"} => newOrg[p] # 0 \/ org # 0
        /\ pc[p] = "insertUser" => newOrg[p] # 0
        /\ pc[p] = "commit" => newOrg[p] = 0 \/ newUser[p]

\* A login that found the administrator will find the membership.
LoginsFind == \A l \in Logins : login[l] = "membership" => org # 0

TInv ==
    /\ TypeOK
    /\ TenantIsWhole
    /\ Inserted
    /\ LoginsFind
    /\ ServingMeansSeeded
    /\ TokensAreOwners
    /\ CredentialsAreMine

-----------------------------------------------------------------------------
LEMMA InitTInv == Init => TInv
<1> SUFFICES ASSUME Init PROVE TInv
  OBVIOUS
<1> QED
  BY TenancyAssumption DEF Init, TInv, TypeOK, TenantIsWhole, Inserted, LoginsFind,
     ServingMeansSeeded, Serving, TokensAreOwners, CredentialsAreMine, Starting

\* Every step keeps the types.
LEMMA StepTypeOK ==
    ASSUME TypeOK, LoginsFind, TenantIsWhole, [Next]_vars
    PROVE  TypeOK'
<1> USE TenancyAssumption DEF TypeOK, Starting, Goto, Discard, AfterConflict
<1>1. ASSUME NEW p \in Processes, Start(p) \/ FindOrg(p) \/ FindUser(p)
      PROVE  TypeOK'
  BY <1>1 DEF Start, FindOrg, AfterFindOrg, FindUser, tenant, auth, requests
<1>2. ASSUME NEW p \in Processes, InsertOrg(p)
      PROVE  TypeOK'
  BY <1>2 DEF InsertOrg, tenant, auth, requests
<1>3. ASSUME NEW p \in Processes, InsertUser(p)
      PROVE  TypeOK'
  BY <1>3 DEF InsertUser, UserOnceFlushed, auth, requests
<1>4. ASSUME NEW p \in Processes, SeedCommit(p)
      PROVE  TypeOK'
  BY <1>4 DEF SeedCommit, auth, requests
<1>5. ASSUME NEW p \in Processes, SeedFault(p) \/ Crash(p)
      PROVE  TypeOK'
  <2>1. CASE SeedFault(p)
    BY <2>1 DEF SeedFault, tenant, auth, requests
  <2>2. CASE Crash(p)
    BY <2>2 DEF Crash, tenant, auth, requests
  <2> QED BY <1>5, <2>1, <2>2
<1>6. ASSUME NEW l \in Logins, ReadUser(l) \/ IssueToken(l)
      PROVE  TypeOK'
  BY <1>6 DEF ReadUser, IssueToken, Payload, tenant, startup, requests
<1>7. ASSUME NEW r \in Requests, Authorize(r)
      PROVE  TypeOK'
  BY <1>7 DEF Authorize, KeyContext, tenant, startup, auth
<1>8. ASSUME NEW r \in Requests, Abort(r) \/ FindAccount(r) \/ InsertAccount(r)
      PROVE  TypeOK'
  BY <1>8 DEF Abort, FindAccount, InsertAccount, tenant, startup, auth
<1>9. CASE UNCHANGED vars
  BY <1>9 DEF vars, tenant, startup, auth, requests
<1> QED BY <1>1, <1>2, <1>3, <1>4, <1>5, <1>6, <1>7, <1>8, <1>9 DEF Next, Seed

\* Every step keeps what the processes have inserted, and the tenant whole.
LEMMA StepInserted ==
    ASSUME TypeOK, TenantIsWhole, Inserted, [Next]_vars
    PROVE  Inserted' /\ TenantIsWhole'
<1> USE TenancyAssumption DEF TypeOK, TenantIsWhole, Inserted, Starting, Goto, Discard,
        AfterConflict
<1>1. ASSUME NEW p \in Processes, Start(p) \/ FindOrg(p)
      PROVE  Inserted' /\ TenantIsWhole'
  BY <1>1 DEF Start, FindOrg, AfterFindOrg, tenant
<1>2. ASSUME NEW p \in Processes, InsertOrg(p)
      PROVE  Inserted' /\ TenantIsWhole'
  <2>1. CASE org = 0
    BY <1>2, <2>1 DEF InsertOrg, OrgIsFree, tenant
  <2>2. CASE org # 0
    BY <1>2, <2>2 DEF InsertOrg, OrgIsFree, tenant
  <2> QED BY <2>1, <2>2
<1>3. ASSUME NEW p \in Processes, FindUser(p)
      PROVE  Inserted' /\ TenantIsWhole'
  BY <1>3, ZenonT(60) DEF FindUser, tenant
<1>4. ASSUME NEW p \in Processes, InsertUser(p)
      PROVE  Inserted' /\ TenantIsWhole'
  BY <1>4 DEF InsertUser, UserOnceFlushed
<1>5. ASSUME NEW p \in Processes, SeedCommit(p)
      PROVE  Inserted' /\ TenantIsWhole'
  <2>1. CASE newOrg[p] = 0
    BY <1>5, <2>1 DEF SeedCommit
  <2>2. CASE newOrg[p] # 0
    BY <1>5, <2>2 DEF SeedCommit
  <2> QED BY <2>1, <2>2
<1>6. ASSUME NEW p \in Processes, SeedFault(p) \/ Crash(p)
      PROVE  Inserted' /\ TenantIsWhole'
  BY <1>6 DEF SeedFault, Crash, tenant
<1>7. CASE UNCHANGED <<tenant, startup>>
  BY <1>7 DEF tenant, startup
<1>8. ASSUME NEW l \in Logins, ReadUser(l) \/ IssueToken(l)
      PROVE  UNCHANGED <<tenant, startup>>
  BY <1>8 DEF ReadUser, IssueToken, Payload
<1>9. ASSUME NEW r \in Requests, Authorize(r) \/ Abort(r) \/ FindAccount(r) \/ InsertAccount(r)
      PROVE  UNCHANGED <<tenant, startup>>
  BY <1>9 DEF Authorize, Abort, FindAccount, InsertAccount
<1>10. CASE UNCHANGED vars
  BY <1>7, <1>10 DEF vars
<1> QED BY <1>1, <1>2, <1>3, <1>4, <1>5, <1>6, <1>7, <1>8, <1>9, <1>10 DEF Next, Seed

\* An organization stays, as nothing deletes or replaces it.
LEMMA OrgStays ==
    ASSUME TypeOK, Inserted, [Next]_vars, org # 0
    PROVE  org' = org
<1>1. ASSUME NEW p \in Processes, SeedCommit(p)
      PROVE  org' = org
  BY <1>1 DEF SeedCommit, Inserted
<1>2. ASSUME NEW p \in Processes,
             Start(p) \/ FindOrg(p) \/ InsertOrg(p) \/ FindUser(p) \/ InsertUser(p)
             \/ SeedFault(p) \/ Crash(p)
      PROVE  org' = org
  BY <1>2 DEF Start, FindOrg, InsertOrg, FindUser, InsertUser, SeedFault, Crash, tenant
<1>3. ASSUME NEW l \in Logins, ReadUser(l) \/ IssueToken(l)
      PROVE  org' = org
  BY <1>3 DEF ReadUser, IssueToken, Payload, tenant
<1>4. ASSUME NEW r \in Requests, Authorize(r) \/ Abort(r) \/ FindAccount(r) \/ InsertAccount(r)
      PROVE  org' = org
  BY <1>4 DEF Authorize, Abort, FindAccount, InsertAccount, tenant
<1>5. CASE UNCHANGED vars
  BY <1>5 DEF vars, tenant
<1> QED BY <1>1, <1>2, <1>3, <1>4, <1>5 DEF Next, Seed

\* Every step keeps the tenant in reach of those who serve, log in or have.
LEMMA StepAnswers ==
    ASSUME TInv, [Next]_vars
    PROVE  LoginsFind' /\ ServingMeansSeeded' /\ TokensAreOwners'
<1> USE DEF TInv
<1>1. org # 0 => org' = org
  BY OrgStays
<1>2. LoginsFind'
  <2> SUFFICES ASSUME NEW l \in Logins, login'[l] = "membership"
               PROVE  org' # 0
    BY DEF LoginsFind
  <2>1. CASE login' = login
    BY <1>1, <2>1 DEF LoginsFind
  <2>2. ASSUME NEW k \in Logins, ReadUser(k)
        PROVE  org' # 0
    BY <1>1, <2>2 DEF ReadUser, LoginsFind, TypeOK, TenantIsWhole
  <2>3. ASSUME NEW k \in Logins, IssueToken(k)
        PROVE  org' # 0
    BY <1>1, <2>3 DEF IssueToken, Payload, LoginsFind, TypeOK
  <2>4. ASSUME NEW p \in Processes, Start(p) \/ Seed(p) \/ SeedFault(p) \/ Crash(p)
        PROVE  login' = login
    BY <2>4 DEF Start, Seed, FindOrg, InsertOrg, FindUser, InsertUser, SeedCommit, SeedFault,
                Crash, auth
  <2>5. ASSUME NEW r \in Requests, Authorize(r) \/ Abort(r) \/ FindAccount(r) \/ InsertAccount(r)
        PROVE  login' = login
    BY <2>5 DEF Authorize, Abort, FindAccount, InsertAccount, auth
  <2>6. CASE UNCHANGED vars
    BY <2>6, <2>1 DEF vars, auth
  <2> QED BY <2>1, <2>2, <2>3, <2>4, <2>5, <2>6 DEF Next
<1>3. ServingMeansSeeded'
  <2> SUFFICES ASSUME NEW p \in Processes, pc'[p] = "serving", faults' = 0
               PROVE  org' # 0
    BY DEF ServingMeansSeeded, Serving
  <2>0. pc[p] = "serving" /\ faults = 0 => org' # 0
    BY <1>1 DEF ServingMeansSeeded, Serving
  <2>1. ASSUME NEW q \in Processes, Start(q) \/ FindOrg(q) \/ FindUser(q) \/ Crash(q)
        PROVE  pc[p] = "serving" /\ faults = 0
    BY <2>1 DEF Start, FindOrg, AfterFindOrg, FindUser, Crash, Goto, TypeOK
  <2>2. ASSUME NEW q \in Processes, InsertOrg(q) \/ InsertUser(q)
        PROVE  (pc[p] = "serving" /\ faults = 0) \/ org' # 0
    BY <2>2 DEF InsertOrg, InsertUser, Goto, AfterConflict, TypeOK, TenantIsWhole, tenant
  <2>3. ASSUME NEW q \in Processes, SeedCommit(q)
        PROVE  org' # 0
    BY <2>3 DEF SeedCommit, Inserted
  <2>4. ASSUME NEW q \in Processes, SeedFault(q)
        PROVE  FALSE
    BY <2>4 DEF SeedFault, TypeOK
  <2>5. CASE UNCHANGED startup
    BY <2>0, <2>5 DEF startup
  <2>6. ASSUME NEW l \in Logins, ReadUser(l) \/ IssueToken(l)
        PROVE  UNCHANGED startup
    BY <2>6 DEF ReadUser, IssueToken, Payload
  <2>7. ASSUME NEW r \in Requests, Authorize(r) \/ Abort(r) \/ FindAccount(r) \/ InsertAccount(r)
        PROVE  UNCHANGED startup
    BY <2>7 DEF Authorize, Abort, FindAccount, InsertAccount
  <2>8. CASE UNCHANGED vars
    BY <2>5, <2>8 DEF vars
  <2> QED BY <2>0, <2>1, <2>2, <2>3, <2>4, <2>5, <2>6, <2>7, <2>8 DEF Next, Seed
<1>4. TokensAreOwners'
  <2>1. CASE tokens' = tokens
    BY <1>1, <2>1 DEF TokensAreOwners
  <2>2. ASSUME NEW l \in Logins, IssueToken(l)
        PROVE  TokensAreOwners'
    BY <1>1, <2>2 DEF IssueToken, Payload, TokensAreOwners, LoginsFind, TenantIsWhole
  <2>3. ASSUME NEW p \in Processes, Start(p) \/ Seed(p) \/ SeedFault(p) \/ Crash(p)
        PROVE  tokens' = tokens
    BY <2>3 DEF Start, Seed, FindOrg, InsertOrg, FindUser, InsertUser, SeedCommit, SeedFault,
                Crash, auth
  <2>4. ASSUME NEW l \in Logins, ReadUser(l)
        PROVE  tokens' = tokens
    BY <2>4 DEF ReadUser
  <2>5. ASSUME NEW r \in Requests, Authorize(r) \/ Abort(r) \/ FindAccount(r) \/ InsertAccount(r)
        PROVE  tokens' = tokens
    BY <2>5 DEF Authorize, Abort, FindAccount, InsertAccount, auth
  <2>6. CASE UNCHANGED vars
    BY <2>1, <2>6 DEF vars, auth
  <2> QED BY <2>1, <2>2, <2>3, <2>4, <2>5, <2>6 DEF Next
<1> QED BY <1>2, <1>3, <1>4

\* Every step keeps the first credentials.
LEMMA StepCredentials ==
    ASSUME TypeOK, CredentialsAreMine, [Next]_vars
    PROVE  CredentialsAreMine'
<1> SUFFICES ASSUME NEW r \in Requests, at'[r] = "added"
             PROVE  account' = r
  BY DEF CredentialsAreMine
<1>0. at[r] = "added" => account = r /\ account # None
  BY TenancyAssumption DEF CredentialsAreMine
<1>1. ASSUME NEW q \in Requests, Authorize(q) \/ Abort(q) \/ FindAccount(q)
      PROVE  account' = r
  BY <1>0, <1>1 DEF Authorize, Abort, FindAccount, TypeOK
<1>2. ASSUME NEW q \in Requests, InsertAccount(q)
      PROVE  account' = r
  BY <1>0, <1>2 DEF InsertAccount, MayInsert, TypeOK
<1>3. CASE UNCHANGED requests
  BY <1>0, <1>3 DEF requests
<1>4. ASSUME NEW p \in Processes, Start(p) \/ Seed(p) \/ SeedFault(p) \/ Crash(p)
      PROVE  UNCHANGED requests
  BY <1>4 DEF Start, Seed, FindOrg, InsertOrg, FindUser, InsertUser, SeedCommit, SeedFault, Crash
<1>5. ASSUME NEW l \in Logins, ReadUser(l) \/ IssueToken(l)
      PROVE  UNCHANGED requests
  BY <1>5 DEF ReadUser, IssueToken, Payload
<1>6. CASE UNCHANGED vars
  BY <1>3, <1>6 DEF vars
<1> QED BY <1>1, <1>2, <1>3, <1>4, <1>5, <1>6 DEF Next

LEMMA Invariance == Spec => []TInv
<1>1. TInv /\ [Next]_vars => TInv'
  BY StepTypeOK, StepInserted, StepAnswers, StepCredentials DEF TInv
<1> QED BY InitTInv, <1>1, PTL DEF Spec

-----------------------------------------------------------------------------
(* Theorems                                                                *)

\* The variables have their types.
THEOREM TenancyTypeOK == Spec => []TypeOK
<1>1. TInv => TypeOK
  BY DEF TInv
<1> QED BY Invariance, <1>1, PTL

\* Organization, administrator and membership are seeded together.
THEOREM TenantIsSeededWhole == Spec => []TenantIsWhole
<1>1. TInv => TenantIsWhole
  BY DEF TInv
<1> QED BY Invariance, <1>1, PTL

\* A process that serves after a seed without errors finds the tenant.
THEOREM ServingFindsTenant == Spec => []ServingMeansSeeded
<1>1. TInv => ServingMeansSeeded
  BY DEF TInv
<1> QED BY Invariance, <1>1, PTL

\* Every token of the administrator is the owner's.
THEOREM AdministratorOwns == Spec => []TokensAreOwners
<1>1. TInv => TokensAreOwners
  BY DEF TInv
<1> QED BY Invariance, <1>1, PTL

\* Of the requests for an account the one that is told so has added it.
THEOREM FirstCredentialsStay == Spec => []CredentialsAreMine
<1>1. TInv => CredentialsAreMine
  BY DEF TInv
<1> QED BY Invariance, <1>1, PTL
-----------------------------------------------------------------------------
(* How long a start can take                                               *)

\* The insert of a process waits for an uncommitted one with the same key.
Waits(p) ==
    \/ pc[p] = "insertOrg" /\ ~OrgIsFree(p)
    \/ pc[p] = "insertUser" /\ ~UserIsFree(p)

\* The one insert that has to wait is the organization's (database.py:109), and the
\* process it waits for does not wait itself: seeding cannot deadlock, although each
\* transaction inserts under two unique keys.
SeedersTakeTurns ==
    \A p \in Processes : Waits(p) =>
        /\ pc[p] = "insertOrg"
        /\ \E q \in Processes \ {p} : newOrg[q] # 0 /\ pc[q] \in Starting /\ ~Waits(q)

\* The statements of init_db that a process has before it, at most.
Statements(label) ==
    CASE label = "findOrg" -> 5
      [] label = "insertOrg" -> 4
      [] label = "findUser" -> 3
      [] label = "insertUser" -> 2
      [] label = "commit" -> 1
      [] OTHER -> 0

\* A process that seeds never goes back: a conflict, an error or another one's commit
\* (database.py:133-134) never makes it try again.
SeedersAdvance ==
    [][\A p \in Processes :
          pc[p] \in Starting => pc'[p] = pc[p] \/ Statements(pc'[p]) < Statements(pc[p])]_vars

\* At every moment of a start only the insert of the organization can wait, and only
\* for a process that can go on.
THEOREM SeedersDoNotDeadlock == Spec => []SeedersTakeTurns
<1>1. TInv => SeedersTakeTurns
  <2> SUFFICES ASSUME TInv, NEW p \in Processes, Waits(p)
               PROVE  /\ pc[p] = "insertOrg"
                      /\ \E q \in Processes \ {p} :
                            newOrg[q] # 0 /\ pc[q] \in Starting /\ ~Waits(q)
    BY DEF SeedersTakeTurns
  <2>1. pc[p] = "insertOrg"
    <3>1. SUFFICES ASSUME pc[p] = "insertUser", NEW q \in Processes \ {p}, newUser[q]
                   PROVE  FALSE
      BY DEF Waits, UserIsFree
    <3>2. newOrg[q] # 0 /\ newOrg[p] # 0
      BY <3>1 DEF TInv, Inserted
    <3> QED BY <3>1, <3>2 DEF TInv, Inserted
  <2>2. PICK q \in Processes \ {p} : newOrg[q] # 0
    BY <2>1 DEF Waits, OrgIsFree
  <2>3. pc[q] \in {"findUser", "insertUser", "commit"}
    BY <2>2 DEF TInv, Inserted
  <2>4. UserIsFree(q)
    <3>1. SUFFICES ASSUME NEW r \in Processes \ {q}, newUser[r] PROVE FALSE
      BY DEF UserIsFree
    <3>2. newOrg[r] # 0
      BY <3>1 DEF TInv, Inserted
    <3> QED BY <2>2, <3>1, <3>2 DEF TInv, Inserted
  <2> QED BY <2>1, <2>2, <2>3, <2>4 DEF Waits, Starting
<1> QED BY Invariance, <1>1, PTL

\* A start takes at most five statements: what fairness adds to ProcessesServe is that
\* they are made.
THEOREM StartsAreFinite == Spec => SeedersAdvance
<1> DEFINE Advances(p) == pc[p] \in Starting =>
                             pc'[p] = pc[p] \/ Statements(pc'[p]) < Statements(pc[p])
<1>1. TypeOK /\ [Next]_vars => \A p \in Processes : Advances(p)
  <2> SUFFICES ASSUME TypeOK, [Next]_vars, NEW p \in Processes, pc[p] \in Starting
               PROVE  Advances(p)
    OBVIOUS
  <2> USE DEF Statements, Starting
  <2>1. pc \in [Processes -> Starting \cup {"down", "serving"}]
    BY DEF TypeOK
  <2>2. ASSUME NEW q \in Processes, Start(q) \/ SeedFault(q) \/ Crash(q)
        PROVE  Advances(p)
    BY <2>1, <2>2 DEF Start, SeedFault, Crash, Goto
  <2>3. ASSUME NEW q \in Processes, FindOrg(q) \/ InsertOrg(q)
        PROVE  Advances(p)
    BY <2>1, <2>3 DEF FindOrg, AfterFindOrg, InsertOrg, AfterConflict, Goto
  <2>4. ASSUME NEW q \in Processes, FindUser(q) \/ InsertUser(q) \/ SeedCommit(q)
        PROVE  Advances(p)
    BY <2>1, <2>4 DEF FindUser, InsertUser, AfterConflict, SeedCommit, Goto
  <2>5. ASSUME NEW l \in Logins, ReadUser(l) \/ IssueToken(l)
        PROVE  pc' = pc
    BY <2>5 DEF ReadUser, IssueToken, Payload, startup
  <2>6. ASSUME NEW r \in Requests,
               Authorize(r) \/ Abort(r) \/ FindAccount(r) \/ InsertAccount(r)
        PROVE  pc' = pc
    BY <2>6 DEF Authorize, Abort, FindAccount, InsertAccount, startup
  <2>7. CASE UNCHANGED vars
    BY <2>7 DEF vars, startup
  <2> QED BY <2>2, <2>3, <2>4, <2>5, <2>6, <2>7 DEF Next, Seed
<1>2. TypeOK /\ [Next]_vars => [\A p \in Processes : Advances(p)]_vars
  BY <1>1
<1> QED BY <1>2, TenancyTypeOK, PTL DEF Spec, SeedersAdvance
=============================================================================
