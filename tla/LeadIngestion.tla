--------------------------- MODULE LeadIngestion ---------------------------
(***************************************************************************)
(* Lead ingestion: CSV uploads and Google Sheets syncs of one organization *)
(* run in several API processes at a time, while leads are deleted.        *)
(*                                                                         *)
(* An import validates its file, looks up the address of every valid lead, *)
(* a statement of its own each (READ COMMITTED, autoflush off), and        *)
(* inserts the new ones in the one commit at its end; uq_org_lead_email    *)
(* decides between imports that did not see each other.  An import inserts *)
(* at most one row per address, so the import stands for the id of the     *)
(* row.  An address is the one strip().lower() makes of a cell; whether    *)
(* the rest of the row is complete and well-formed is one Boolean.         *)
(***************************************************************************)
EXTENDS Integers, Sequences, FiniteSets

CONSTANTS
    Imports,        \* upload and sync requests, each made once
    Deleters,       \* delete requests, each made once
    Emails,
    Files,          \* what users upload
    None,
    MaxFaults       \* bound: failing look-ups, failing commits and deaths

Rows == [email: Emails \cup {None}, ok: BOOLEAN]

ASSUME IngestionAssumption ==
    /\ IsFiniteSet(Emails)
    /\ None \notin Emails \cup Imports
    /\ \A f \in Files : /\ f.kind \in {"csv", "sheet"}
                        /\ f.rows \in Seq([email: Emails, ok: BOOLEAN])

VARIABLES
    lead,           \* the committed row of each address: its import, or None
    pc, file,       \* where an import is, what it imports
    at, seen,       \* the row its loop is at, the addresses it has validated
    leads,          \* the addresses that are valid
    pending,        \* addresses it has added to its session
    aborted,        \* a statement failed: PostgreSQL ignores the transaction
    report,         \* the counts of its response
    target,         \* the row a delete request has looked up
    faults,
    gone, dropped   \* history: addresses deleted since an import began to
                    \* look up; addresses of its rows that were deleted

session == <<pending, aborted>>
validation == <<file, seen, leads>>
history == <<gone, dropped>>
vars == <<lead, pc, at, validation, session, report, target, faults, history>>

NoReport == [imported |-> 0, invalid |-> 0, duplicate |-> 0, errors |-> 0]
NoFile == [kind |-> "none", header |-> {}, rows |-> <<>>]

Init ==
    /\ lead = [e \in Emails |-> None]
    /\ pc = [r \in Imports |-> "idle"]
    /\ file = [r \in Imports |-> NoFile]
    /\ at = [r \in Imports |-> 1]
    /\ seen = [r \in Imports |-> {}]
    /\ leads = [r \in Imports |-> <<>>]
    /\ pending = [r \in Imports |-> {}]
    /\ aborted = [r \in Imports |-> FALSE]
    /\ report = [r \in Imports |-> NoReport]
    /\ target = [d \in Deleters |-> <<>>]
    /\ faults = 0
    /\ gone = [r \in Imports |-> {}]
    /\ dropped = [r \in Imports |-> {}]

Goto(r, label) == pc' = [pc EXCEPT ![r] = label]

-----------------------------------------------------------------------------
(* Reading a file                                                          *)

Required == {"first_name", "last_name", "email", "company_name"}

\* The header words that stand for a column, as far as the files use them.
ColumnAliases ==
    [first_name   |-> {"first_name", "fname"},
     last_name    |-> {"last_name", "surname"},
     email        |-> {"email", "e-mail", "mail", "email_address"},
     company_name |-> {"company_name", "company", "org"}]

\* Hyphens become underscores before the aliases are tried.
NormalizeHeader(word) == IF word = "e-mail" THEN "e_mail" ELSE word

MapColumns(header) ==
    {c \in Required : \E word \in header : NormalizeHeader(word) \in ColumnAliases[c]}

\* A sheet's records are keyed by its header as it is.
Columns(f) == IF f.kind = "csv" THEN MapColumns(f.header) ELSE Required \cap f.header

\* Without a required column a CSV file is rejected, and every record of a
\* sheet is incomplete.
Incomplete(f, row) ==
    [email |-> IF "email" \in Columns(f) THEN row.email ELSE None, ok |-> FALSE]

ParsedRows(f) ==
    IF Required \subseteq Columns(f) THEN f.rows
    ELSE IF f.kind = "csv" THEN <<>>
    ELSE [i \in DOMAIN f.rows |-> Incomplete(f, f.rows[i])]

-----------------------------------------------------------------------------
(* Imports                                                                 *)

\* POST /leads/upload-csv, POST /leads/sync-sheets.
Upload(r) ==
    /\ pc[r] = "idle"
    /\ \E f \in Files : file' = [file EXCEPT ![r] = f]
    /\ Goto(r, "validate")
    /\ UNCHANGED <<lead, at, seen, leads, session, report, target, faults, history>>

SeenWhenValid(r, row) ==    \* mutant: an invalid row does not count as seen
    IF row.ok THEN seen[r] \cup {row.email} ELSE seen[r]
SeenAfter(r, row) == seen[r] \cup {row.email}

\* The loop of validate_leads: an address counts as seen before its row is
\* found to be invalid.
Validate(r) ==
    LET row == ParsedRows(file[r])[at[r]]
    IN /\ pc[r] = "validate" /\ at[r] <= Len(ParsedRows(file[r]))
       /\ IF row.email \in seen[r]
          THEN /\ report' = [report EXCEPT ![r].duplicate = @ + 1]
               /\ UNCHANGED <<seen, leads>>
          ELSE /\ seen' = [seen EXCEPT ![r] = SeenAfter(r, row)]
               /\ IF row.ok
                  THEN /\ leads' = [leads EXCEPT ![r] = Append(@, row.email)]
                       /\ UNCHANGED report
                  ELSE /\ report' = [report EXCEPT ![r].invalid = @ + 1]
                       /\ UNCHANGED leads
       /\ at' = [at EXCEPT ![r] = @ + 1]
       /\ UNCHANGED <<lead, pc, file, session, target, faults, history>>

\* Without valid leads the answer is given, otherwise a session opened.
Validated(r) ==
    /\ pc[r] = "validate" /\ at[r] > Len(ParsedRows(file[r]))
    /\ Goto(r, IF leads[r] = <<>> THEN "done" ELSE "lookup")
    /\ at' = [at EXCEPT ![r] = 1]
    /\ UNCHANGED <<lead, validation, session, report, target, faults, history>>

ExistsDirty(e) ==           \* mutant: reads what is not committed
    lead[e] # None \/ \E r \in Imports : e \in pending[r]
Exists(e) == lead[e] # None

CountExistingAnew(r) ==     \* mutant: forgets the duplicates within the file
    [report EXCEPT ![r].duplicate = 1]
CountExisting(r) == [report EXCEPT ![r].duplicate = @ + 1]

\* The look-up of one lead.  An error is noted and the loop goes on, but in
\* PostgreSQL no later statement of the transaction succeeds.
LookUp(r) ==
    LET e == leads[r][at[r]]
    IN /\ pc[r] = "lookup" /\ at[r] <= Len(leads[r])
       /\ \/ /\ ~aborted[r]
             /\ IF Exists(e)
                THEN report' = CountExisting(r) /\ UNCHANGED pending
                ELSE /\ report' = [report EXCEPT ![r].imported = @ + 1]
                     /\ pending' = [pending EXCEPT ![r] = @ \cup {e}]
             /\ UNCHANGED <<aborted, faults>>
          \/ /\ aborted[r] \/ faults < MaxFaults
             /\ faults' = IF aborted[r] THEN faults ELSE faults + 1
             /\ aborted' = [aborted EXCEPT ![r] = TRUE]
             /\ report' = [report EXCEPT ![r].errors = @ + 1]
             /\ UNCHANGED pending
       /\ at' = [at EXCEPT ![r] = @ + 1]
       /\ UNCHANGED <<lead, pc, validation, target, history>>

Conflict(r) == \E e \in pending[r] : lead[e] # None

\* The flush of the inserts and the commit: all of them or none.  An aborted
\* transaction without inserts commits as a rollback that nobody notices.
Commit(r) ==
    /\ pc[r] = "lookup" /\ at[r] > Len(leads[r])
    /\ IF Conflict(r) \/ (aborted[r] /\ pending[r] # {})
       THEN Goto(r, "failed") /\ UNCHANGED lead
       ELSE /\ lead' = [e \in Emails |-> IF e \in pending[r] THEN r ELSE lead[e]]
            /\ Goto(r, "done")
    /\ UNCHANGED <<at, validation, session, report, target, faults, history>>

\* Anything else that ends the request: an unreadable file or sheet, a failing
\* commit (an unknown campaign, a deadlock between two imports' inserts), the
\* death of the process.
RowsAfterFailurePartly(r) ==    \* mutant: a commit per lead
    [e \in Emails |-> IF e \in pending[r] /\ lead[e] = None THEN r ELSE lead[e]]
RowsAfterFailure(r) == lead

Fail(r) ==
    /\ pc[r] \in {"idle", "validate", "lookup"}
    /\ faults < MaxFaults
    /\ faults' = faults + 1
    /\ lead' = RowsAfterFailure(r)
    /\ Goto(r, "failed")
    /\ UNCHANGED <<at, validation, session, report, target, history>>

-----------------------------------------------------------------------------
(* Deletion                                                                *)

\* DELETE /leads/{lead_id}: the look-up, or 404; a request ends as <<None>>.
FindLead(d) ==
    /\ target[d] = <<>>
    /\ \E e \in Emails :
          target' = [target EXCEPT ![d] =
                        IF lead[e] = None THEN <<None>> ELSE <<e, lead[e]>>]
    /\ UNCHANGED <<lead, pc, at, validation, session, report, faults, history>>

IsTargetByEmail(d, e) == e = target[d][1]   \* mutant: DELETE ... WHERE email
IsTarget(d, e) == target[d] = <<e, lead[e]>>

\* The DELETE by id and the commit: nothing if the row is gone by then.
DeleteLead(d) ==
    LET hit == {e \in Emails : IsTarget(d, e)}
    IN /\ Len(target[d]) = 2
       /\ lead' = [e \in Emails |-> IF e \in hit THEN None ELSE lead[e]]
       /\ gone' = [r \in Imports |->
                      IF pc[r] = "idle" THEN gone[r] ELSE gone[r] \cup hit]
       /\ dropped' = [r \in Imports |->
                         dropped[r] \cup {e \in hit : lead[e] = r}]
       /\ target' = [target EXCEPT ![d] = <<None>>]
       /\ UNCHANGED <<pc, at, validation, session, report, faults>>

-----------------------------------------------------------------------------
Next ==
    \/ \E r \in Imports : Upload(r) \/ Validate(r) \/ Validated(r)
                            \/ LookUp(r) \/ Commit(r) \/ Fail(r)
    \/ \E d \in Deleters : FindLead(d) \/ DeleteLead(d)

Spec == Init /\ [][Next]_vars

-----------------------------------------------------------------------------
(* Properties                                                              *)

Elements(s) == {s[i] : i \in 1..Len(s)}
Counts == [imported: Nat, invalid: Nat, duplicate: Nat, errors: Nat]

\* Type invariant.
TypeOK ==
    /\ lead \in [Emails -> Imports \cup {None}]
    /\ pc \in [Imports -> {"idle", "validate", "lookup", "done", "failed"}]
    /\ file \in [Imports -> Files \cup {NoFile}]
    /\ at \in [Imports -> Nat \ {0}]
    /\ seen \in [Imports -> SUBSET (Emails \cup {None})]
    /\ leads \in [Imports -> Seq(Emails)]
    /\ pending \in [Imports -> SUBSET Emails]
    /\ aborted \in [Imports -> BOOLEAN]
    /\ report \in [Imports -> Counts]
    /\ target \in [Deleters -> {<<>>, <<None>>} \cup (Emails \X Imports)]
    /\ faults \in Nat
    /\ gone \in [Imports -> SUBSET Emails]
    /\ dropped \in [Imports -> SUBSET Emails]

\* The rows that an import has created, deleted ones included.
Created(r) == {e \in Emails : lead[e] = r} \cup dropped[r]

\* An import that is answered created exactly the rows it reports as imported;
\* one that failed, whether it raced with another import or the database
\* failed half-way, created none (csv_handler.py:155-184).
ImportedIsExact ==
    \A r \in Imports :
        IF pc[r] = "done" THEN Cardinality(Created(r)) = report[r].imported
                          ELSE Created(r) = {}

\* After an import that was answered without errors, every valid address of its
\* file is in the database, however many imports brought it at the same time,
\* unless it was deleted in the meantime (csv_handler.py:159-184). An import that
\* reports an error is excused as a whole: the failing look-up ended its transaction.
NothingIsLost ==
    \A r \in Imports : pc[r] = "done" /\ report[r].errors = 0 =>
        \A e \in Elements(leads[r]) : lead[e] # None \/ e \in gone[r]

\* Every row of the file is in exactly one count of the response, which for a
\* CSV file and a sheet means the same (validator.py:151-156, csv_handler.py:168).
EveryRowIsReported ==
    \A r \in Imports : pc[r] = "done" =>
        report[r].imported + report[r].invalid + report[r].duplicate + report[r].errors
            = Len(ParsedRows(file[r]))

\* Of the rows with one address the loop of validate_leads keeps the first, if
\* it is valid, and once (validator.py:124-149).
FirstOfItsEmail(rows, i) == \A j \in 1..(i - 1) : rows[j].email # rows[i].email

KeepsFirstValid ==
    \A r \in Imports : pc[r] \in {"lookup", "done"} =>
        LET rows == ParsedRows(file[r])
        IN /\ Elements(leads[r]) =
                 {rows[i].email : i \in {j \in 1..Len(rows) :
                                            rows[j].ok /\ FirstOfItsEmail(rows, j)}}
           /\ \A i, j \in 1..Len(leads[r]) : leads[r][i] = leads[r][j] => i = j

\* A row is never replaced, and it disappears only by a delete request that
\* found this very row, not one that an import put in its place later
\* (routes.py:333-341).
RowsAreNotReplaced ==
    [][\A e \in Emails : lead[e] # None /\ lead'[e] # lead[e] =>
          lead'[e] = None /\ \E d \in Deleters : target[d] = <<e, lead[e]>>]_vars
=============================================================================
