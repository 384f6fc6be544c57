------------------------ MODULE LeadIngestion_proofs ------------------------
(***************************************************************************)
(* Proofs about lead ingestion, for any number of imports and deletions,   *)
(* files of any length, and any number of failures.                        *)
(*                                                                         *)
(* The inductive invariant follows the two loops of an import: what the    *)
(* validation has made of the rows it has read (ReadMatches), what is      *)
(* known of every lead looked up so far (LookedUp), and that the rows an   *)
(* import created are those it had in its session (RowsMatch).             *)
(***************************************************************************)
EXTENDS LeadIngestion, FiniteSetTheorems, SequenceTheorems, TLAPS

File(r) == ParsedRows(file[r])

Distinct(q) == \A i, j \in 1..Len(q) : q[i] = q[j] => i = j
Addresses(rows, n) == {rows[i].email : i \in 1..n}
FirstValid(rows, n) ==
    {rows[i].email : i \in {j \in 1..n : rows[j].ok /\ FirstOfItsEmail(rows, j)}}

\* What the loop of validate_leads has made of the first n rows.
Read(r, n) ==
    /\ seen[r] = Addresses(File(r), n)
    /\ Elements(leads[r]) = FirstValid(File(r), n)
    /\ Distinct(leads[r])

ReadOf(r) ==
    /\ pc[r] = "idle" =>
          /\ at[r] = 1 /\ seen[r] = {} /\ leads[r] = <<>> /\ pending[r] = {}
          /\ report[r] = NoReport
    /\ pc[r] \in {"validate", "lookup", "done"} => file[r] \in Files
    /\ pc[r] = "validate" =>
          /\ at[r] <= Len(File(r)) + 1 /\ pending[r] = {}
          /\ report[r].imported = 0 /\ report[r].errors = 0
          /\ report[r].invalid + report[r].duplicate + Len(leads[r]) = at[r] - 1
          /\ Read(r, at[r] - 1)
    /\ pc[r] \in {"lookup", "done"} => Read(r, Len(File(r)))

ReadMatches == \A r \in Imports : ReadOf(r)

Counted(r) ==
    report[r].imported + report[r].invalid + report[r].duplicate + report[r].errors

Kept(r, e) == lead[e] # None \/ e \in gone[r]

LookedUpOf(r) ==
    /\ pc[r] = "lookup" =>
          /\ at[r] <= Len(leads[r]) + 1
          /\ pending[r] \subseteq {leads[r][i] : i \in 1..(at[r] - 1)}
          /\ report[r].imported = Cardinality(pending[r])
          /\ Counted(r) + Len(leads[r]) = Len(File(r)) + at[r] - 1
          /\ report[r].errors = 0 =>
                \A i \in 1..(at[r] - 1) : leads[r][i] \in pending[r] \/ Kept(r, leads[r][i])
    /\ pc[r] = "done" =>
          /\ report[r].imported = Cardinality(pending[r])
          /\ Counted(r) = Len(File(r))
          /\ report[r].errors = 0 => \A i \in 1..Len(leads[r]) : Kept(r, leads[r][i])

LookedUp == \A r \in Imports : LookedUpOf(r)

RowsMatch ==
    \A r \in Imports : Created(r) = IF pc[r] = "done" THEN pending[r] ELSE {}

LInv == TypeOK /\ ReadMatches /\ LookedUp /\ RowsMatch

-----------------------------------------------------------------------------
(* Types                                                                   *)

\* The rows of a file after parsing; the valid ones have an address.
LEMMA ParsedRowsTyped ==
    ASSUME NEW f \in Files
    PROVE  /\ ParsedRows(f) \in Seq(Rows)
           /\ \A i \in 1..Len(ParsedRows(f)) :
                 /\ ParsedRows(f)[i] \in Rows
                 /\ ParsedRows(f)[i].ok => ParsedRows(f)[i].email \in Emails
<1>1. f.rows \in Seq([email: Emails, ok: BOOLEAN])
  BY IngestionAssumption
<1>5. \A i \in 1..Len(f.rows) : f.rows[i] \in [email: Emails, ok: BOOLEAN]
  BY <1>1, ElementOfSeq
<1>2. CASE Required \subseteq Columns(f)
  <2>1. ParsedRows(f) = f.rows
    BY <1>2 DEF ParsedRows
  <2>2. \A i \in 1..Len(f.rows) : f.rows[i] \in Rows /\ f.rows[i].email \in Emails
    BY <1>5 DEF Rows
  <2>3. f.rows = [i \in 1..Len(f.rows) |-> f.rows[i]] /\ Len(f.rows) \in Nat
    BY <1>1, SeqDef, LenProperties
  <2>4. f.rows \in Seq(Rows)
    BY <2>2, <2>3, IsASeq
  <2> QED BY <2>1, <2>2, <2>4
<1>3. CASE ~(Required \subseteq Columns(f)) /\ f.kind = "csv"
  <2>1. ParsedRows(f) = <<>>
    BY <1>3 DEF ParsedRows
  <2> QED BY <2>1
<1>4. CASE ~(Required \subseteq Columns(f)) /\ f.kind # "csv"
  <2>1. ParsedRows(f) = [i \in 1..Len(f.rows) |-> Incomplete(f, f.rows[i])]
    BY <1>1, <1>4 DEF ParsedRows
  <2>2. \A i \in 1..Len(f.rows) : Incomplete(f, f.rows[i]) \in Rows
                                  /\ ~Incomplete(f, f.rows[i]).ok
    BY <1>5 DEF Incomplete, Rows
  <2>3. Len(f.rows) \in Nat
    BY <1>1, LenProperties
  <2>4. ParsedRows(f) \in Seq(Rows)
    BY <2>1, <2>2, <2>3, IsASeq
  <2>5. Len(ParsedRows(f)) = Len(f.rows)
    BY <2>1, <2>3, <2>4, LenProperties
  <2> QED BY <2>1, <2>2, <2>4, <2>5
<1> QED BY <1>2, <1>3, <1>4

\* Counting keeps the type of a report.
LEMMA CountTyped ==
    ASSUME NEW R, NEW rep \in [R -> Counts], NEW r \in R, NEW new,
           \/ new = [rep EXCEPT ![r].imported = @ + 1]
           \/ new = [rep EXCEPT ![r].invalid = @ + 1]
           \/ new = [rep EXCEPT ![r].duplicate = @ + 1]
           \/ new = [rep EXCEPT ![r].errors = @ + 1]
    PROVE  new \in [R -> Counts]
<1>1. rep[r] \in Counts
  OBVIOUS
<1>2. /\ [rep[r] EXCEPT !.imported = @ + 1] \in Counts
      /\ [rep[r] EXCEPT !.invalid = @ + 1] \in Counts
      /\ [rep[r] EXCEPT !.duplicate = @ + 1] \in Counts
      /\ [rep[r] EXCEPT !.errors = @ + 1] \in Counts
  BY <1>1 DEF Counts
<1>3. \A c \in Counts : [rep EXCEPT ![r] = c] \in [R -> Counts]
  OBVIOUS
<1> QED BY <1>2, <1>3

\* Every step keeps the types.
LEMMA StepTypeOK ==
    ASSUME TypeOK, ReadMatches, LookedUp, [Next]_vars
    PROVE  TypeOK'
<1> USE DEF TypeOK, Goto, validation, session, history
<1>1. ASSUME NEW r \in Imports, Upload(r)
      PROVE  TypeOK'
  BY <1>1 DEF Upload
<1>2. ASSUME NEW r \in Imports, Validate(r)
      PROVE  TypeOK'
  <2> DEFINE row == File(r)[at[r]]
  <2>1. row \in Rows /\ (row.ok => row.email \in Emails)
    BY <1>2, ParsedRowsTyped DEF Validate, ReadMatches, ReadOf, File
  <2>2. row.email \in Emails \cup {None}
    BY <2>1 DEF Rows
  <2>3. /\ at' = [at EXCEPT ![r] = @ + 1]
        /\ UNCHANGED <<lead, pc, file, pending, aborted, target, faults, gone, dropped>>
    BY <1>2 DEF Validate
  <2>4. seen' \in [Imports -> SUBSET (Emails \cup {None})]
    <3>1. seen' = seen \/ seen' = [seen EXCEPT ![r] = @ \cup {row.email}]
      <4>1. seen' = seen \/ seen' = [seen EXCEPT ![r] = SeenAfter(r, row)]
        BY <1>2 DEF Validate, File
      <4> HIDE DEF row
      <4> QED BY <4>1 DEF SeenAfter
    <3> HIDE DEF row
    <3>2. seen[r] \cup {row.email} \in SUBSET (Emails \cup {None})
      BY <2>2
    <3> QED BY <3>1, <3>2
  <2>5. leads' \in [Imports -> Seq(Emails)]
    <3>1. leads' = leads \/ (row.ok /\ leads' = [leads EXCEPT ![r] = Append(@, row.email)])
      BY <1>2 DEF Validate, File
    <3>2. row.ok => Append(leads[r], row.email) \in Seq(Emails)
      BY <2>1
    <3> HIDE DEF row
    <3> QED BY <3>1, <3>2
  <2>6. report' \in [Imports -> Counts]
    <3>1. \/ report' = report
          \/ report' = [report EXCEPT ![r].duplicate = @ + 1]
          \/ report' = [report EXCEPT ![r].invalid = @ + 1]
      BY <1>2 DEF Validate
    <3>2. report \in [Imports -> Counts]
      OBVIOUS
    <3> HIDE DEF row, TypeOK
    <3> QED BY <3>1, <3>2, CountTyped
  <2>7. at' \in [Imports -> Nat \ {0}]
    BY <2>3
  <2> HIDE DEF row
  <2> QED BY <2>3, <2>4, <2>5, <2>6, <2>7
<1>3. ASSUME NEW r \in Imports, Validated(r)
      PROVE  TypeOK'
  BY <1>3 DEF Validated
<1>4. ASSUME NEW r \in Imports, LookUp(r)
      PROVE  TypeOK'
  <2>1. leads[r][at[r]] \in Emails
    BY <1>4 DEF LookUp
  <2>2. report' \in [Imports -> Counts]
    <3>1. \/ report' = [report EXCEPT ![r].duplicate = @ + 1]
          \/ report' = [report EXCEPT ![r].imported = @ + 1]
          \/ report' = [report EXCEPT ![r].errors = @ + 1]
      BY <1>4 DEF LookUp, CountExisting
    <3>2. report \in [Imports -> Counts]
      OBVIOUS
    <3> HIDE DEF TypeOK
    <3> QED BY <3>1, <3>2, CountTyped
  <2>3. /\ at' = [at EXCEPT ![r] = @ + 1]
        /\ pending' = pending \/ pending' = [pending EXCEPT ![r] = @ \cup {leads[r][at[r]]}]
        /\ aborted' = aborted \/ aborted' = [aborted EXCEPT ![r] = TRUE]
        /\ faults' = faults \/ faults' = faults + 1
        /\ UNCHANGED <<lead, pc, file, seen, leads, target, gone, dropped>>
    BY <1>4 DEF LookUp
  <2>4. at' \in [Imports -> Nat \ {0}] /\ faults' \in Nat
    BY <2>3
  <2>5. aborted' \in [Imports -> BOOLEAN]
    BY <2>3, Zenon
  <2>6. pending' \in [Imports -> SUBSET Emails]
    <3>1. pending[r] \cup {leads[r][at[r]]} \in SUBSET Emails
      BY <2>1
    <3>2. \A S \in SUBSET Emails : [pending EXCEPT ![r] = S] \in [Imports -> SUBSET Emails]
      OBVIOUS
    <3> QED BY <2>3, <3>1, <3>2, ZenonT(60)
  <2> QED BY <2>2, <2>3, <2>4, <2>5, <2>6
<1>5. ASSUME NEW r \in Imports, Commit(r)
      PROVE  TypeOK'
  <2>1. lead' \in [Emails -> Imports \cup {None}]
    <3>1. CASE UNCHANGED lead
      BY <3>1
    <3>2. CASE lead' = [e \in Emails |-> IF e \in pending[r] THEN r ELSE lead[e]]
      BY <3>2
    <3> QED BY <1>5, <3>1, <3>2 DEF Commit
  <2>2. pc' \in [Imports -> {"idle", "validate", "lookup", "done", "failed"}]
    BY <1>5, ZenonT(60) DEF Commit
  <2> QED BY <1>5, <2>1, <2>2 DEF Commit
<1>6. ASSUME NEW r \in Imports, Fail(r)
      PROVE  TypeOK'
  BY <1>6 DEF Fail, RowsAfterFailure
<1>7. ASSUME NEW d \in Deleters, FindLead(d)
      PROVE  TypeOK'
  <2>1. PICK e \in Emails : target' = [target EXCEPT ![d] =
                        IF lead[e] = None THEN <<None>> ELSE <<e, lead[e]>>]
    BY <1>7 DEF FindLead
  <2>2. target' \in [Deleters -> {<<>>, <<None>>} \cup (Emails \X Imports)]
    BY <2>1
  <2> QED BY <1>7, <2>2 DEF FindLead
<1>8. ASSUME NEW d \in Deleters, DeleteLead(d)
      PROVE  TypeOK'
  BY <1>8 DEF DeleteLead
<1>9. CASE UNCHANGED vars
  BY <1>9 DEF vars
<1> QED BY <1>1, <1>2, <1>3, <1>4, <1>5, <1>6, <1>7, <1>8, <1>9 DEF Next

-----------------------------------------------------------------------------
(* Sequences                                                               *)

\* What one more row adds to the addresses read.
LEMMA NextRow ==
    ASSUME NEW rows, NEW n \in Nat
    PROVE  /\ Addresses(rows, n + 1) = Addresses(rows, n) \cup {rows[n + 1].email}
           /\ \A e : e \in FirstValid(rows, n + 1) <=>
                \/ e \in FirstValid(rows, n)
                \/ /\ e = rows[n + 1].email /\ rows[n + 1].ok
                   /\ rows[n + 1].email \notin Addresses(rows, n)
<1>1. 1..(n + 1) = (1..n) \cup {n + 1} /\ n + 1 - 1 = n
  OBVIOUS
<1>2. FirstOfItsEmail(rows, n + 1) <=> rows[n + 1].email \notin Addresses(rows, n)
  BY <1>1 DEF FirstOfItsEmail, Addresses
<1>3. Addresses(rows, n + 1) = Addresses(rows, n) \cup {rows[n + 1].email}
  BY <1>1 DEF Addresses
<1> HIDE DEF Addresses
<1>4. \A e : e \in FirstValid(rows, n + 1) <=>
                \/ e \in FirstValid(rows, n)
                \/ e = rows[n + 1].email /\ rows[n + 1].ok /\ FirstOfItsEmail(rows, n + 1)
  BY <1>1 DEF FirstValid
<1> QED BY <1>2, <1>3, <1>4

LEMMA SeenRow ==
    ASSUME NEW rows, NEW n \in Nat, NEW row, row = rows[n + 1],
           row.email \in Addresses(rows, n)
    PROVE  /\ Addresses(rows, n + 1) = Addresses(rows, n)
           /\ FirstValid(rows, n + 1) = FirstValid(rows, n)
BY NextRow

LEMMA NewRow ==
    ASSUME NEW rows, NEW n \in Nat, NEW row, row = rows[n + 1],
           row.email \notin Addresses(rows, n)
    PROVE  /\ Addresses(rows, n + 1) = Addresses(rows, n) \cup {row.email}
           /\ row.ok => FirstValid(rows, n + 1) = FirstValid(rows, n) \cup {row.email}
           /\ ~row.ok => FirstValid(rows, n + 1) = FirstValid(rows, n)
BY NextRow

\* The valid addresses are among those read.
LEMMA FirstValidAreRead ==
    ASSUME NEW rows, NEW n \in Nat
    PROVE  FirstValid(rows, n) \subseteq Addresses(rows, n)
BY DEF FirstValid, Addresses

\* Appending a new element.
LEMMA AppendNew ==
    ASSUME NEW S, NEW q \in Seq(S), NEW e \in S, e \notin Elements(q), Distinct(q)
    PROVE  /\ Elements(Append(q, e)) = Elements(q) \cup {e}
           /\ Distinct(Append(q, e))
           /\ Len(Append(q, e)) = Len(q) + 1
<1> DEFINE t == Append(q, e)
<1>1. /\ Len(q) \in Nat /\ Len(t) = Len(q) + 1 /\ t[Len(q) + 1] = e
      /\ \A i \in 1..Len(q) : t[i] = q[i]
  BY AppendProperties, LenProperties
<1>2. 1..(Len(q) + 1) = (1..Len(q)) \cup {Len(q) + 1}
  BY <1>1
<1> HIDE DEF t
<1>3. Elements(t) = Elements(q) \cup {e}
  BY <1>1, <1>2 DEF Elements
<1>4. Distinct(t)
  <2> SUFFICES ASSUME NEW i \in 1..Len(t), NEW j \in 1..Len(t), t[i] = t[j]
               PROVE  i = j
    BY DEF Distinct
  <2>1. \A k \in 1..Len(q) : q[k] # e
    BY DEF Elements
  <2> QED BY <1>1, <1>2, <2>1 DEF Distinct
<1> QED BY <1>1, <1>3, <1>4 DEF t

-----------------------------------------------------------------------------
(* The validation of a file                                                *)

\* What an import has read does not change while it stands still.
LEMMA ReadFrame ==
    ASSUME NEW q \in Imports, ReadOf(q),
           pc'[q] = pc[q], file'[q] = file[q], at'[q] = at[q], seen'[q] = seen[q],
           leads'[q] = leads[q], pending'[q] = pending[q], report'[q] = report[q]
    PROVE  ReadOf(q)'
BY DEF ReadOf, Read, File

\* One row of the loop of validate_leads.
LEMMA ValidateReads ==
    ASSUME TypeOK, ReadMatches, NEW r \in Imports, Validate(r)
    PROVE  /\ ReadOf(r)'
           /\ pc'[r] = "validate"
<1>0. PICK rows, n, row : rows = File(r) /\ n = at[r] - 1 /\ row = rows[at[r]]
  OBVIOUS
<1>1. /\ file[r] \in Files /\ at[r] \in Nat /\ n \in Nat /\ at[r] = n + 1
      /\ at[r] <= Len(rows) /\ Len(rows) \in Nat
      /\ seen[r] = Addresses(rows, n) /\ Elements(leads[r]) = FirstValid(rows, n)
      /\ Distinct(leads[r]) /\ leads[r] \in Seq(Emails) /\ Len(leads[r]) \in Nat
      /\ pending[r] = {} /\ report[r].imported = 0 /\ report[r].errors = 0
      /\ report[r].invalid + report[r].duplicate + Len(leads[r]) = n
      /\ report[r] \in Counts
  BY <1>0, ParsedRowsTyped, LenProperties DEF TypeOK, ReadMatches, ReadOf, Read, Validate, File
<1>2. row.ok => row.email \in Emails
  BY <1>0, <1>1, ParsedRowsTyped DEF File
<1>3. /\ pc' = pc /\ file' = file /\ pending' = pending
      /\ at' = [at EXCEPT ![r] = @ + 1] /\ at'[r] = n + 2 /\ at'[r] - 1 = n + 1
      /\ File(r)' = rows /\ pc[r] = "validate"
  BY <1>0, <1>1 DEF Validate, session, validation, history, File, TypeOK
<1>4. row = rows[n + 1]
  BY <1>0, <1>1
<1>5. \/ /\ row.email \in seen[r]
         /\ report' = [report EXCEPT ![r].duplicate = @ + 1]
         /\ seen' = seen /\ leads' = leads
      \/ /\ row.email \notin seen[r] /\ row.ok
         /\ seen' = [seen EXCEPT ![r] = SeenAfter(r, row)]
         /\ leads' = [leads EXCEPT ![r] = Append(@, row.email)]
         /\ report' = report
      \/ /\ row.email \notin seen[r] /\ ~row.ok
         /\ seen' = [seen EXCEPT ![r] = SeenAfter(r, row)]
         /\ report' = [report EXCEPT ![r].invalid = @ + 1]
         /\ leads' = leads
  BY <1>0 DEF Validate, File
<1>6. Read(r, n + 1)'
  <2>1. CASE row.email \in seen[r] /\ seen' = seen /\ leads' = leads
    <3>1. Addresses(rows, n + 1) = Addresses(rows, n) /\ FirstValid(rows, n + 1) = FirstValid(rows, n)
      BY <1>1, <1>4, <2>1, SeenRow
    <3> QED BY <1>1, <1>3, <2>1, <3>1 DEF Read
  <2>2. CASE /\ row.email \notin seen[r]
             /\ seen' = [seen EXCEPT ![r] = SeenAfter(r, row)]
             /\ \/ row.ok /\ leads' = [leads EXCEPT ![r] = Append(@, row.email)]
                \/ ~row.ok /\ leads' = leads
    <3>1. seen'[r] = Addresses(rows, n + 1)
      <4>1. Addresses(rows, n + 1) = Addresses(rows, n) \cup {row.email}
        BY <1>1, <1>4, <2>2, NewRow
      <4>2. seen'[r] = seen[r] \cup {row.email}
        BY <2>2 DEF SeenAfter, TypeOK
      <4> QED BY <1>1, <4>1, <4>2
    <3>2. CASE ~row.ok /\ leads' = leads
      <4>1. FirstValid(rows, n + 1) = FirstValid(rows, n)
        BY <1>1, <1>4, <2>2, <3>2, NewRow
      <4> QED BY <1>1, <1>3, <3>1, <3>2, <4>1 DEF Read
    <3>3. CASE row.ok /\ leads' = [leads EXCEPT ![r] = Append(@, row.email)]
      <4>1. FirstValid(rows, n + 1) = FirstValid(rows, n) \cup {row.email}
        BY <1>1, <1>4, <2>2, <3>3, NewRow
      <4>2. row.email \notin Elements(leads[r])
        BY <1>1, <2>2, FirstValidAreRead
      <4>3. leads'[r] = Append(leads[r], row.email)
        BY <3>3 DEF TypeOK
      <4>4. Elements(leads'[r]) = Elements(leads[r]) \cup {row.email} /\ Distinct(leads'[r])
        BY <1>1, <1>2, <3>3, <4>2, <4>3, AppendNew
      <4> QED BY <1>1, <1>3, <3>1, <4>1, <4>4 DEF Read
    <3> QED BY <2>2, <3>2, <3>3
  <2> QED BY <1>5, <2>1, <2>2
<1>7. /\ report'[r].imported = 0 /\ report'[r].errors = 0
      /\ report'[r].invalid + report'[r].duplicate + Len(leads'[r]) = n + 1
  <2>1. report \in [Imports -> Counts] /\ leads \in [Imports -> Seq(Emails)]
    BY DEF TypeOK
  <2>2. CASE leads' = leads /\ report' = [report EXCEPT ![r].duplicate = @ + 1]
    BY <1>1, <2>1, <2>2 DEF Counts
  <2>3. CASE leads' = leads /\ report' = [report EXCEPT ![r].invalid = @ + 1]
    BY <1>1, <2>1, <2>3 DEF Counts
  <2>4. CASE row.ok /\ leads' = [leads EXCEPT ![r] = Append(@, row.email)] /\ report' = report
    <3>1. leads'[r] = Append(leads[r], row.email)
      BY <2>1, <2>4
    <3>2. Len(leads'[r]) = Len(leads[r]) + 1
      BY <1>1, <1>2, <2>4, <3>1, AppendProperties
    <3> QED BY <1>1, <2>4, <3>2, SMTT(30) DEF Counts
  <2> QED BY <1>5, <2>2, <2>3, <2>4
<1> QED BY <1>1, <1>3, <1>6, <1>7 DEF ReadOf

\* Every step keeps what imports have read.
LEMMA StepReadMatches ==
    ASSUME TypeOK, ReadMatches, [Next]_vars
    PROVE  ReadMatches'
<1> USE DEF session, validation, history, Goto
<1> SUFFICES ASSUME NEW q \in Imports
             PROVE  ReadOf(q)'
  BY DEF ReadMatches
<1>0. ReadOf(q)
  BY DEF ReadMatches
<1>1. ASSUME NEW r \in Imports, Upload(r)
      PROVE  ReadOf(q)'
  <2>1. CASE q # r
    BY <1>0, <1>1, <2>1, ReadFrame DEF Upload, TypeOK
  <2>2. CASE q = r
    <3>1. PICK f \in Files : file' = [file EXCEPT ![r] = f]
      BY <1>1 DEF Upload
    <3>2. File(r)' = ParsedRows(f) /\ Len(ParsedRows(f)) \in Nat
      BY <3>1, ParsedRowsTyped, LenProperties DEF File, TypeOK
    <3>3. /\ pc'[r] = "validate" /\ file'[r] \in Files /\ at'[r] = 1 /\ seen'[r] = {}
          /\ leads'[r] = <<>> /\ pending'[r] = {} /\ report'[r] = NoReport
      BY <1>0, <1>1, <2>2, <3>1 DEF Upload, ReadOf, TypeOK
    <3>4. Read(r, 0)'
      BY <3>3 DEF Read, Addresses, FirstValid, Distinct, Elements
    <3> QED BY <2>2, <3>2, <3>3, <3>4 DEF ReadOf, NoReport
  <2> QED BY <2>1, <2>2
<1>2. ASSUME NEW r \in Imports, Validate(r)
      PROVE  ReadOf(q)'
  <2>1. CASE q # r
    <3>1. /\ pc' = pc /\ file' = file /\ pending' = pending /\ at'[q] = at[q]
          /\ seen'[q] = seen[q] /\ leads'[q] = leads[q]
      BY <1>2, <2>1 DEF Validate, TypeOK
    <3>2. report'[q] = report[q]
      BY <1>2, <2>1 DEF Validate, TypeOK
    <3> QED BY <1>0, <3>1, <3>2, ReadFrame
  <2>2. CASE q = r
    BY <1>2, <2>2, ValidateReads
  <2> QED BY <2>1, <2>2
<1>3. ASSUME NEW r \in Imports, Validated(r)
      PROVE  ReadOf(q)'
  <2>1. CASE q # r
    BY <1>0, <1>3, <2>1, ReadFrame DEF Validated, TypeOK
  <2>2. CASE q = r
    <3>1. file[r] \in Files /\ Len(File(r)) \in Nat
      BY <1>0, <1>3, <2>2, ParsedRowsTyped, LenProperties DEF ReadOf, Validated, File
    <3>2. at[r] - 1 = Len(File(r)) /\ Read(r, at[r] - 1)
      BY <1>0, <1>3, <2>2, <3>1 DEF ReadOf, Validated, TypeOK, File
    <3>3. pc'[r] \in {"lookup", "done"} /\ file' = file /\ seen' = seen /\ leads' = leads
      BY <1>3 DEF Validated, TypeOK
    <3>4. Read(r, Len(File(r)))'
      BY <3>2, <3>3 DEF Read, File
    <3> QED BY <2>2, <3>1, <3>3, <3>4 DEF ReadOf
  <2> QED BY <2>1, <2>2
<1>4. ASSUME NEW r \in Imports, LookUp(r)
      PROVE  ReadOf(q)'
  <2>1. CASE q # r
    <3>1. report'[q] = report[q] /\ pending'[q] = pending[q] /\ at'[q] = at[q]
      BY <1>4, <2>1 DEF LookUp, CountExisting, TypeOK
    <3> QED BY <1>0, <1>4, <3>1, ReadFrame DEF LookUp
  <2>2. CASE q = r
    BY <1>0, <1>4, <2>2 DEF LookUp, ReadOf, Read, File
  <2> QED BY <2>1, <2>2
<1>5. ASSUME NEW r \in Imports, Commit(r)
      PROVE  ReadOf(q)'
  <2>1. CASE q # r
    <3>1. pc'[q] = pc[q]
      BY <1>5, <2>1 DEF Commit, TypeOK
    <3> QED BY <1>0, <1>5, <3>1, ReadFrame DEF Commit
  <2>2. CASE q = r
    <3>1. pc[r] = "lookup" /\ pc'[r] \in {"done", "failed"}
      BY <1>5 DEF Commit, TypeOK
    <3> QED BY <1>0, <1>5, <2>2, <3>1 DEF Commit, ReadOf, Read, File
  <2> QED BY <2>1, <2>2
<1>6. ASSUME NEW r \in Imports, Fail(r)
      PROVE  ReadOf(q)'
  <2>1. CASE q # r
    BY <1>0, <1>6, <2>1, ReadFrame DEF Fail, TypeOK
  <2>2. CASE q = r
    BY <1>6, <2>2 DEF Fail, ReadOf, TypeOK
  <2> QED BY <2>1, <2>2
<1>7. ASSUME NEW d \in Deleters, FindLead(d) \/ DeleteLead(d)
      PROVE  ReadOf(q)'
  BY <1>0, <1>7, ReadFrame DEF FindLead, DeleteLead
<1>8. CASE UNCHANGED vars
  BY <1>0, <1>8, ReadFrame DEF vars
<1> QED BY <1>1, <1>2, <1>3, <1>4, <1>5, <1>6, <1>7, <1>8 DEF Next

-----------------------------------------------------------------------------
(* The look-ups, the commit and deletions                                  *)

\* What an import has looked up stays so while it stands still and no other
\* one takes away what it counts on.
LEMMA LookedUpFrame ==
    ASSUME NEW q \in Imports, TypeOK, LookedUpOf(q),
           pc'[q] = pc[q], file'[q] = file[q], at'[q] = at[q],
           leads'[q] = leads[q], pending'[q] = pending[q], report'[q] = report[q],
           pc[q] # "idle" => \A e \in Emails : Kept(q, e) => Kept(q, e)'
    PROVE  LookedUpOf(q)'
<1> HIDE DEF Kept
<1>1. File(q)' = File(q) /\ Counted(q)' = Counted(q)
  BY DEF File, Counted
<1>2. /\ \A i \in 1..Len(leads[q]) : leads[q][i] \in Emails
      /\ Len(leads[q]) \in Nat /\ at[q] \in Nat
  BY ElementOfSeq, LenProperties DEF TypeOK
<1>3. at[q] <= Len(leads[q]) + 1 =>
        \A i \in 1..(at[q] - 1) : leads[q][i] \in Emails
  BY <1>2
<1> QED BY <1>1, <1>2, <1>3 DEF LookedUpOf

\* One look-up of an import.
LEMMA LookUpLooks ==
    ASSUME TypeOK, ReadMatches, LookedUp, NEW r \in Imports, LookUp(r)
    PROVE  LookedUpOf(r)'
<1>0. PICK q, i, e : q = leads[r] /\ i = at[r] /\ e = q[i]
  OBVIOUS
<1>1. /\ q \in Seq(Emails) /\ Len(q) \in Nat /\ i \in 1..Len(q) /\ e \in Emails
      /\ Distinct(q) /\ LookedUpOf(r) /\ pc[r] = "lookup" /\ file[r] \in Files
      /\ report[r] \in Counts /\ pending[r] \in SUBSET Emails
  BY <1>0, LenProperties, ElementOfSeq DEF TypeOK, ReadMatches, ReadOf, Read, LookedUp, LookUp
<1>2. /\ pc' = pc /\ file' = file /\ leads' = leads /\ lead' = lead /\ gone' = gone
      /\ at'[r] = i + 1 /\ at'[r] - 1 = i
  BY <1>0, <1>1 DEF LookUp, validation, history, TypeOK
<1>3. Len(File(r)) \in Nat /\ File(r)' = File(r)
  BY <1>1, <1>2, ParsedRowsTyped, LenProperties DEF File
<1>4. /\ pending[r] \subseteq {q[j] : j \in 1..(i - 1)}
      /\ report[r].imported = Cardinality(pending[r])
      /\ Counted(r) + Len(q) = Len(File(r)) + i - 1
      /\ report[r].errors = 0 =>
            \A j \in 1..(i - 1) : q[j] \in pending[r] \/ Kept(r, q[j])
  BY <1>0, <1>1 DEF LookedUpOf
<1>5. e \notin pending[r] /\ 1..i = 1..(i - 1) \cup {i}
  <2>1. \A j \in 1..(i - 1) : j \in 1..Len(q) /\ j # i
    BY <1>1
  <2>2. \A j \in 1..(i - 1) : q[j] # e
    BY <1>0, <1>1, <2>1 DEF Distinct
  <2>3. e \notin pending[r]
    BY <1>4, <2>2
  <2>4. 1..i = 1..(i - 1) \cup {i}
    BY <1>1
  <2> QED BY <2>3, <2>4
<1>6. \A x : Kept(r, x)' <=> Kept(r, x)
  BY <1>2 DEF Kept
<1>7. IsFiniteSet(pending[r])
  BY <1>1, FS_Subset, IngestionAssumption
<1>11. Counted(r) \in Nat /\ report \in [Imports -> Counts]
  BY <1>1 DEF Counted, Counts, TypeOK
<1>8. CASE lead[e] # None /\ report' = [report EXCEPT ![r].duplicate = @ + 1]
           /\ pending' = pending
  <2>0. report'[r] = [report[r] EXCEPT !.duplicate = @ + 1]
    BY <1>11, <1>8
  <2>1. /\ Counted(r)' = Counted(r) + 1 /\ report'[r].imported = report[r].imported
        /\ report'[r].errors = report[r].errors /\ pending'[r] = pending[r]
    BY <1>1, <1>8, <2>0, SMTT(30) DEF Counted, Counts, TypeOK
  <2>2. Kept(r, e)
    BY <1>8 DEF Kept
  <2>3. Counted(r)' + Len(q) = Len(File(r)) + i
    BY <1>1, <1>3, <1>4, <1>11, <2>1
  <2> HIDE DEF Kept, Counted, File
  <2> QED BY <1>0, <1>1, <1>2, <1>3, <1>4, <1>5, <1>6, <2>1, <2>2, <2>3, SMTT(30) DEF LookedUpOf
<1>9. CASE report' = [report EXCEPT ![r].imported = @ + 1]
           /\ pending' = [pending EXCEPT ![r] = @ \cup {e}]
  <2>0. report'[r] = [report[r] EXCEPT !.imported = @ + 1]
    BY <1>11, <1>9
  <2>1. /\ Counted(r)' = Counted(r) + 1 /\ report'[r].imported = report[r].imported + 1
        /\ report'[r].errors = report[r].errors
    BY <1>1, <2>0 DEF Counted, Counts
  <2>2. pending'[r] = pending[r] \cup {e}
    BY <1>9 DEF TypeOK
  <2>3. Cardinality(pending[r] \cup {e}) = Cardinality(pending[r]) + 1
    BY <1>5, <1>7, FS_AddElement
  <2>4. Counted(r)' + Len(q) = Len(File(r)) + i
    BY <1>1, <1>3, <1>4, <1>11, <2>1
  <2>5. pending'[r] \subseteq {q[j] : j \in 1..i}
    BY <1>0, <1>1, <1>4, <1>5, <2>2
  <2>6. report'[r].errors = 0 => \A j \in 1..i : q[j] \in pending'[r] \/ Kept(r, q[j])'
    BY <1>0, <1>4, <1>5, <1>6, <2>1, <2>2
  <2>7. report'[r].imported = Cardinality(pending'[r])
    BY <1>4, <2>1, <2>2, <2>3
  <2> HIDE DEF Kept, Counted, File
  <2> QED BY <1>0, <1>1, <1>2, <1>3, <2>4, <2>5, <2>6, <2>7, SMTT(30) DEF LookedUpOf
<1>10. CASE report' = [report EXCEPT ![r].errors = @ + 1] /\ pending' = pending
  <2>0. report'[r] = [report[r] EXCEPT !.errors = @ + 1]
    BY <1>11, <1>10
  <2>1. /\ Counted(r)' = Counted(r) + 1 /\ report'[r].imported = report[r].imported
        /\ report'[r].errors = report[r].errors + 1
    BY <1>1, <2>0 DEF Counted, Counts
  <2>2. Counted(r)' + Len(q) = Len(File(r)) + i
    BY <1>1, <1>3, <1>4, <1>11, <2>1
  <2>3. report'[r].errors # 0 /\ pending'[r] = pending[r]
    BY <1>1, <1>10, <2>1 DEF Counts
  <2>4. pending[r] \subseteq {q[j] : j \in 1..i}
    BY <1>4, <1>5
  <2> HIDE DEF Kept, Counted, File
  <2> QED BY <1>0, <1>1, <1>2, <1>3, <1>4, <2>1, <2>2, <2>3, <2>4, SMTT(30) DEF LookedUpOf
<1> QED BY <1>0, <1>8, <1>9, <1>10 DEF LookUp, CountExisting, Exists

\* The end of the validation, and the commit.
LEMMA ValidatedLooks ==
    ASSUME TypeOK, ReadMatches, NEW r \in Imports, Validated(r)
    PROVE  LookedUpOf(r)'
<1>1. /\ ReadOf(r) /\ pc[r] = "validate" /\ file[r] \in Files /\ leads[r] \in Seq(Emails)
      /\ report[r] \in Counts
  BY DEF ReadMatches, ReadOf, Validated, TypeOK
<1>2. Len(File(r)) \in Nat /\ Len(leads[r]) \in Nat
  BY <1>1, ParsedRowsTyped, LenProperties DEF File
<1>3. /\ at[r] = Len(File(r)) + 1 /\ pending[r] = {}
      /\ report[r].imported = 0 /\ report[r].errors = 0
      /\ report[r].invalid + report[r].duplicate + Len(leads[r]) = Len(File(r))
  BY <1>1, <1>2 DEF ReadOf, Validated, File, TypeOK
<1>4. /\ pending' = pending /\ report' = report /\ leads' = leads /\ file' = file
      /\ at'[r] = 1 /\ pc'[r] = IF leads[r] = <<>> THEN "done" ELSE "lookup"
      /\ File(r)' = File(r)
  BY DEF Validated, Goto, validation, session, TypeOK, File
<1>5. Cardinality({}) = 0
  BY FS_EmptySet
<1>6. Counted(r)' = report[r].invalid + report[r].duplicate
  BY <1>1, <1>3, <1>4 DEF Counted, Counts
<1>7. report[r].invalid + report[r].duplicate \in Nat
  BY <1>1 DEF Counts
<1>8. Counted(r)' + Len(leads[r]) = Len(File(r)) /\ Counted(r)' \in Nat
  BY <1>3, <1>6, <1>7
<1>9. pending'[r] = {} /\ report'[r].imported = Cardinality(pending'[r])
  <2>1. pending'[r] = {} /\ report'[r].imported = 0
    BY <1>3, <1>4
  <2> QED BY <1>5, <2>1
<1> HIDE DEF Counted, File, Kept
<1>10. CASE leads[r] = <<>>
  BY <1>2, <1>4, <1>8, <1>9, <1>10 DEF LookedUpOf
<1>11. CASE leads[r] # <<>>
  BY <1>2, <1>4, <1>8, <1>9, <1>11 DEF LookedUpOf
<1> QED BY <1>10, <1>11

LEMMA CommitLooks ==
    ASSUME TypeOK, ReadMatches, LookedUp, NEW r \in Imports, Commit(r)
    PROVE  LookedUpOf(r)'
<1>1. /\ LookedUpOf(r) /\ pc[r] = "lookup" /\ file[r] \in Files /\ leads[r] \in Seq(Emails)
      /\ report[r] \in Counts
  BY DEF LookedUp, ReadMatches, ReadOf, Commit, TypeOK
<1>2. Len(File(r)) \in Nat /\ Len(leads[r]) \in Nat /\ Counted(r) \in Nat
  BY <1>1, ParsedRowsTyped, LenProperties DEF File, Counted, Counts
<1>3. at[r] = Len(leads[r]) + 1 /\ at[r] - 1 = Len(leads[r])
  BY <1>1, <1>2 DEF LookedUpOf, Commit, TypeOK
<1>4. /\ pending' = pending /\ report' = report /\ leads' = leads /\ file' = file
      /\ gone' = gone /\ File(r)' = File(r) /\ Counted(r)' = Counted(r)
  BY DEF Commit, validation, session, history, File, Counted
<1>5. CASE pc'[r] = "failed"
  BY <1>5 DEF LookedUpOf
<1>6. CASE pc'[r] = "done" /\ lead' = [e \in Emails |-> IF e \in pending[r] THEN r ELSE lead[e]]
  <2>1. Counted(r) = Len(File(r))
    BY <1>1, <1>2, <1>3 DEF LookedUpOf
  <2>2. ASSUME NEW i \in 1..Len(leads[r]), report[r].errors = 0
        PROVE  Kept(r, leads[r][i])'
    <3>1. leads[r][i] \in pending[r] \/ Kept(r, leads[r][i])
      BY <1>1, <1>3, <2>2 DEF LookedUpOf
    <3>2. leads[r][i] \in Emails
      BY <1>1, ElementOfSeq
    <3> QED BY <1>4, <1>6, <3>1, <3>2, IngestionAssumption DEF Kept
  <2>3. report[r].imported = Cardinality(pending[r])
    BY <1>1 DEF LookedUpOf
  <2> HIDE DEF Kept, Counted, File
  <2> QED BY <1>4, <1>6, <2>1, <2>2, <2>3 DEF LookedUpOf
<1>7. pc'[r] = "failed" \/ (pc'[r] = "done"
          /\ lead' = [e \in Emails |-> IF e \in pending[r] THEN r ELSE lead[e]])
  BY DEF Commit, Goto, TypeOK
<1> QED BY <1>5, <1>6, <1>7

\* Every step keeps what imports have looked up.
LEMMA StepLookedUp ==
    ASSUME TypeOK, ReadMatches, LookedUp, [Next]_vars
    PROVE  LookedUp'
<1> USE DEF session, validation, history, Goto
<1> SUFFICES ASSUME NEW q \in Imports
             PROVE  LookedUpOf(q)'
  BY DEF LookedUp
<1>0. LookedUpOf(q)
  BY DEF LookedUp
<1>1. ASSUME NEW r \in Imports, Upload(r)
      PROVE  LookedUpOf(q)'
  <2>1. CASE q # r
    BY <1>0, <1>1, <2>1, LookedUpFrame DEF Upload, TypeOK, Kept
  <2>2. CASE q = r
    BY <1>1, <2>2 DEF Upload, LookedUpOf, TypeOK
  <2> QED BY <2>1, <2>2
<1>2. ASSUME NEW r \in Imports, Validate(r)
      PROVE  LookedUpOf(q)'
  <2>1. CASE q # r
    <3>1. /\ pc' = pc /\ file' = file /\ pending' = pending /\ at'[q] = at[q]
          /\ leads'[q] = leads[q] /\ lead' = lead /\ gone' = gone
      BY <1>2, <2>1 DEF Validate, TypeOK
    <3>2. report'[q] = report[q]
      BY <1>2, <2>1 DEF Validate, TypeOK
    <3> QED BY <1>0, <3>1, <3>2, LookedUpFrame DEF Kept
  <2>2. CASE q = r
    BY <1>2, <2>2, ValidateReads DEF LookedUpOf
  <2> QED BY <2>1, <2>2
<1>3. ASSUME NEW r \in Imports, Validated(r)
      PROVE  LookedUpOf(q)'
  <2>1. CASE q # r
    BY <1>0, <1>3, <2>1, LookedUpFrame DEF Validated, TypeOK, Kept
  <2>2. CASE q = r
    BY <1>3, <2>2, ValidatedLooks
  <2> QED BY <2>1, <2>2
<1>4. ASSUME NEW r \in Imports, LookUp(r)
      PROVE  LookedUpOf(q)'
  <2>1. CASE q # r
    <3>1. report'[q] = report[q] /\ pending'[q] = pending[q] /\ at'[q] = at[q]
      BY <1>4, <2>1 DEF LookUp, CountExisting, TypeOK
    <3> QED BY <1>0, <1>4, <3>1, LookedUpFrame DEF LookUp, Kept
  <2>2. CASE q = r
    BY <1>4, <2>2, LookUpLooks
  <2> QED BY <2>1, <2>2
<1>5. ASSUME NEW r \in Imports, Commit(r)
      PROVE  LookedUpOf(q)'
  <2>1. CASE q # r
    <3>1. pc'[q] = pc[q]
      BY <1>5, <2>1 DEF Commit, TypeOK
    <3>2. \A e \in Emails : Kept(q, e) => Kept(q, e)'
      <4> SUFFICES ASSUME NEW e \in Emails, lead[e] # None
                   PROVE  lead'[e] # None \/ e \in gone'[q]
        BY <1>5 DEF Kept, Commit
      <4>1. CASE lead' = lead
        BY <4>1
      <4>2. CASE lead' = [x \in Emails |-> IF x \in pending[r] THEN r ELSE lead[x]]
        BY <4>2, IngestionAssumption
      <4> QED BY <1>5, <4>1, <4>2 DEF Commit
    <3> QED BY <1>0, <1>5, <3>1, <3>2, LookedUpFrame DEF Commit
  <2>2. CASE q = r
    BY <1>5, <2>2, CommitLooks
  <2> QED BY <2>1, <2>2
<1>6. ASSUME NEW r \in Imports, Fail(r)
      PROVE  LookedUpOf(q)'
  <2>1. CASE q # r
    BY <1>0, <1>6, <2>1, LookedUpFrame DEF Fail, RowsAfterFailure, TypeOK, Kept
  <2>2. CASE q = r
    BY <1>6, <2>2 DEF Fail, LookedUpOf, TypeOK
  <2> QED BY <2>1, <2>2
<1>7. ASSUME NEW d \in Deleters, FindLead(d)
      PROVE  LookedUpOf(q)'
  BY <1>0, <1>7, LookedUpFrame DEF FindLead, Kept
<1>8. ASSUME NEW d \in Deleters, DeleteLead(d)
      PROVE  LookedUpOf(q)'
  <2>1. ASSUME pc[q] # "idle", NEW e \in Emails, Kept(q, e)
        PROVE  Kept(q, e)'
    BY <1>8, <2>1 DEF DeleteLead, Kept
  <2> QED BY <1>0, <1>8, <2>1, LookedUpFrame DEF DeleteLead
<1>9. CASE UNCHANGED vars
  BY <1>0, <1>9, LookedUpFrame DEF vars, Kept
<1> QED BY <1>1, <1>2, <1>3, <1>4, <1>5, <1>6, <1>7, <1>8, <1>9 DEF Next

\* Every step keeps the rows of the imports that have ended, and no other import
\* has any.
LEMMA StepRowsMatch ==
    ASSUME TypeOK, ReadMatches, RowsMatch, [Next]_vars
    PROVE  RowsMatch'
<1> USE DEF session, validation, history, Goto
<1> SUFFICES ASSUME NEW q \in Imports
             PROVE  Created(q)' = IF pc'[q] = "done" THEN pending'[q] ELSE {}
  BY DEF RowsMatch
<1>0. /\ Created(q) = IF pc[q] = "done" THEN pending[q] ELSE {}
      /\ pc \in [Imports -> {"idle", "validate", "lookup", "done", "failed"}]
  BY DEF RowsMatch, TypeOK
<1>1. ASSUME NEW r \in Imports, Upload(r) \/ Validate(r)
      PROVE  Created(q)' = IF pc'[q] = "done" THEN pending'[q] ELSE {}
  BY <1>0, <1>1 DEF Upload, Validate, Created
<1>2. ASSUME NEW r \in Imports, Validated(r)
      PROVE  Created(q)' = IF pc'[q] = "done" THEN pending'[q] ELSE {}
  BY <1>0, <1>2 DEF Validated, Created, ReadMatches, ReadOf
<1>3. ASSUME NEW r \in Imports, LookUp(r)
      PROVE  Created(q)' = IF pc'[q] = "done" THEN pending'[q] ELSE {}
  <2>1. pc' = pc /\ lead' = lead /\ dropped' = dropped
        /\ (pc[q] = "done" => pending'[q] = pending[q])
    BY <1>0, <1>3 DEF LookUp, TypeOK
  <2> QED BY <1>0, <2>1 DEF Created
<1>4. ASSUME NEW r \in Imports, Commit(r)
      PROVE  Created(q)' = IF pc'[q] = "done" THEN pending'[q] ELSE {}
  <2>1. pc[r] = "lookup" /\ pending' = pending /\ dropped' = dropped
    BY <1>4 DEF Commit
  <2>2. CASE lead' = lead /\ pc' = [pc EXCEPT ![r] = "failed"]
    BY <1>0, <2>1, <2>2 DEF Created
  <2>3. CASE /\ ~Conflict(r) /\ pc' = [pc EXCEPT ![r] = "done"]
             /\ lead' = [e \in Emails |-> IF e \in pending[r] THEN r ELSE lead[e]]
    <3>1. CASE q = r
      <4>1. Created(q)' = pending[r] \cup Created(q)
        BY <2>1, <2>3, <3>1 DEF Created, TypeOK
      <4> QED BY <1>0, <2>1, <2>3, <3>1, <4>1
    <3>2. CASE q # r
      <4>1. \A e \in Emails : lead'[e] = q <=> lead[e] = q
        BY <2>3, <3>2, IngestionAssumption DEF Conflict
      <4> QED BY <1>0, <2>1, <2>3, <3>2, <4>1 DEF Created
    <3> QED BY <3>1, <3>2
  <2> QED BY <1>4, <2>2, <2>3 DEF Commit
<1>5. ASSUME NEW r \in Imports, Fail(r)
      PROVE  Created(q)' = IF pc'[q] = "done" THEN pending'[q] ELSE {}
  BY <1>0, <1>5 DEF Fail, RowsAfterFailure, Created
<1>6. ASSUME NEW d \in Deleters, FindLead(d)
      PROVE  Created(q)' = IF pc'[q] = "done" THEN pending'[q] ELSE {}
  BY <1>0, <1>6 DEF FindLead, Created
<1>7. ASSUME NEW d \in Deleters, DeleteLead(d)
      PROVE  Created(q)' = IF pc'[q] = "done" THEN pending'[q] ELSE {}
  <2>1. PICK hit \in SUBSET Emails :
           /\ lead' = [e \in Emails |-> IF e \in hit THEN None ELSE lead[e]]
           /\ dropped' = [x \in Imports |-> dropped[x] \cup {e \in hit : lead[e] = x}]
           /\ pc' = pc /\ pending' = pending
    BY <1>7 DEF DeleteLead
  <2>2. Created(q)' = Created(q)
    BY <2>1, IngestionAssumption DEF Created, TypeOK
  <2> QED BY <1>0, <2>1, <2>2
<1>8. CASE UNCHANGED vars
  BY <1>0, <1>8 DEF vars, Created
<1> QED BY <1>1, <1>2, <1>3, <1>4, <1>5, <1>6, <1>7, <1>8 DEF Next

-----------------------------------------------------------------------------
(* Theorems                                                                *)

LEMMA InitLInv == Init => LInv
<1> SUFFICES ASSUME Init PROVE LInv
  OBVIOUS
<1>1. TypeOK
  <2>1. NoReport \in Counts /\ <<>> \in Seq(Emails)
    BY DEF NoReport, Counts
  <2> QED BY <2>1 DEF Init, TypeOK
<1>2. ReadMatches /\ LookedUp
  BY DEF Init, ReadMatches, ReadOf, LookedUp, LookedUpOf
<1>3. RowsMatch
  BY IngestionAssumption DEF Init, RowsMatch, Created
<1> QED BY <1>1, <1>2, <1>3 DEF LInv

LEMMA Invariance == Spec => []LInv
<1>1. LInv /\ [Next]_vars => LInv'
  BY StepTypeOK, StepReadMatches, StepLookedUp, StepRowsMatch DEF LInv
<1> QED BY InitLInv, <1>1, PTL DEF Spec

\* The variables have their types.
THEOREM IngestionTypeOK == Spec => []TypeOK
<1>1. LInv => TypeOK
  BY DEF LInv
<1> QED BY Invariance, <1>1, PTL

\* However imports, deletions and failures interleave, an import that is
\* answered created as many rows as it reports, any other one none.
THEOREM ImportsAreExact == Spec => []ImportedIsExact
<1>1. LInv => ImportedIsExact
  BY DEF LInv, RowsMatch, LookedUp, LookedUpOf, ImportedIsExact
<1> QED BY Invariance, <1>1, PTL

\* After an import that was answered without errors, every valid address of its
\* file is in the database unless it was deleted.
THEOREM NoLeadIsLost == Spec => []NothingIsLost
<1>1. LInv => NothingIsLost
  BY DEF LInv, LookedUp, LookedUpOf, Kept, NothingIsLost, Elements
<1> QED BY Invariance, <1>1, PTL

\* The counts of a response add up to the rows of the file.
THEOREM RowsAreReported == Spec => []EveryRowIsReported
<1>1. LInv => EveryRowIsReported
  BY DEF LInv, LookedUp, LookedUpOf, Counted, File, EveryRowIsReported
<1> QED BY Invariance, <1>1, PTL

\* Validation keeps the first row of each address, once, and only if valid.
THEOREM ValidationKeepsFirst == Spec => []KeepsFirstValid
<1>1. LInv => KeepsFirstValid
  BY DEF LInv, ReadMatches, ReadOf, Read, FirstValid, Distinct, File, KeepsFirstValid
<1> QED BY Invariance, <1>1, PTL

\* No row is replaced, and one disappears only by a request that looked it up.
THEOREM RowsStay == Spec => RowsAreNotReplaced
<1> DEFINE Stays ==
      \A e \in Emails : lead[e] # None /\ lead'[e] # lead[e] =>
          lead'[e] = None /\ \E d \in Deleters : target[d] = <<e, lead[e]>>
<1>1. LInv /\ [Next]_vars => [Stays]_vars
  <2> SUFFICES ASSUME LInv, Next, NEW e \in Emails, lead[e] # None, lead'[e] # lead[e]
               PROVE  lead'[e] = None /\ \E d \in Deleters : target[d] = <<e, lead[e]>>
    OBVIOUS
  <2>1. ASSUME NEW r \in Imports, Commit(r)
        PROVE  FALSE
    BY <2>1 DEF Commit, Conflict
  <2>2. ASSUME NEW d \in Deleters, DeleteLead(d)
        PROVE  lead'[e] = None /\ target[d] = <<e, lead[e]>>
    BY <2>2 DEF DeleteLead, IsTarget
  <2>3. ASSUME NEW r \in Imports, Upload(r) \/ Validate(r) \/ Validated(r) \/ LookUp(r) \/ Fail(r)
        PROVE  lead' = lead
    BY <2>3 DEF Upload, Validate, Validated, LookUp, Fail, RowsAfterFailure
  <2>4. ASSUME NEW d \in Deleters, FindLead(d)
        PROVE  lead' = lead
    BY <2>4 DEF FindLead
  <2> QED BY <2>1, <2>2, <2>3, <2>4 DEF Next
<1> QED BY Invariance, <1>1, PTL DEF Spec, RowsAreNotReplaced
=============================================================================
