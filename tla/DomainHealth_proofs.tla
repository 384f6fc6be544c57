------------------------- MODULE DomainHealth_proofs -------------------------
(***************************************************************************)
(* For any number of checks and whatever DNS answers: an undisturbed check *)
(* is shown by the row, and only a raced check is refused.                 *)
(*                                                                         *)
(* Neither is inductive.  Synced says why the columns an UPDATE leaves out *)
(* do no harm: a check that nobody has overtaken has read the row that is  *)
(* there, but for its age.  Kept says that a row is never lost again.      *)
(***************************************************************************)
EXTENDS DomainHealth, TLAPS

\* All columns but the age of the row.
Contents == AllColumns \ {"fresh"}

\* A check that nobody has overtaken has read what the row still holds.
Synced ==
    \A r \in Checkers : at[r] = "save" /\ r \notin raced =>
        \A c \in Contents : domain[c] = loaded[r][c]

\* A row that was there once, or that somebody has read, is there.
Kept ==
    /\ domain # NoRow => domain.stored
    /\ refresh = "inspect" => domain.stored
    /\ \A r \in Checkers : at[r] = "save" /\ loaded[r].stored => domain.stored

\* The check the row should show has saved its report, so its report is final.
BasisSaved == basis # None => at[basis] = "saved"

HInv == TypeOK /\ Synced /\ Kept /\ BasisSaved /\ RowShowsReport /\ LosersWereRaced

-----------------------------------------------------------------------------
(* Reports and rows                                                        *)

\* What a report sets the columns to is a stored row, whatever the report says.
LEMMA ColumnsAreARow ==
  ASSUME NEW rep \in [mx: BOOLEAN, spf: BOOLEAN, dmarc: BOOLEAN]
  PROVE  Columns(rep) \in Rows /\ Columns(rep).stored = TRUE
<1>1. Score(rep) \in 0..100
  BY DEF Score, Weight
<1> QED BY <1>1 DEF Columns, Rows

\* The UPDATE of a row gives a row, column by column.
LEMMA UpdatedRow ==
  ASSUME NEW old \in Rows, NEW new \in Rows, NEW cols \in SUBSET AllColumns, domain \in Rows
  PROVE  /\ Updated(old, new, cols) \in Rows
         /\ \A c \in AllColumns :
               Updated(old, new, cols)[c] =
                   IF c \in cols /\ (new[c] # old[c] \/ c = "fresh")
                   THEN new[c] ELSE domain[c]
<1>1. DOMAIN domain = AllColumns
  BY DEF Rows, AllColumns
<1> DEFINE value(c) == IF c \in cols /\ (new[c] # old[c] \/ c = "fresh")
                       THEN new[c] ELSE domain[c]
           row == [c \in AllColumns |-> value(c)]
<1>2. Updated(old, new, cols) = row
  BY <1>1 DEF Updated
<1>3. /\ value("mx") \in BOOLEAN /\ value("spf") \in BOOLEAN /\ value("dmarc") \in BOOLEAN
      /\ value("score") \in 0..100 /\ value("healthy") \in BOOLEAN
      /\ value("fresh") \in BOOLEAN /\ value("stored") \in BOOLEAN
  BY DEF Rows
<1>4. row = [mx |-> value("mx"), spf |-> value("spf"), dmarc |-> value("dmarc"),
             score |-> value("score"), healthy |-> value("healthy"),
             fresh |-> value("fresh"), stored |-> value("stored")]
  <2> HIDE DEF value
  <2> QED BY DEF AllColumns
<1>5. row \in Rows
  <2> HIDE DEF value, row
  <2> QED BY <1>3, <1>4 DEF Rows
<1> QED BY <1>2, <1>5

\* Two rows with the same columns are the same row.
LEMMA RowsByColumns ==
  ASSUME NEW a \in Rows, NEW b \in Rows, \A c \in AllColumns : a[c] = b[c]
  PROVE  a = b
<1>1. /\ a.mx = b.mx /\ a.spf = b.spf /\ a.dmarc = b.dmarc /\ a.score = b.score
      /\ a.healthy = b.healthy /\ a.fresh = b.fresh /\ a.stored = b.stored
  BY DEF AllColumns
<1> QED BY <1>1 DEF Rows

-----------------------------------------------------------------------------
(* Steps of a check                                                        *)

\* Nothing is stored and nothing is read.
LEMMA InitHInv == Init => HInv
<1> SUFFICES ASSUME Init PROVE HInv
  OBVIOUS
<1>1. TypeOK
  BY DEF Init, TypeOK, NoRow, NoReport, Rows
<1>2. Synced /\ Kept /\ BasisSaved /\ RowShowsReport /\ LosersWereRaced
  BY DEF Init, Synced, Kept, BasisSaved, RowShowsReport, LosersWereRaced
<1> QED BY <1>1, <1>2 DEF HInv

\* The row and the history stay: the check moves to a place where it has read nothing
\* that matters, and was not refused.
LEMMA FrameHInv ==
  ASSUME HInv, TypeOK', UNCHANGED <<domain, loaded, maintenance, history>>,
         \A r \in Checkers : at'[r] \in {"save", "conflict"} => at'[r] = at[r],
         basis # None => report'[basis] = report[basis] /\ at'[basis] = at[basis]
  PROVE  HInv'
<1> USE DEF HInv, maintenance, history
<1>1. Synced'
  BY DEF Synced
<1>2. Kept'
  BY DEF Kept
<1>3. RowShowsReport'
  BY DEF RowShowsReport
<1>4. LosersWereRaced' /\ BasisSaved'
  BY DEF LosersWereRaced, BasisSaved
<1> QED BY <1>1, <1>2, <1>3, <1>4

\* DNS is asked.
LEMMA InspectHInv == ASSUME HInv, NEW r \in Checkers, Inspect(r) PROVE HInv'
<1>1. /\ TypeOK /\ at[r] = "new" /\ at' = [at EXCEPT ![r] = "load"]
      /\ UNCHANGED <<domain, loaded, maintenance, history>>
  BY DEF HInv, Inspect
<1>2. PICK found \in Reports : report' = [report EXCEPT ![r] = found]
  BY DEF Inspect
<1>3. TypeOK'
  BY <1>1, <1>2, DomainAssumption DEF TypeOK, maintenance, history
<1>4. basis # None => basis # r
  BY <1>1 DEF HInv, BasisSaved
<1>5. basis # None => report'[basis] = report[basis] /\ at'[basis] = at[basis]
  BY <1>1, <1>2, <1>4 DEF TypeOK
<1> QED BY <1>1, <1>3, <1>5, FrameHInv DEF TypeOK

\* The check ends on the way.
LEMMA AbortHInv == ASSUME HInv, NEW r \in Checkers, Abort(r) PROVE HInv'
<1>1. /\ TypeOK /\ at' = [at EXCEPT ![r] = "aborted"]
      /\ UNCHANGED <<domain, report, loaded, maintenance, history>>
  BY DEF HInv, Abort
<1>2. TypeOK'
  BY <1>1 DEF TypeOK, maintenance, history
<1>3. basis # None => report'[basis] = report[basis] /\ at'[basis] = at[basis]
  BY <1>1 DEF HInv, TypeOK, BasisSaved, Abort
<1> QED BY <1>1, <1>2, <1>3, FrameHInv DEF TypeOK

\* The row is read: what the check knows is what is there.
LEMMA LoadHInv == ASSUME HInv, NEW r \in Checkers, LoadDomain(r) PROVE HInv'
<1>1. /\ TypeOK /\ at[r] = "load" /\ at' = [at EXCEPT ![r] = "save"]
      /\ loaded' = [loaded EXCEPT ![r] = domain]
      /\ UNCHANGED <<domain, report, refresh, refreshed, basis, raced>>
  BY DEF HInv, LoadDomain, maintenance, history
<1>2. TypeOK'
  BY <1>1 DEF TypeOK
<1>3. Synced'
  BY <1>1 DEF HInv, TypeOK, Synced
<1>4. Kept'
  BY <1>1 DEF HInv, TypeOK, Kept
<1>5. RowShowsReport' /\ LosersWereRaced' /\ BasisSaved'
  BY <1>1 DEF HInv, TypeOK, RowShowsReport, LosersWereRaced, BasisSaved
<1> QED BY <1>2, <1>3, <1>4, <1>5 DEF HInv

-----------------------------------------------------------------------------
(* Steps that write the row                                                *)

\* A check that is not refused saves its report.
LEMMA SaveHInv ==
  ASSUME HInv, NEW r \in Checkers, SaveDomain(r), ~Refused(r) PROVE HInv'
<1> DEFINE row == Columns(report[r])
<1>1. /\ TypeOK /\ at[r] = "save" /\ domain \in Rows /\ loaded[r] \in Rows
      /\ domain' = Updated(loaded[r], row, AllColumns)
      /\ at' = [at EXCEPT ![r] = "saved"]
      /\ basis' = IF r \in raced THEN None ELSE r
      /\ raced' = raced \cup Overtaken
      /\ UNCHANGED <<report, loaded, refresh, refreshed>>
  BY DEF HInv, TypeOK, SaveDomain, SavedColumns, maintenance
<1>2. row \in Rows /\ row.stored = TRUE
  BY <1>1, ColumnsAreARow DEF TypeOK
<1> HIDE DEF row
<1>3. /\ domain' \in Rows
      /\ \A c \in AllColumns :
            domain'[c] = IF row[c] # loaded[r][c] \/ c = "fresh" THEN row[c] ELSE domain[c]
  BY <1>1, <1>2, UpdatedRow
<1>4. domain'.stored = TRUE
  <2>1. loaded[r].stored \in BOOLEAN /\ "stored" \in AllColumns
    BY <1>1 DEF Rows, AllColumns
  <2>2. domain'["stored"] = IF row["stored"] # loaded[r]["stored"]
                            THEN row["stored"] ELSE domain["stored"]
    BY <1>3, <2>1
  <2>3. loaded[r].stored = TRUE => domain.stored = TRUE
    BY <1>1 DEF HInv, Kept, Rows
  <2> QED BY <1>2, <2>1, <2>2, <2>3
<1>5. TypeOK'
  BY <1>1, <1>3 DEF TypeOK, Overtaken
<1>6. Synced' /\ Kept'
  BY <1>1, <1>4 DEF Synced, Kept, Overtaken, TypeOK
<1>7. BasisSaved'
  BY <1>1 DEF BasisSaved, TypeOK
<1>8. RowShowsReport'
  <2>1. CASE r \in raced
    BY <1>1, <2>1 DEF RowShowsReport
  <2>2. CASE r \notin raced
    <3>1. \A c \in Contents : domain[c] = loaded[r][c]
      BY <1>1, <2>2 DEF HInv, Synced
    <3>2. \A c \in Contents : domain'[c] = row[c]
      BY <1>3, <3>1 DEF Contents
    <3>3. basis' = r /\ report' = report
      BY <1>1, <2>2
    <3> QED BY <3>2, <3>3 DEF RowShowsReport, Contents, row
  <2> QED BY <2>1, <2>2
<1>9. LosersWereRaced'
  BY <1>1, <1>4 DEF HInv, LosersWereRaced, TypeOK
<1> QED BY <1>5, <1>6, <1>7, <1>8, <1>9 DEF HInv

\* A check is refused: it read no row, so somebody has overtaken it.
LEMMA RefusedHInv ==
  ASSUME HInv, NEW r \in Checkers, SaveDomain(r), Refused(r) PROVE HInv'
<1>1. /\ TypeOK /\ at[r] = "save" /\ domain # NoRow /\ loaded[r] = NoRow
      /\ at' = [at EXCEPT ![r] = "conflict"]
      /\ UNCHANGED <<domain, report, loaded, refresh, refreshed, basis, raced>>
  BY DEF HInv, SaveDomain, Refused, maintenance, history
<1>2. domain.stored
  BY <1>1 DEF HInv, Kept
<1>3. r \in raced
  <2>1. "stored" \in Contents
    BY DEF Contents, AllColumns
  <2>2. r \notin raced => domain["stored"] = NoRow["stored"]
    BY <1>1, <2>1 DEF HInv, Synced
  <2>3. NoRow.stored = FALSE
    BY DEF NoRow
  <2> QED BY <1>2, <2>2, <2>3
<1>4. TypeOK'
  BY <1>1 DEF TypeOK
<1>5. Synced' /\ Kept'
  BY <1>1 DEF HInv, Synced, Kept, TypeOK
<1>6. BasisSaved' /\ RowShowsReport'
  BY <1>1 DEF HInv, BasisSaved, RowShowsReport, TypeOK
<1>7. LosersWereRaced'
  BY <1>1, <1>2, <1>3 DEF HInv, LosersWereRaced, TypeOK
<1> QED BY <1>4, <1>5, <1>6, <1>7 DEF HInv

\* Only the age of the row changes: a row that ages is there.
LEMMA AgeHInv == ASSUME HInv, Age PROVE HInv'
<1>1. /\ TypeOK /\ domain \in Rows /\ domain.fresh
      /\ domain' = [domain EXCEPT !.fresh = FALSE]
      /\ UNCHANGED <<at, report, loaded, refresh, refreshed, basis, raced>>
  BY DEF HInv, TypeOK, Age, checks, maintenance, history
<1>2. domain' \in Rows /\ \A c \in Contents : domain'[c] = domain[c]
  <2>1. domain' = [mx |-> domain.mx, spf |-> domain.spf, dmarc |-> domain.dmarc,
                   score |-> domain.score, healthy |-> domain.healthy,
                   fresh |-> FALSE, stored |-> domain.stored]
    BY <1>1 DEF Rows
  <2>2. domain' \in Rows
    BY <1>1, <2>1 DEF Rows
  <2>3. \A c \in Contents : domain'[c] = domain[c]
    BY <2>1 DEF Contents, AllColumns
  <2> QED BY <2>2, <2>3
<1>3. domain.stored /\ domain'.stored = domain.stored
  <2>1. domain # NoRow
    BY <1>1 DEF NoRow
  <2> QED BY <1>1, <2>1 DEF HInv, Kept, Rows
<1>4. TypeOK'
  BY <1>1, <1>2 DEF TypeOK
<1>5. Synced'
  BY <1>1, <1>2 DEF HInv, Synced
<1>6. Kept' /\ LosersWereRaced' /\ BasisSaved'
  BY <1>1, <1>3 DEF HInv, Kept, LosersWereRaced, BasisSaved
<1>7. RowShowsReport'
  BY <1>1, <1>2 DEF HInv, RowShowsReport, Contents
<1> QED BY <1>4, <1>5, <1>6, <1>7 DEF HInv

-----------------------------------------------------------------------------
(* Steps of the maintenance worker                                         *)

\* The row is read, or the cycle is rolled back.
LEMMA CycleHInv == ASSUME HInv, ReadStale \/ AbandonRefresh PROVE HInv'
<1>1. /\ TypeOK /\ refresh' \in {"idle", "inspect"} /\ refreshed' \in Rows
      /\ UNCHANGED <<domain, at, report, loaded, basis, raced>>
      /\ refresh' = "inspect" => domain # NoRow
  <2>1. NoRow \in Rows
    BY DEF NoRow, Rows
  <2>2. CASE ReadStale
    BY <2>2 DEF HInv, TypeOK, ReadStale, checks, history
  <2>3. CASE AbandonRefresh
    BY <2>1, <2>3 DEF HInv, TypeOK, AbandonRefresh, checks, history
  <2> QED BY <2>2, <2>3
<1>2. TypeOK'
  BY <1>1 DEF TypeOK
<1>3. Synced' /\ Kept'
  BY <1>1 DEF HInv, Synced, Kept
<1>4. BasisSaved' /\ RowShowsReport' /\ LosersWereRaced'
  BY <1>1 DEF HInv, BasisSaved, RowShowsReport, LosersWereRaced
<1> QED BY <1>2, <1>3, <1>4 DEF HInv

\* The columns the refresh gets to are written: if that changes anything, every
\* check that has read the row is overtaken and the row shows no report any more.
LEMMA RefreshHInv == ASSUME HInv, CommitRefresh PROVE HInv'
<1>1. PICK rep \in Reports : domain' = Updated(refreshed, Columns(rep), RefreshedColumns)
  BY DEF CommitRefresh
<1>2. /\ TypeOK /\ domain \in Rows /\ refreshed \in Rows /\ refresh = "inspect"
      /\ refresh' = "idle" /\ refreshed' = NoRow
      /\ \/ domain' = domain /\ UNCHANGED <<basis, raced>>
         \/ basis' = None /\ raced' = raced \cup Overtaken
      /\ UNCHANGED <<at, report, loaded>>
  BY DEF HInv, TypeOK, CommitRefresh, checks, history
<1>3. Columns(rep) \in Rows /\ RefreshedColumns \subseteq AllColumns
  BY ColumnsAreARow, DomainAssumption DEF RefreshedColumns, AllColumns
<1>4. /\ domain' \in Rows
      /\ \A c \in AllColumns : c \notin RefreshedColumns => domain'[c] = domain[c]
  BY <1>1, <1>2, <1>3, UpdatedRow
<1>5. domain.stored /\ domain'.stored = domain.stored
  <2>1. "stored" \in AllColumns /\ "stored" \notin RefreshedColumns
    BY DEF AllColumns, RefreshedColumns
  <2> QED BY <1>2, <1>4, <2>1 DEF HInv, Kept
<1>6. TypeOK'
  BY <1>2, <1>4 DEF TypeOK, Overtaken, NoRow, Rows
<1>7. Synced'
  BY <1>2 DEF HInv, Synced, Overtaken
<1>8. Kept' /\ BasisSaved' /\ RowShowsReport'
  BY <1>2, <1>5 DEF HInv, Kept, BasisSaved, RowShowsReport
<1>9. LosersWereRaced'
  BY <1>2, <1>5 DEF HInv, LosersWereRaced
<1> QED BY <1>6, <1>7, <1>8, <1>9 DEF HInv

\* Nothing happens.
LEMMA StutterHInv == ASSUME HInv, UNCHANGED vars PROVE HInv'
<1>1. UNCHANGED <<domain, at, report, loaded, refresh, refreshed, basis, raced>>
  BY DEF vars, checks, maintenance, history
<1>2. TypeOK' /\ Synced' /\ Kept'
  BY <1>1 DEF HInv, TypeOK, Synced, Kept
<1>3. BasisSaved' /\ RowShowsReport' /\ LosersWereRaced'
  BY <1>1 DEF HInv, BasisSaved, RowShowsReport, LosersWereRaced
<1> QED BY <1>2, <1>3 DEF HInv

-----------------------------------------------------------------------------
(* The theorems                                                            *)

LEMMA HealthInvariant == Spec => []HInv
<1>1. HInv /\ [Next]_vars => HInv'
  BY InspectHInv, LoadHInv, SaveHInv, RefusedHInv, AbortHInv, AgeHInv, CycleHInv,
     RefreshHInv, StutterHInv DEF Next
<1> QED BY <1>1, InitHInv, PTL DEF Spec

\* Every row, and every copy of it, is one: its score is between 0 and 100.
THEOREM HealthTypeOK == Spec => []TypeOK
  BY HealthInvariant, PTL DEF HInv

\* After a check that nobody overtook, flags, score and verdict agree with its report.
THEOREM RowsShowReports == Spec => []RowShowsReport
  BY HealthInvariant, PTL DEF HInv

\* Whoever is refused lost a race for the insert.
THEOREM OnlyRacedChecksLose == Spec => []LosersWereRaced
  BY HealthInvariant, PTL DEF HInv
=============================================================================
