---------------------------- MODULE DomainHealth ----------------------------
(***************************************************************************)
(* The stored health of a sending domain: requests check the domain and    *)
(* save their report, and the maintenance worker refreshes a row that is   *)
(* more than a day old.                                                    *)
(*                                                                         *)
(* DNS is asked before the row is read (requests) or while it is held in   *)
(* memory (maintenance); the ORM then updates those columns that differ    *)
(* from the ones it has read, no other ones.  One domain of one tenant is  *)
(* followed; a record is one Boolean, there or not.                        *)
(***************************************************************************)
EXTENDS Integers

CONSTANTS
    Checkers,       \* requests, each made once
    Reports,        \* what DNS may tell
    None

ASSUME DomainAssumption ==
    /\ Reports \subseteq [mx: BOOLEAN, spf: BOOLEAN, dmarc: BOOLEAN]
    /\ None \notin Checkers

VARIABLES
    domain,             \* the committed row
    at, report, loaded, \* where a check is, its report, the row it has read
    refresh, refreshed, \* where the maintenance worker is, the row it has read
    basis, raced        \* history: the check whose report the row should show,
                        \* the checks overtaken by a write since they read it

checks == <<at, report, loaded>>
maintenance == <<refresh, refreshed>>
history == <<basis, raced>>
vars == <<domain, checks, maintenance, history>>

NoRow == [mx |-> FALSE, spf |-> FALSE, dmarc |-> FALSE, score |-> 0, healthy |-> FALSE,
          fresh |-> FALSE, stored |-> FALSE]
NoReport == [mx |-> FALSE, spf |-> FALSE, dmarc |-> FALSE]

Init ==
    /\ domain = NoRow
    /\ at = [r \in Checkers |-> "new"]
    /\ report = [r \in Checkers |-> NoReport]
    /\ loaded = [r \in Checkers |-> NoRow]
    /\ refresh = "idle"
    /\ refreshed = NoRow
    /\ basis = None
    /\ raced = {}

-----------------------------------------------------------------------------
(* Reports and rows                                                        *)

Weight(found, points) == IF found THEN points ELSE 0

\* inspect_domain_health: a look-up that fails counts as no record.
Score(rep) == Weight(rep.mx, 30) + Weight(rep.spf, 35) + Weight(rep.dmarc, 35)

\* What the columns are set to, last_checked_at ("fresh") among them.
Columns(rep) ==
    [mx |-> rep.mx, spf |-> rep.spf, dmarc |-> rep.dmarc, score |-> Score(rep),
     healthy |-> Score(rep) >= 65 /\ rep.mx, fresh |-> TRUE, stored |-> TRUE]

\* The UPDATE of the columns "cols" of a row read as "old"; the time of the
\* check always differs.
Updated(old, new, cols) ==
    [c \in DOMAIN domain |->
        IF c \in cols /\ (new[c] # old[c] \/ c = "fresh") THEN new[c] ELSE domain[c]]

AllColumns == {"mx", "spf", "dmarc", "score", "healthy", "fresh", "stored"}

\* Another write overtakes the checks that have read the row.
Overtaken == {r \in Checkers : at[r] = "save"}

-----------------------------------------------------------------------------
(* GET /domains/check                                                      *)

Inspect(r) ==
    /\ at[r] = "new"
    /\ \E found \in Reports : report' = [report EXCEPT ![r] = found]
    /\ at' = [at EXCEPT ![r] = "load"]
    /\ UNCHANGED <<domain, loaded, maintenance, history>>

LoadDomain(r) ==
    /\ at[r] = "load"
    /\ loaded' = [loaded EXCEPT ![r] = domain]
    /\ at' = [at EXCEPT ![r] = "save"]
    /\ UNCHANGED <<domain, report, maintenance, history>>

SavedColumnsOld == AllColumns \ {"healthy"}     \* mutant: leaves is_healthy
SavedColumns == AllColumns

\* uq_org_domain refuses the row of a check that has read none.
RefusedStale(r) == domain # loaded[r]           \* mutant: versioned rows
Refused(r) == loaded[r] = NoRow /\ domain # NoRow

SaveDomain(r) ==
    /\ at[r] = "save"
    /\ IF Refused(r)
       THEN /\ at' = [at EXCEPT ![r] = "conflict"]
            /\ UNCHANGED <<domain, history>>
       ELSE /\ domain' = Updated(loaded[r], Columns(report[r]), SavedColumns)
            /\ at' = [at EXCEPT ![r] = "saved"]
            /\ basis' = IF r \in raced THEN None ELSE r
            /\ raced' = raced \cup Overtaken
    /\ UNCHANGED <<report, loaded, maintenance>>

\* The process dies, or a statement fails.
Abort(r) ==
    /\ at[r] \in {"load", "save"}
    /\ at' = [at EXCEPT ![r] = "aborted"]
    /\ UNCHANGED <<domain, report, loaded, maintenance, history>>

-----------------------------------------------------------------------------
(* The maintenance worker                                                  *)

\* 24 hours pass.
Age ==
    /\ domain.fresh
    /\ domain' = [domain EXCEPT !.fresh = FALSE]
    /\ UNCHANGED <<checks, maintenance, history>>

\* refresh_stale_domain_diagnostics, in the transaction of the cycle.
ReadStale ==
    /\ refresh = "idle" /\ domain # NoRow /\ ~domain.fresh
    /\ refresh' = "inspect"
    /\ refreshed' = domain
    /\ UNCHANGED <<domain, checks, history>>

\* The third assignment reads an attribute that reports do not have; the error
\* is logged and the columns assigned so far are committed with the cycle.
RefreshedColumns == {"mx", "spf"}

CommitRefresh ==
    /\ refresh = "inspect"
    /\ \E rep \in Reports : domain' = Updated(refreshed, Columns(rep), RefreshedColumns)
    /\ refresh' = "idle"
    /\ refreshed' = NoRow
    /\ IF domain' = domain THEN UNCHANGED history
       ELSE basis' = None /\ raced' = raced \cup Overtaken
    /\ UNCHANGED checks

\* The cycle fails or its process dies.
AbandonRefresh ==
    /\ refresh = "inspect"
    /\ refresh' = "idle"
    /\ refreshed' = NoRow
    /\ UNCHANGED <<domain, checks, history>>

-----------------------------------------------------------------------------
Next ==
    \/ \E r \in Checkers : Inspect(r) \/ LoadDomain(r) \/ SaveDomain(r) \/ Abort(r)
    \/ Age \/ ReadStale \/ CommitRefresh \/ AbandonRefresh

Spec == Init /\ [][Next]_vars

-----------------------------------------------------------------------------
(* Properties                                                              *)

Rows == [mx: BOOLEAN, spf: BOOLEAN, dmarc: BOOLEAN, score: 0..100, healthy: BOOLEAN,
         fresh: BOOLEAN, stored: BOOLEAN]

\* Type invariant.
TypeOK ==
    /\ domain \in Rows /\ refreshed \in Rows
    /\ at \in [Checkers -> {"new", "load", "save", "saved", "conflict", "aborted"}]
    /\ report \in [Checkers -> [mx: BOOLEAN, spf: BOOLEAN, dmarc: BOOLEAN]]
    /\ loaded \in [Checkers -> Rows]
    /\ refresh \in {"idle", "inspect"}
    /\ basis \in Checkers \cup {None}
    /\ raced \subseteq Checkers

\* A check that no other write overtakes leaves the row as its report says, in
\* flags, score and verdict, whatever mixture of reports earlier races and the
\* maintenance worker have left there (routes.py:703-724).
RowShowsReport ==
    basis # None =>
        \A c \in AllColumns \ {"fresh"} : domain[c] = Columns(report[basis])[c]

\* A check is refused only if another one has inserted the row since it looked
\* for it; a row that has grown old or was refreshed refuses nobody
\* (models.py:501, routes.py:703-724).
LosersWereRaced ==
    \A r \in Checkers : at[r] = "conflict" => r \in raced /\ domain.stored
=============================================================================
