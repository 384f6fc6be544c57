-------------------------- MODULE Enrichment_proofs --------------------------
(***************************************************************************)
(* Proofs about enrichment, for any numbers of leads, jobs, threads,       *)
(* workers, permits and redirects, and without a bound on deaths.          *)
(*                                                                         *)
(* EInv is inductive.  Beyond types and permits it says that a call holds  *)
(* the row it fetches for (LocksMatch), what a call knows about its lead   *)
(* (CallsMatch), and that a worker works on the lead of the one job it     *)
(* holds, which keeps the lead from being deleted (JobsMatch).             *)
(*                                                                         *)
(* RInv, on top of it, keeps the ledger of fetches: every audit row and    *)
(* every running call is paid for by a request, a finished job or a death. *)
(* LockedByFetch is the converse of LocksMatch, and shows who can wait for *)
(* whom; Remaining counts the steps of a call.  The two are what can be    *)
(* proved of CallsReturn.                                                  *)
(***************************************************************************)
EXTENDS Enrichment, FiniteSetTheorems, TLAPS

CallsMatch ==
    \A a \in Actors :
        /\ task[a] = None <=> pc[a] \in {"idle", "succeeded", "failed"}
        /\ pc[a] = "mark" => task[a] \notin Sites
        /\ pc[a] \in Fetching \cup {"flush"} => task[a] \in Sites
        /\ pc[a] \in {"succeeded", "failed"} => a \in Workers

LocksMatch ==
    /\ \A a \in Actors : pc[a] \in Fetching => owner[task[a]] = a
    /\ \A l \in Leads : owner[l] # None => lead[l].status # "gone"
    /\ \A l \in Leads : lead[l].status # "enriching"

JobsMatch ==
    /\ \A j \in Jobs : job[j] # "processing"
    /\ \A j \in Jobs : holder[j] # None =>
          /\ job[j] = "queued"
          /\ pc[holder[j]] # "idle"
          /\ task[holder[j]] # None => task[holder[j]] = LeadOf[j]
          /\ pc[holder[j]] = "succeeded" => lead[LeadOf[j]].status = "enriched"
    /\ \A i, j \in Jobs : holder[i] # None /\ holder[i] = holder[j] => i = j

\* What PermitsConserved says beyond TypeOK.
PermitLedger ==
    \A p \in Processes : free[p] + Cardinality(Browsing(p)) = Permits

EInv == TypeOK /\ PermitLedger /\ CallsMatch /\ LocksMatch /\ JobsMatch

-----------------------------------------------------------------------------
(* The permits                                                             *)

\* The actors that browse in a process are finitely many.
LEMMA BrowsingFinite ==
    ASSUME NEW p
    PROVE  /\ IsFiniteSet(Browsing(p)) /\ Cardinality(Browsing(p)) \in Nat
           /\ IsFiniteSet(Browsing(p)') /\ Cardinality(Browsing(p)') \in Nat
<1>1. IsFiniteSet(Actors)
  BY EnrichmentAssumption, FS_Union DEF Actors
<1>2. Browsing(p) \subseteq Actors /\ Browsing(p)' \subseteq Actors
  BY DEF Browsing
<1> QED BY <1>1, <1>2, FS_Subset, FS_CardinalityType

\* As long as nobody starts or stops to browse, the permits stay.
LEMMA PermitsUntouched ==
    ASSUME TypeOK, PermitLedger, free' = free,
           \A a \in Actors : pc'[a] = "browser" <=> pc[a] = "browser"
    PROVE  PermitLedger'
<1>1. \A p : Browsing(p)' = Browsing(p)
  BY DEF Browsing
<1> QED BY <1>1 DEF PermitLedger

\* Acquiring takes one permit of the process for the one more that browses.
LEMMA PermitAcquired ==
    ASSUME TypeOK, PermitLedger, NEW a \in Actors, Acquire(a)
    PROVE  PermitLedger'
<1> DEFINE q == ProcessOf(a)
<1>1. q \in Processes
  BY DEF q, ProcessOf, Processes
<1>2. /\ free' = [free EXCEPT ![q] = @ - 1] /\ free[q] \in Nat
      /\ pc' = [pc EXCEPT ![a] = "browser"] /\ pc[a] = "fallback"
  BY <1>1 DEF Acquire, Goto, TypeOK
<1>3. ASSUME NEW p \in Processes, p # q  PROVE Browsing(p)' = Browsing(p)
  BY <1>2, <1>3 DEF Browsing, TypeOK
<1>4. Browsing(q)' = Browsing(q) \cup {a} /\ a \notin Browsing(q)
  BY <1>2 DEF Browsing, TypeOK
<1>5. Cardinality(Browsing(q)') = Cardinality(Browsing(q)) + 1
  BY <1>4, BrowsingFinite, FS_AddElement
<1>6. ASSUME NEW p \in Processes
      PROVE  free'[p] + Cardinality(Browsing(p)') = Permits
  <2>1. CASE p = q
    BY <2>1, <1>1, <1>2, <1>5, BrowsingFinite DEF PermitLedger, TypeOK
  <2>2. CASE p # q
    BY <2>2, <1>1, <1>2, <1>3 DEF PermitLedger, TypeOK
  <2> QED BY <2>1, <2>2
<1> QED BY <1>6 DEF PermitLedger

\* The end of browsing gives the permit back, which the process can hold.
LEMMA PermitReleased ==
    ASSUME TypeOK, PermitLedger, NEW a \in Actors, Browse(a)
    PROVE  /\ PermitLedger'
           /\ free' \in [Processes -> 0..Permits]
<1> DEFINE q == ProcessOf(a)
<1>1. q \in Processes
  BY DEF q, ProcessOf, Processes
<1>2. PICK label \in {"useful", "useless"} : pc' = [pc EXCEPT ![a] = label]
  BY DEF Browse, Goto
<1>3. /\ free' = [free EXCEPT ![q] = @ + 1] /\ free[q] \in Nat /\ pc[a] = "browser"
  BY <1>1 DEF Browse, Release, TypeOK
<1>4. ASSUME NEW p \in Processes, p # q  PROVE Browsing(p)' = Browsing(p)
  BY <1>2, <1>4 DEF Browsing, TypeOK
<1>5. Browsing(q)' = Browsing(q) \ {a} /\ a \in Browsing(q)
  BY <1>2, <1>3 DEF Browsing, TypeOK
<1>6. Cardinality(Browsing(q)') = Cardinality(Browsing(q)) - 1
  BY <1>5, BrowsingFinite, FS_RemoveElement
<1>7. ASSUME NEW p \in Processes
      PROVE  /\ free'[p] + Cardinality(Browsing(p)') = Permits
             /\ free'[p] \in 0..Permits
  <2>1. CASE p = q
    BY <2>1, <1>1, <1>3, <1>6, BrowsingFinite, EnrichmentAssumption
       DEF PermitLedger, TypeOK
  <2>2. CASE p # q
    BY <2>2, <1>1, <1>3, <1>4 DEF PermitLedger, TypeOK
  <2> QED BY <2>1, <2>2
<1>8. free' \in [Processes -> 0..Permits]
  BY <1>3, <1>7 DEF TypeOK
<1> QED BY <1>7, <1>8 DEF PermitLedger

\* A process that dies takes its browsers along and starts with all permits.
LEMMA PermitsReborn ==
    ASSUME TypeOK, PermitLedger, NEW q \in Processes, Crash(q)
    PROVE  PermitLedger'
<1>1. /\ free' = [free EXCEPT ![q] = Permits]
      /\ pc' = [a \in Actors |-> IF a \in Dead(q) THEN "idle" ELSE pc[a]]
  BY DEF Crash
<1>2. Browsing(q)' = {}
  BY <1>1 DEF Browsing, Dead
<1>3. ASSUME NEW p \in Processes, p # q  PROVE Browsing(p)' = Browsing(p)
  BY <1>1, <1>3 DEF Browsing, Dead, TypeOK
<1>4. ASSUME NEW p \in Processes
      PROVE  free'[p] + Cardinality(Browsing(p)') = Permits
  <2>1. CASE p = q
    BY <2>1, <1>1, <1>2, FS_EmptySet, EnrichmentAssumption DEF TypeOK
  <2>2. CASE p # q
    BY <2>2, <1>1, <1>3 DEF PermitLedger, TypeOK
  <2> QED BY <2>1, <2>2
<1> QED BY <1>4 DEF PermitLedger

-----------------------------------------------------------------------------
(* Types                                                                   *)

\* What Store writes to the two rows has their types.
LEMMA StoreTypes ==
    ASSUME TypeOK, CallsMatch, NEW a \in Actors, Store(a)
    PROVE  /\ lead' \in [Leads -> LeadRows]
           /\ results' \in [Leads -> [scored: Nat, blank: Nat]]
<1> DEFINE l == task[a]
<1>3. l \in Leads
  BY DEF TypeOK, CallsMatch, Store
<1>4. \A m \in Leads : results[m] \in [scored: Nat, blank: Nat] /\ lead[m] \in LeadRows
  BY DEF TypeOK
<1>1. CASE \E f \in Features :
              LET score == IF pc[a] = "useful" THEN Confidence(f) ELSE 0
                  success == score > 0 \/ pc[a] = "useful"
              IN /\ Audit(l, score)
                 /\ lead' = [lead EXCEPT ![l] =
                        [status |-> "enriched", enriched |-> success \/ @.enriched]]
  <2>1. PICK kind \in {"scored", "blank"} : results' = [results EXCEPT ![l][kind] = @ + 1]
    BY <1>1 DEF Audit
  <2>2. results' \in [Leads -> [scored: Nat, blank: Nat]]
    <3>1. CASE kind = "scored"
      <4>1. results' = [results EXCEPT ![l].scored = @ + 1]
        BY <2>1, <3>1
      <4> QED BY <4>1, <1>3, <1>4 DEF TypeOK
    <3>2. CASE kind = "blank"
      <4>1. results' = [results EXCEPT ![l].blank = @ + 1]
        BY <2>1, <3>2
      <4> QED BY <4>1, <1>3, <1>4 DEF TypeOK
    <3> QED BY <3>1, <3>2
  <2>3. PICK e \in BOOLEAN : lead' = [lead EXCEPT ![l] =
                                 [status |-> "enriched", enriched |-> e \/ @.enriched]]
    BY <1>1
  <2>4. lead' \in [Leads -> LeadRows]
    BY <2>3, <1>3, <1>4 DEF TypeOK, LeadRows
  <2> QED BY <2>2, <2>4
<1>2. CASE UNCHANGED <<lead, results>>
  BY <1>2 DEF TypeOK
<1> QED BY <1>1, <1>2 DEF Store

\* ENRICHED is a status of a lead.
LEMMA MarkedRow ==
    ASSUME lead \in [Leads -> LeadRows], NEW l \in Leads
    PROVE  [lead EXCEPT ![l].status = "enriched"] \in [Leads -> LeadRows]
<1>1. lead[l] \in LeadRows
  OBVIOUS
<1>2. [lead[l] EXCEPT !.status = "enriched"] \in LeadRows
  BY <1>1 DEF LeadRows
<1> QED BY <1>2

\* A step of a call keeps the types.
LEMMA FetchTypeOK ==
    ASSUME TypeOK, PermitLedger, CallsMatch, NEW a \in Actors, Fetch(a)
    PROVE  TypeOK'
<1> USE EnrichmentAssumption DEF TypeOK, Labels, rows, locks, calls, history, Goto
<1>1. CASE Acquire(a)
  BY <1>1 DEF Acquire, Processes, ProcessOf
<1>2. CASE Browse(a)
  <2>1. free' \in [Processes -> 0..Permits]
    BY <1>2, PermitReleased
  <2> QED BY <1>2, <2>1 DEF Browse
<1>3. CASE Open(a)
  <2>1. /\ pc' \in [Actors -> Labels] /\ task' \in [Actors -> Leads \cup {None}]
        /\ UNCHANGED <<hop, todo>>
    BY <1>3 DEF Open, Return, Leave
  <2> QED BY <1>3, <2>1 DEF Open
<1>4. CASE Mark(a)
  <2>1. lead' \in [Leads -> LeadRows]
    <3>1. task[a] \in Leads
      BY <1>4 DEF Mark, CallsMatch
    <3>2. lead' = lead \/ lead' = [lead EXCEPT ![task[a]].status = "enriched"]
      BY <1>4 DEF Mark
    <3>3. lead \in [Leads -> LeadRows]
      OBVIOUS
    <3> QED BY <3>1, <3>2, <3>3, MarkedRow
  <2>2. /\ pc' \in [Actors -> Labels] /\ task' \in [Actors -> Leads \cup {None}]
        /\ hop' = hop /\ todo' \in [Threads -> SUBSET Leads]
    BY <1>4, ZenonT(60) DEF Mark, Return, Raise, Leave
  <2> QED BY <1>4, <2>1, <2>2 DEF Mark
<1>5. CASE Flush(a)
  <2>1. CASE Gone(task[a])
    <3>1. /\ pc' \in [Actors -> Labels] /\ task' \in [Actors -> Leads \cup {None}]
          /\ hop' = hop /\ todo' \in [Threads -> SUBSET Leads]
      BY <1>5, <2>1, ZenonT(60) DEF Flush, Raise, Leave
    <3> QED BY <1>5, <2>1, <3>1 DEF Flush
  <2>2. CASE ~Gone(task[a])
    <3>1. lead' \in [Leads -> LeadRows]
      BY <1>5, <2>2, SMTT(30) DEF Flush, MarkEnriching
    <3>2. pc' \in [Actors -> Labels] /\ UNCHANGED <<task, hop, todo>>
      BY <1>5, <2>2, SMTT(30) DEF Flush
    <3>3. owner' \in [Leads -> Actors \cup {Deleter, None}]
      BY <1>5, <2>2, ZenonT(60) DEF Flush
    <3> QED BY <1>5, <2>2, <3>1, <3>2, <3>3 DEF Flush
  <2> QED BY <2>1, <2>2
<1>6. CASE Rejected(a)
  BY <1>6 DEF Rejected, FetchEnds
<1>7. CASE Redirected(a)
  <2>1. hop' \in [Actors -> 0..MaxRedirects]
    <3>1. CASE HopsLeft(a)
      <4>1. hop[a] + 1 \in 0..MaxRedirects
        BY <3>1 DEF HopsLeft
      <4> QED BY <1>7, <3>1, <4>1 DEF Redirected
    <3>2. CASE ~HopsLeft(a)
      BY <1>7, <3>2 DEF Redirected, FetchEnds
    <3> QED BY <3>1, <3>2
  <2>2. pc' = pc \/ pc' = [pc EXCEPT ![a] = "fallback"]
    BY <1>7 DEF Redirected, FetchEnds
  <2>3. UNCHANGED <<rows, locks, task, todo, free, history>>
    BY <1>7 DEF Redirected, FetchEnds
  <2> QED BY <2>1, <2>2, <2>3
<1>8. CASE Answered(a)
  <2>1. PICK label \in {"useful", "fallback"} : FetchEnds(a, label)
    BY <1>8 DEF Answered
  <2> QED BY <1>8, <2>1 DEF Answered, FetchEnds
<1>9. CASE NoBrowser(a)
  BY <1>9 DEF NoBrowser, WithoutBrowser
<1>10. CASE Store(a)
  <2>1. /\ lead' \in [Leads -> LeadRows]
        /\ results' \in [Leads -> [scored: Nat, blank: Nat]]
    BY <1>10, StoreTypes
  <2>2. Raise(a) \/ \E success \in BOOLEAN : Return(a, success)
    BY <1>10 DEF Store
  <2>3. /\ pc' \in [Actors -> Labels] /\ task' \in [Actors -> Leads \cup {None}]
        /\ hop' = hop /\ todo' \in [Threads -> SUBSET Leads]
    BY <2>2 DEF Raise, Return, Leave
  <2> QED BY <1>10, <2>1, <2>3 DEF Store
<1> QED BY <1>1, <1>2, <1>3, <1>4, <1>5, <1>6, <1>7, <1>8, <1>9, <1>10 DEF Fetch

\* Only a call that gets or gives back a permit changes who browses.
LEMMA FetchPermits ==
    ASSUME TypeOK, PermitLedger, NEW a \in Actors, Fetch(a)
    PROVE  PermitLedger'
<1>1. CASE Acquire(a)
  BY <1>1, PermitAcquired
<1>2. CASE Browse(a)
  BY <1>2, PermitReleased
<1>3. ASSUME free' = free, pc[a] # "browser", NEW label, label # "browser",
             pc' = [pc EXCEPT ![a] = label]
      PROVE  PermitLedger'
  BY <1>3, PermitsUntouched DEF TypeOK
<1>4. CASE Open(a)
  BY <1>3, <1>4, PermitsUntouched DEF TypeOK, calls, Goto, Return, Raise, Leave, FetchEnds,
     Open
<1>5. CASE Mark(a)
  BY <1>3, <1>5, PermitsUntouched DEF TypeOK, calls, Goto, Return, Raise, Leave, FetchEnds,
     Mark
<1>6. CASE Flush(a)
  BY <1>3, <1>6, PermitsUntouched DEF TypeOK, calls, Goto, Return, Raise, Leave, FetchEnds,
     Flush, MarkEnriching, RowFree
<1>7. CASE Rejected(a)
  BY <1>3, <1>7, PermitsUntouched DEF TypeOK, calls, Goto, Return, Raise, Leave, FetchEnds,
     Rejected
<1>8. CASE Redirected(a)
  BY <1>3, <1>8, PermitsUntouched DEF TypeOK, calls, Goto, Return, Raise, Leave, FetchEnds,
     Redirected, HopsLeft
<1>9. CASE Answered(a)
  BY <1>3, <1>9, PermitsUntouched DEF TypeOK, calls, Goto, Return, Raise, Leave, FetchEnds,
     Answered
<1>10. CASE NoBrowser(a)
  BY <1>3, <1>10, PermitsUntouched DEF TypeOK, calls, Goto, Return, Raise, Leave, FetchEnds,
     NoBrowser, WithoutBrowser
<1>11. CASE Store(a)
  BY <1>3, <1>11, PermitsUntouched DEF TypeOK, calls, Goto, Return, Raise, Leave, FetchEnds,
     Store
<1> QED BY <1>1, <1>2, <1>4, <1>5, <1>6, <1>7, <1>8, <1>9, <1>10, <1>11 DEF Fetch

\* So does every other step.
LEMMA StepTypeOK ==
    ASSUME TypeOK, PermitLedger, CallsMatch, [Next]_vars
    PROVE  TypeOK'
<1>1. ASSUME NEW a \in Actors, Fetch(a)
      PROVE  TypeOK'
  BY <1>1, FetchTypeOK
<1> USE EnrichmentAssumption DEF TypeOK, Actors, Labels,
        rows, locks, calls, history, Goto, Take
<1>2. ASSUME NEW q \in Processes, Crash(q)
      PROVE  TypeOK'
  BY <1>2 DEF Crash, Processes
<1>3. ASSUME NEW t \in Threads, RequestPending(t)
      PROVE  TypeOK'
  BY <1>3 DEF RequestPending
<1>4. ASSUME NEW t \in Threads, NextPending(t)
      PROVE  TypeOK'
  BY <1>4 DEF NextPending
<1>5. ASSUME NEW t \in Threads, NEW l \in Leads, RequestOne(t, l)
      PROVE  TypeOK'
  BY <1>5 DEF RequestOne
<1>6. ASSUME NEW w \in Workers, Claim(w)
      PROVE  TypeOK'
  BY <1>6 DEF Claim, Claimable
<1>7. ASSUME NEW w \in Workers, CloseJob(w)
      PROVE  TypeOK'
  BY <1>7 DEF CloseJob, Outcome
<1>8. ASSUME NEW l \in Leads, DeleteLead(l)
      PROVE  TypeOK'
  BY <1>8 DEF DeleteLead
<1>9. ASSUME NEW l \in Leads, Cascade(l)
      PROVE  TypeOK'
  BY <1>9 DEF Cascade, NoResults, LeadRows
<1>10. CASE UNCHANGED vars
  BY <1>10 DEF vars
<1> QED BY <1>1, <1>2, <1>3, <1>4, <1>5, <1>6, <1>7, <1>8, <1>9, <1>10 DEF Next

\* No step loses or makes a permit.
LEMMA StepPermits ==
    ASSUME TypeOK, PermitLedger, [Next]_vars
    PROVE  PermitLedger'
<1>1. ASSUME NEW a \in Actors, Fetch(a)
      PROVE  PermitLedger'
  BY <1>1, FetchPermits
<1>2. ASSUME NEW q \in Processes, Crash(q)
      PROVE  PermitLedger'
  BY <1>2, PermitsReborn
<1> USE PermitsUntouched DEF TypeOK, calls, Goto, Take
<1>3. ASSUME NEW t \in Threads, RequestPending(t)
      PROVE  PermitLedger'
  BY <1>3 DEF RequestPending
<1>4. ASSUME NEW t \in Threads, NextPending(t)
      PROVE  PermitLedger'
  BY <1>4 DEF NextPending
<1>5. ASSUME NEW t \in Threads, NEW l \in Leads, RequestOne(t, l)
      PROVE  PermitLedger'
  BY <1>5 DEF RequestOne
<1>6. ASSUME NEW w \in Workers, Claim(w)
      PROVE  PermitLedger'
  BY <1>6 DEF Claim
<1>7. ASSUME NEW w \in Workers, CloseJob(w)
      PROVE  PermitLedger'
  BY <1>7 DEF CloseJob
<1>8. ASSUME NEW l \in Leads, DeleteLead(l) \/ Cascade(l)
      PROVE  PermitLedger'
  BY <1>8 DEF DeleteLead, Cascade
<1>9. CASE UNCHANGED vars
  BY <1>9 DEF vars
<1> QED BY <1>1, <1>2, <1>3, <1>4, <1>5, <1>6, <1>7, <1>8, <1>9 DEF Next

-----------------------------------------------------------------------------
(* What a call knows, and what it holds                                    *)

\* A step of a call keeps what it and the others know.
LEMMA FetchCallsMatch ==
    ASSUME TypeOK, CallsMatch, NEW a \in Actors, Fetch(a)
    PROVE  CallsMatch'
<1> USE EnrichmentAssumption DEF TypeOK, CallsMatch, Fetching, calls, Goto
<1>1. CASE Open(a)
  BY <1>1 DEF Open, Return, Leave, Actors
<1>2. CASE Mark(a)
  <2>1. PICK label : /\ pc' = [pc EXCEPT ![a] = label] /\ task' = [task EXCEPT ![a] = None]
                     /\ label \in {"idle", "succeeded", "failed"}
                     /\ label # "idle" => a \notin Threads
    BY <1>2 DEF Mark, Return, Raise, Leave
  <2> QED BY <2>1 DEF Actors
<1>3. CASE Flush(a)
  BY <1>3 DEF Flush, Raise, Leave, Actors
<1>4. CASE Rejected(a)
  BY <1>4 DEF Rejected, FetchEnds
<1>5. CASE Redirected(a)
  BY <1>5 DEF Redirected, FetchEnds
<1>6. CASE Answered(a)
  <2>1. PICK label \in {"useful", "fallback"} : FetchEnds(a, label)
    BY <1>6 DEF Answered
  <2> QED BY <1>6, <2>1 DEF Answered, FetchEnds
<1>7. CASE NoBrowser(a)
  BY <1>7 DEF NoBrowser, WithoutBrowser
<1>8. CASE Acquire(a)
  BY <1>8 DEF Acquire
<1>9. CASE Browse(a)
  BY <1>9 DEF Browse
<1>10. CASE Store(a)
  <2>1. Raise(a) \/ \E success \in BOOLEAN : Return(a, success)
    BY <1>10 DEF Store
  <2> QED BY <1>10, <2>1 DEF Store, Raise, Return, Leave, Actors
<1> QED BY <1>1, <1>2, <1>3, <1>4, <1>5, <1>6, <1>7, <1>8, <1>9, <1>10 DEF Fetch

\* So does every other step.
LEMMA StepCallsMatch ==
    ASSUME TypeOK, CallsMatch, [Next]_vars
    PROVE  CallsMatch'
<1>1. ASSUME NEW a \in Actors, Fetch(a)
      PROVE  CallsMatch'
  BY <1>1, FetchCallsMatch
<1> USE EnrichmentAssumption DEF TypeOK, CallsMatch, Fetching, calls, Goto, Take, Actors
<1>2. ASSUME NEW q \in Processes, Crash(q)
      PROVE  CallsMatch'
  BY <1>2 DEF Crash
<1>3. ASSUME NEW t \in Threads, RequestPending(t)
      PROVE  CallsMatch'
  BY <1>3 DEF RequestPending
<1>4. ASSUME NEW t \in Threads, NextPending(t)
      PROVE  CallsMatch'
  BY <1>4 DEF NextPending
<1>5. ASSUME NEW t \in Threads, NEW l \in Leads, RequestOne(t, l)
      PROVE  CallsMatch'
  BY <1>5 DEF RequestOne
<1>6. ASSUME NEW w \in Workers, Claim(w)
      PROVE  CallsMatch'
  <2>1. PICK j \in Jobs : Take(w, LeadOf[j])
    BY <1>6 DEF Claim, Claimable
  <2> QED BY <1>6, <2>1 DEF Claim
<1>7. ASSUME NEW w \in Workers, CloseJob(w)
      PROVE  CallsMatch'
  BY <1>7 DEF CloseJob
<1>8. ASSUME NEW l \in Leads, DeleteLead(l) \/ Cascade(l)
      PROVE  CallsMatch'
  BY <1>8 DEF DeleteLead, Cascade
<1>9. CASE UNCHANGED vars
  BY <1>9 DEF vars
<1> QED BY <1>1, <1>2, <1>3, <1>4, <1>5, <1>6, <1>7, <1>8, <1>9 DEF Next

\* A step of a call takes a row that is free and not gone, and leaves the
\* row it holds only with the fetch.
LEMMA FetchLocksMatch ==
    ASSUME TypeOK, CallsMatch, LocksMatch, NEW a \in Actors, Fetch(a)
    PROVE  LocksMatch'
<1> USE EnrichmentAssumption DEF TypeOK, CallsMatch, LocksMatch, Fetching, calls, rows, locks, Goto
<1>1. CASE Open(a)
  BY <1>1 DEF Open, Return, Leave
<1>2. CASE Mark(a)
  <2>1. task[a] \in Leads
    BY <1>2 DEF Mark
  <2>2. CASE Gone(task[a])
    BY <1>2, <2>1, <2>2 DEF Mark, Raise, Leave
  <2>3. CASE ~Gone(task[a])
    <3>1. lead' = [lead EXCEPT ![task[a]].status = "enriched"]
      BY <1>2, <2>3 DEF Mark
    <3>2. \A l \in Leads : lead'[l].status = lead[l].status \/ lead'[l].status = "enriched"
      BY <2>1, <3>1 DEF LeadRows
    <3>3. /\ pc'[a] \notin Fetching /\ UNCHANGED owner
          /\ \A b \in Actors : b # a => pc'[b] = pc[b] /\ task'[b] = task[b]
      BY <1>2, <2>3 DEF Mark, Return, Leave
    <3> QED BY <3>2, <3>3
  <2> QED BY <2>2, <2>3
<1>3. CASE Flush(a)
  <2>1. task[a] \in Leads
    BY <1>3 DEF Flush
  <2>2. CASE Gone(task[a])
    BY <1>3, <2>1, <2>2 DEF Flush, Raise, Leave
  <2>3. CASE ~Gone(task[a])
    BY <1>3, <2>1, <2>3 DEF Flush, MarkEnriching, RowFree, Gone
  <2> QED BY <2>2, <2>3
<1>4. CASE Rejected(a)
  BY <1>4 DEF Rejected, FetchEnds
<1>5. CASE Redirected(a)
  BY <1>5 DEF Redirected, FetchEnds
<1>6. CASE Answered(a)
  <2>1. PICK label \in {"useful", "fallback"} : FetchEnds(a, label)
    BY <1>6 DEF Answered
  <2> QED BY <1>6, <2>1 DEF Answered, FetchEnds
<1>7. CASE NoBrowser(a)
  BY <1>7 DEF NoBrowser, WithoutBrowser
<1>8. CASE Acquire(a)
  BY <1>8 DEF Acquire
<1>9. CASE Browse(a)
  BY <1>9 DEF Browse
<1>10. CASE Store(a)
  <2>1. task[a] \in Leads /\ owner[task[a]] = a
    BY <1>10 DEF Store
  <2>2. \A l \in Leads : lead'[l].status = lead[l].status
                          \/ (l = task[a] /\ lead'[l].status = "enriched")
    <3>1. \/ lead' = lead
          \/ \E e \in BOOLEAN : lead' = [lead EXCEPT ![task[a]] =
                                 [status |-> "enriched", enriched |-> e \/ @.enriched]]
      BY <1>10 DEF Store
    <3> QED BY <2>1, <3>1
  <2>3. owner' = [owner EXCEPT ![task[a]] = None]
    BY <1>10 DEF Store
  <2>4. \A b \in Actors : pc'[b] = IF b = a THEN pc'[a] ELSE pc[b]
    BY <1>10 DEF Store, Return, Raise, Leave
  <2>5. pc'[a] \notin Fetching /\ \A b \in Actors : b # a => task'[b] = task[b]
    BY <1>10 DEF Store, Return, Raise, Leave
  <2> QED BY <2>1, <2>2, <2>3, <2>4, <2>5
<1> QED BY <1>1, <1>2, <1>3, <1>4, <1>5, <1>6, <1>7, <1>8, <1>9, <1>10 DEF Fetch

\* So does every other step; a delete request unlocks the row it deletes.
LEMMA StepLocksMatch ==
    ASSUME TypeOK, CallsMatch, LocksMatch, [Next]_vars
    PROVE  LocksMatch'
<1>1. ASSUME NEW a \in Actors, Fetch(a)
      PROVE  LocksMatch'
  BY <1>1, FetchLocksMatch
<1> USE EnrichmentAssumption DEF TypeOK, CallsMatch, LocksMatch, Fetching,
        rows, locks, calls, Goto, Take, Actors
<1>2. ASSUME NEW q \in Processes, Crash(q)
      PROVE  LocksMatch'
  BY <1>2 DEF Crash, Dead
<1>3. ASSUME NEW t \in Threads, RequestPending(t)
      PROVE  LocksMatch'
  BY <1>3 DEF RequestPending
<1>4. ASSUME NEW t \in Threads, NextPending(t)
      PROVE  LocksMatch'
  BY <1>4 DEF NextPending
<1>5. ASSUME NEW t \in Threads, NEW l \in Leads, RequestOne(t, l)
      PROVE  LocksMatch'
  BY <1>5 DEF RequestOne
<1>6. ASSUME NEW w \in Workers, Claim(w)
      PROVE  LocksMatch'
  BY <1>6 DEF Claim
<1>7. ASSUME NEW w \in Workers, CloseJob(w)
      PROVE  LocksMatch'
  BY <1>7 DEF CloseJob
<1>8. ASSUME NEW l \in Leads, DeleteLead(l)
      PROVE  LocksMatch'
  BY <1>8 DEF DeleteLead, Gone
<1>9. ASSUME NEW l \in Leads, Cascade(l)
      PROVE  LocksMatch'
  BY <1>9 DEF Cascade
<1>10. CASE UNCHANGED vars
  BY <1>10 DEF vars
<1> QED BY <1>1, <1>2, <1>3, <1>4, <1>5, <1>6, <1>7, <1>8, <1>9, <1>10 DEF Next

-----------------------------------------------------------------------------
(* The jobs                                                                *)

\* How a step of a call changes the committed rows and the holder of a job.
LEMMA FetchRows ==
    ASSUME TypeOK, CallsMatch, LocksMatch, NEW a \in Actors, Fetch(a)
    PROVE  /\ UNCHANGED <<job, holder>>
           /\ \A b \in Actors : b # a => pc'[b] = pc[b] /\ task'[b] = task[b]
           /\ pc'[a] # "idle" \/ a \in Threads
           /\ task'[a] \in {task[a], None}
           /\ task[a] \in Leads
           /\ \A l \in Leads : lead'[l].status = lead[l].status
                              \/ (l = task[a] /\ lead'[l].status = "enriched")
           /\ pc'[a] = "succeeded" => lead'[task[a]].status = "enriched"
<1> USE EnrichmentAssumption
        DEF TypeOK, CallsMatch, LocksMatch, Fetching, calls, rows, locks, Goto
<1>1. CASE Open(a)
  BY <1>1 DEF Open, Return, Leave
<1>2. CASE Mark(a)
  <2>1. task[a] \in Leads
    BY <1>2 DEF Mark
  <2>2. CASE Gone(task[a])
    BY <1>2, <2>1, <2>2 DEF Mark, Raise, Leave
  <2>3. CASE ~Gone(task[a])
    <3>1. lead' = [lead EXCEPT ![task[a]].status = "enriched"]
      BY <1>2, <2>3 DEF Mark
    <3>2. /\ lead'[task[a]].status = "enriched"
          /\ \A l \in Leads : l # task[a] => lead'[l] = lead[l]
      BY <2>1, <3>1 DEF LeadRows
    <3> QED BY <1>2, <2>1, <2>3, <3>2 DEF Mark, Return, Leave
  <2> QED BY <2>2, <2>3
<1>3. CASE Flush(a)
  <2>2. CASE Gone(task[a])
    BY <1>3, <2>2 DEF Flush, Raise, Leave
  <2>3. CASE ~Gone(task[a])
    BY <1>3, <2>3 DEF Flush, MarkEnriching
  <2> QED BY <2>2, <2>3
<1>4. CASE Rejected(a)
  BY <1>4 DEF Rejected, FetchEnds
<1>5. CASE Redirected(a)
  BY <1>5 DEF Redirected, FetchEnds
<1>6. CASE Answered(a)
  <2>1. PICK label \in {"useful", "fallback"} : FetchEnds(a, label)
    BY <1>6 DEF Answered
  <2> QED BY <1>6, <2>1 DEF Answered, FetchEnds
<1>7. CASE NoBrowser(a)
  BY <1>7 DEF NoBrowser, WithoutBrowser
<1>8. CASE Acquire(a)
  BY <1>8 DEF Acquire
<1>9. CASE Browse(a)
  BY <1>9 DEF Browse
<1>10. CASE Store(a)
  <2>1. task[a] \in Leads
    BY <1>10 DEF Store
  <2>2. /\ UNCHANGED <<job, holder>>
        /\ \A b \in Actors : b # a => pc'[b] = pc[b] /\ task'[b] = task[b]
        /\ pc'[a] # "idle" \/ a \in Threads
        /\ task'[a] = None
    BY <1>10 DEF Store, Return, Raise, Leave
  <2>3. CASE Raise(a) /\ UNCHANGED <<lead, results>>
    BY <2>1, <2>2, <2>3 DEF Raise, Leave
  <2>4. CASE \E e \in BOOLEAN : lead' = [lead EXCEPT ![task[a]] =
                              [status |-> "enriched", enriched |-> e \/ @.enriched]]
    BY <2>1, <2>2, <2>4
  <2> QED BY <1>10, <2>3, <2>4 DEF Store
<1> QED BY <1>1, <1>2, <1>3, <1>4, <1>5, <1>6, <1>7, <1>8, <1>9, <1>10 DEF Fetch

\* The job that a worker holds stays queued, its lead undeleted.
LEMMA StepJobsMatch ==
    ASSUME TypeOK, CallsMatch, LocksMatch, JobsMatch, [Next]_vars
    PROVE  JobsMatch'
<1>1. ASSUME NEW a \in Actors, Fetch(a)
      PROVE  JobsMatch'
  <2> USE EnrichmentAssumption DEF TypeOK, JobsMatch
  <2>1. UNCHANGED <<job, holder>>
    BY <1>1, FetchRows
  <2>2. ASSUME NEW j \in Jobs, holder[j] # None
        PROVE  /\ pc'[holder[j]] # "idle"
               /\ task'[holder[j]] # None => task'[holder[j]] = LeadOf[j]
               /\ pc'[holder[j]] = "succeeded" => lead'[LeadOf[j]].status = "enriched"
    <3>1. holder[j] \in Workers /\ holder[j] \in Actors /\ LeadOf[j] \in Leads
      BY <2>2, ZenonT(60) DEF Actors
    <3>2. CASE holder[j] = a
      <4>1. /\ pc'[a] # "idle" \/ a \in Threads
            /\ task'[a] \in {task[a], None}
            /\ pc'[a] = "succeeded" => lead'[task[a]].status = "enriched"
            /\ task[a] \in Leads
        BY <1>1, FetchRows
      <4>2. a \notin Threads /\ task[a] = LeadOf[j]
        BY <2>2, <3>1, <3>2, <4>1
      <4> QED BY <3>2, <4>1, <4>2
    <3>3. CASE holder[j] # a
      BY <1>1, <2>2, <3>1, <3>3, FetchRows
    <3> QED BY <3>2, <3>3
  <2> QED BY <2>1, <2>2
<1> USE EnrichmentAssumption DEF TypeOK, CallsMatch, JobsMatch, rows, locks, calls, Goto, Take,
        Actors
<1>2. ASSUME NEW q \in Processes, Crash(q)
      PROVE  JobsMatch'
  <2>1. q \in Workers => Dead(q) = {q}
    BY DEF Dead, ProcessOf
  <2>2. q \notin Workers => \A w \in Workers : w \notin Dead(q)
    BY DEF Dead, ProcessOf
  <2> QED BY <1>2, <2>1, <2>2 DEF Crash, Processes
<1>3. ASSUME NEW t \in Threads, RequestPending(t)
      PROVE  JobsMatch'
  BY <1>3 DEF RequestPending
<1>4. ASSUME NEW t \in Threads, NextPending(t)
      PROVE  JobsMatch'
  BY <1>4 DEF NextPending
<1>5. ASSUME NEW t \in Threads, NEW l \in Leads, RequestOne(t, l)
      PROVE  JobsMatch'
  BY <1>5 DEF RequestOne
<1>6. ASSUME NEW w \in Workers, Claim(w)
      PROVE  JobsMatch'
  <2>1. PICK j \in Jobs : /\ job[j] \in {"queued", "processing"} /\ holder[j] = None
                          /\ holder' = [holder EXCEPT ![j] = w]
                          /\ Take(w, LeadOf[j])
    BY <1>6 DEF Claim, Claimable
  <2>2. \A i \in Jobs : holder[i] # w
    BY <1>6 DEF Claim
  <2> QED BY <1>6, <2>1, <2>2 DEF Claim
<1>7. ASSUME NEW w \in Workers, CloseJob(w)
      PROVE  JobsMatch'
  <2>1. PICK j \in Jobs : /\ holder[j] = w
                          /\ job' = [job EXCEPT ![j] = Outcome(w)]
                          /\ holder' = [holder EXCEPT ![j] = None]
    BY <1>7 DEF CloseJob
  <2>2. Outcome(w) \in {"sent", "failed"} /\ \A i \in Jobs : holder[i] = w => i = j
    BY <2>1 DEF Outcome
  <2> QED BY <1>7, <2>1, <2>2 DEF CloseJob
<1>8. ASSUME NEW l \in Leads, DeleteLead(l)
      PROVE  JobsMatch'
  BY <1>8 DEF DeleteLead
<1>9. ASSUME NEW l \in Leads, Cascade(l)
      PROVE  JobsMatch'
  BY <1>9 DEF Cascade
<1>10. CASE UNCHANGED vars
  BY <1>10 DEF vars
<1> QED BY <1>1, <1>2, <1>3, <1>4, <1>5, <1>6, <1>7, <1>8, <1>9, <1>10 DEF Next

-----------------------------------------------------------------------------
(* The inductive invariant                                                 *)

\* In the beginning all permits are free and nobody knows or holds anything.
LEMMA InitEInv == Init => EInv
<1> SUFFICES ASSUME Init PROVE EInv
  OBVIOUS
<1> USE EnrichmentAssumption DEF Init
<1>1. TypeOK
  BY DEF TypeOK, LeadRows, NoResults, Labels
<1>2. PermitLedger
  <2>1. \A p \in Processes : Browsing(p) = {}
    BY DEF Browsing
  <2>2. Cardinality({}) = 0
    BY FS_EmptySet
  <2>3. ASSUME NEW p \in Processes
        PROVE  free[p] + Cardinality(Browsing(p)) = Permits
    <3>1. free[p] = Permits /\ Cardinality(Browsing(p)) = 0
      BY <2>1, <2>2
    <3> QED BY <3>1
  <2> QED BY <2>3 DEF PermitLedger
<1>3. CallsMatch /\ LocksMatch /\ JobsMatch
  BY DEF CallsMatch, LocksMatch, JobsMatch, Fetching, Actors
<1> QED BY <1>1, <1>2, <1>3 DEF EInv

\* Every step keeps EInv.
LEMMA StepEInv == EInv /\ [Next]_vars => EInv'
BY StepTypeOK, StepPermits, StepCallsMatch, StepLocksMatch, StepJobsMatch DEF EInv

\* EInv always holds.
LEMMA EInvAlways == Spec => []EInv
BY InitEInv, StepEInv, PTL DEF Spec

\* Types: no fetch follows more than MaxRedirects redirects, and no process
\* has more permits than its semaphore.
THEOREM EnrichmentTypeOK == Spec => []TypeOK
<1>1. EInv => TypeOK
  BY DEF EInv
<1> QED BY <1>1, EInvAlways, PTL

\* The pool of browsers neither leaks nor grows: however threads meet at it, no
\* process runs more browsers than it has permits.
THEOREM PermitsAreConserved == Spec => []PermitsConserved
<1>1. EInv => PermitsConserved
  <2> SUFFICES ASSUME EInv, NEW p \in Processes
               PROVE  /\ Cardinality(Browsing(p)) <= Permits
                      /\ free[p] + Cardinality(Browsing(p)) = Permits
    BY DEF PermitsConserved
  <2>1. free[p] \in 0..Permits /\ free[p] + Cardinality(Browsing(p)) = Permits
    BY DEF EInv, TypeOK, PermitLedger
  <2>2. Cardinality(Browsing(p)) \in Nat /\ Permits \in Nat
    BY BrowsingFinite, EnrichmentAssumption
  <2> QED BY <2>1, <2>2
<1> QED BY <1>1, EInvAlways, PTL

\* One fetch per lead: two that fetched for a lead would both hold its row.
THEOREM FetchesAreExclusive == Spec => []OneFetchPerLead
<1>1. EInv => OneFetchPerLead
  BY DEF EInv, LocksMatch, OneFetchPerLead
<1> QED BY <1>1, EInvAlways, PTL

-----------------------------------------------------------------------------
(* What readers see                                                        *)

\* What every page that is of use scores.
LEMMA ConfidencePositive ==
    ASSUME NEW f \in Features
    PROVE  Confidence(f) \in Nat /\ Confidence(f) > 0
BY DEF Confidence, Features

\* The commit of a fetch is the step Enrich, or it was rolled back.
LEMMA StoreEffect ==
    ASSUME TypeOK, CallsMatch, LocksMatch, NEW a \in Actors, Store(a)
    PROVE  UNCHANGED rows \/ (task[a] \in Leads /\ Effects!Enrich(task[a]))
<1> DEFINE l == task[a]
<1>1. l \in Leads /\ l \in Sites /\ owner[l] = a /\ job' = job
  BY DEF Store, CallsMatch, LocksMatch, Fetching, TypeOK
<1>2. lead[l].status # "gone"
  BY <1>1, EnrichmentAssumption DEF LocksMatch
<1>3. CASE UNCHANGED <<lead, results>>
  BY <1>1, <1>3 DEF rows
<1>4. ASSUME NEW f \in Features,
             LET score == IF pc[a] = "useful" THEN Confidence(f) ELSE 0
                 success == score > 0 \/ pc[a] = "useful"
             IN /\ Audit(l, score)
                /\ lead' = [lead EXCEPT ![l] =
                       [status |-> "enriched", enriched |-> success \/ @.enriched]]
      PROVE  Effects!Enrich(l)
  <2> DEFINE kind == IF pc[a] = "useful" THEN "scored" ELSE "blank"
  <2>1. results' = [results EXCEPT ![l][kind] = @ + 1]
    <3>1. CASE pc[a] = "useful"
      BY <1>4, <3>1, ConfidencePositive DEF Audit
    <3>2. CASE pc[a] # "useful"
      BY <1>4, <3>2 DEF Audit
    <3> QED BY <3>1, <3>2
  <2>2. lead' = [lead EXCEPT ![l] =
           [status |-> "enriched", enriched |-> kind = "scored" \/ lead[l].enriched]]
    <3>1. CASE pc[a] = "useful"
      BY <1>1, <1>4, <3>1, ConfidencePositive DEF TypeOK
    <3>2. CASE pc[a] # "useful"
      <4>1. lead[l].enriched \in BOOLEAN
        BY <1>1 DEF TypeOK, LeadRows
      <4>2. lead' = [lead EXCEPT ![l] =
               [status   |-> "enriched",
                enriched |-> (0 > 0 \/ pc[a] = "useful") \/ lead[l].enriched]]
        BY <1>4, <3>2
      <4>3. ((0 > 0 \/ pc[a] = "useful") \/ lead[l].enriched)
              = (kind = "scored" \/ lead[l].enriched)
        BY <3>2, <4>1
      <4> HIDE DEF kind
      <4> QED BY <4>2, <4>3
    <3> QED BY <3>1, <3>2
  <2>3. kind \in {"scored", "blank"}
    OBVIOUS
  <2> HIDE DEF kind
  <2> QED BY <1>1, <1>2, <2>1, <2>2, <2>3 DEF Effects!Enrich
<1> QED BY <1>1, <1>3, <1>4 DEF Store

\* Of the steps of a call, readers see that of Mark and that of Store.
LEMMA FetchEffects ==
    ASSUME TypeOK, CallsMatch, LocksMatch, NEW a \in Actors, Fetch(a)
    PROVE  UNCHANGED rows \/ \E l \in Leads : Effects!Enrich(l)
<1>1. CASE Open(a) \/ Rejected(a) \/ Redirected(a) \/ Answered(a) \/ NoBrowser(a)
           \/ Acquire(a) \/ Browse(a)
  BY <1>1 DEF Open, Rejected, Redirected, Answered, NoBrowser, Acquire, Browse, rows
<1>2. CASE Mark(a)
  <2>1. task[a] \in Leads /\ task[a] \notin Sites /\ UNCHANGED <<results, job>>
    BY <1>2 DEF Mark, CallsMatch, TypeOK
  <2>2. CASE Gone(task[a])
    BY <1>2, <2>1, <2>2 DEF Mark, rows
  <2>3. CASE ~Gone(task[a])
    BY <1>2, <2>1, <2>3 DEF Mark, Gone, Effects!Enrich
  <2> QED BY <2>2, <2>3
<1>3. CASE Flush(a)
  BY <1>3 DEF Flush, MarkEnriching, rows
<1>4. CASE Store(a)
  BY <1>4, StoreEffect
<1> QED BY <1>1, <1>2, <1>3, <1>4 DEF Fetch

\* Every step is one of EnrichmentEffects or changes nothing that is read.
LEMMA StepEffects ==
    ASSUME EInv, [Next]_vars
    PROVE  [Effects!Next]_(Effects!vars)
<1> SUFFICES UNCHANGED rows \/ Effects!Next
  BY DEF rows, Effects!vars
<1> USE DEF EInv, rows
<1>1. ASSUME NEW a \in Actors, Fetch(a)
      PROVE  UNCHANGED rows \/ Effects!Next
  BY <1>1, FetchEffects DEF Effects!Next
<1>2. ASSUME NEW q \in Processes, Crash(q)
      PROVE  UNCHANGED rows
  BY <1>2 DEF Crash
<1>3. ASSUME NEW t \in Threads,
             RequestPending(t) \/ NextPending(t) \/ \E l \in Leads : RequestOne(t, l)
      PROVE  UNCHANGED rows
  BY <1>3 DEF RequestPending, NextPending, RequestOne
<1>4. ASSUME NEW w \in Workers, Claim(w)
      PROVE  UNCHANGED rows
  BY <1>4 DEF Claim
<1>5. ASSUME NEW w \in Workers, CloseJob(w)
      PROVE  Effects!Next
  <2>1. PICK j \in Jobs : /\ holder[j] = w
                          /\ job' = [job EXCEPT ![j] = Outcome(w)]
    BY <1>5 DEF CloseJob
  <2>2. /\ job[j] = "queued" /\ UNCHANGED <<lead, results>>
        /\ pc[w] = "succeeded" => lead[LeadOf[j]].status = "enriched"
    BY <1>5, <2>1, EnrichmentAssumption DEF CloseJob, JobsMatch, Actors
  <2>3. Effects!Finish(j)
    BY <1>5, <2>1, <2>2 DEF CloseJob, Outcome, Effects!Finish
  <2> QED BY <2>3 DEF Effects!Next
<1>6. ASSUME NEW l \in Leads, DeleteLead(l)
      PROVE  UNCHANGED rows
  BY <1>6 DEF DeleteLead
<1>7. ASSUME NEW l \in Leads, Cascade(l)
      PROVE  Effects!Next
  <2>1. lead[l].status # "gone"
    BY <1>7, EnrichmentAssumption DEF Cascade, LocksMatch
  <2>2. Effects!Delete(l)
    BY <1>7, <2>1 DEF Cascade, Effects!Delete, NoResults, Effects!NoResults
  <2> QED BY <2>2 DEF Effects!Next
<1>8. CASE UNCHANGED vars
  BY <1>8 DEF vars
<1> QED BY <1>1, <1>2, <1>3, <1>4, <1>5, <1>6, <1>7, <1>8 DEF Next

\* Enrichment implements EnrichmentEffects: readers see whole fetches, whole
\* deletions and finished jobs, whatever dies or is rolled back.
THEOREM ReadersSeeEffects == Spec => ImplementsEffects
<1>1. Init => Effects!Init
  BY DEF Init, Effects!Init, NoResults, Effects!NoResults
<1> QED BY <1>1, EInvAlways, StepEffects, PTL DEF Spec, ImplementsEffects, Effects!Spec

-----------------------------------------------------------------------------
(* What follows from the effects alone                                     *)

AInv == EnrichedIsAudited /\ SentMeansEnriched

\* Every effect keeps the flags in line with the audit rows, and the SENT
\* jobs with the leads.
LEMMA EffectsKeepAInv ==
    ASSUME TypeOK, AInv, [Effects!Next]_(Effects!vars)
    PROVE  AInv'
<1> USE EnrichmentAssumption DEF AInv, EnrichedIsAudited, SentMeansEnriched, NoResults
<1>1. ASSUME NEW l \in Leads, Effects!Enrich(l)
      PROVE  AInv'
  <2>1. lead[l] \in LeadRows /\ results[l] \in [scored: Nat, blank: Nat] /\ job' = job
    BY <1>1 DEF TypeOK, Effects!Enrich
  <2>2. CASE l \in Sites
    <3>1. PICK kind \in {"scored", "blank"} :
             /\ results' = [results EXCEPT ![l][kind] = @ + 1]
             /\ lead' = [lead EXCEPT ![l] =
                    [status   |-> "enriched",
                     enriched |-> kind = "scored" \/ lead[l].enriched]]
      BY <1>1, <2>2 DEF Effects!Enrich
    <3>2. CASE kind = "scored"
      <4>1. /\ results'[l] = [scored |-> results[l].scored + 1, blank |-> results[l].blank]
            /\ lead'[l] = [status |-> "enriched", enriched |-> TRUE]
        BY <2>1, <3>1, <3>2 DEF TypeOK
      <4>2. results'[l] # NoResults /\ results'[l].scored > 0
        BY <4>1, <2>1
      <4>3. \A m \in Leads : m # l => results'[m] = results[m] /\ lead'[m] = lead[m]
        BY <3>1, <3>2 DEF TypeOK
      <4> QED BY <2>1, <4>1, <4>2, <4>3
    <3>3. CASE kind = "blank"
      <4>1. /\ results'[l] = [scored |-> results[l].scored, blank |-> results[l].blank + 1]
            /\ lead'[l] = [status |-> "enriched", enriched |-> lead[l].enriched]
        BY <2>1, <3>1, <3>3 DEF TypeOK, LeadRows
      <4>2. results'[l] # NoResults /\ results'[l].scored = results[l].scored
        BY <4>1, <2>1
      <4>3. \A m \in Leads : m # l => results'[m] = results[m] /\ lead'[m] = lead[m]
        BY <3>1, <3>3 DEF TypeOK
      <4> QED BY <2>1, <2>2, <4>1, <4>2, <4>3
    <3> QED BY <3>1, <3>2, <3>3
  <2>3. CASE l \notin Sites
    <3>1. lead' = [lead EXCEPT ![l].status = "enriched"] /\ results' = results
      BY <1>1, <2>3 DEF Effects!Enrich
    <3>2. /\ lead'[l].status = "enriched"
          /\ \A m \in Leads : m # l => lead'[m] = lead[m]
      BY <2>1, <3>1 DEF TypeOK, LeadRows
    <3> QED BY <2>1, <2>3, <3>1, <3>2
  <2> QED BY <2>2, <2>3
<1>2. ASSUME NEW l \in Leads, Effects!Delete(l)
      PROVE  AInv'
  <2>1. /\ lead' = [lead EXCEPT ![l] = [status |-> "gone", enriched |-> FALSE]]
        /\ results' = [results EXCEPT ![l] = NoResults]
        /\ job' = [j \in Jobs |-> IF LeadOf[j] = l THEN "gone" ELSE job[j]]
    BY <1>2 DEF Effects!Delete, Effects!NoResults
  <2> QED BY <2>1 DEF TypeOK
<1>3. ASSUME NEW j \in Jobs, Effects!Finish(j)
      PROVE  AInv'
  BY <1>3 DEF Effects!Finish, TypeOK
<1>4. CASE UNCHANGED Effects!vars
  BY <1>4 DEF Effects!vars
<1> QED BY <1>1, <1>2, <1>3, <1>4 DEF Effects!Next

\* They always are.
LEMMA AInvAlways == Spec => []AInv
<1>1. Init => AInv
  <2>1. Init => EnrichedIsAudited
    BY EnrichmentAssumption DEF Init, EnrichedIsAudited, NoResults
  <2>2. Init => SentMeansEnriched
    BY DEF Init, SentMeansEnriched
  <2> QED BY <2>1, <2>2 DEF AInv
<1>2. EInv /\ AInv /\ [Next]_vars => AInv'
  BY StepEffects, EffectsKeepAInv DEF EInv
<1> QED BY <1>1, <1>2, EInvAlways, PTL DEF Spec

\* A lead reads as ENRICHED exactly if the audit row of a fetch is there,
\* and as successfully enriched exactly if one of them has a score.
THEOREM EnrichedLeadsAreAudited == Spec => []EnrichedIsAudited
<1>1. AInv => EnrichedIsAudited
  BY DEF AInv
<1> QED BY <1>1, AInvAlways, PTL

\* A SENT job has an enriched lead: the worker's lock on the job keeps the
\* lead from being deleted between the two commits.
THEOREM SentJobsAreEnriched == Spec => []SentMeansEnriched
<1>1. AInv => SentMeansEnriched
  BY DEF AInv
<1> QED BY <1>1, AInvAlways, PTL

-----------------------------------------------------------------------------
(* What is fetched again                                                   *)

Fetched(l) == results[l].scored + results[l].blank
Callers(l) == {t \in Threads : task[t] = l}
Done(l) ==
    {j \in Jobs : /\ LeadOf[j] = l
                  /\ \/ job[j] \in {"sent", "failed"}
                     \/ holder[j] # None /\ pc[holder[j]] \in {"succeeded", "failed"}}

\* A worker that is not idle holds a job; a fetch is paid for by the request of a thread
\* that has left, by a job that is done or by a death.
RInv ==
    /\ \A w \in Workers : pc[w] # "idle" => \E j \in Jobs : holder[j] = w
    /\ \A l \in Leads :
          /\ Cardinality(Callers(l)) <= asked[l]
          /\ Fetched(l) + Cardinality(Callers(l))
                <= asked[l] + Cardinality(Done(l)) + crashes

\* Sets of threads and of jobs are finite.
LEMMA PayersFinite ==
    /\ \A S \in SUBSET Threads : IsFiniteSet(S) /\ Cardinality(S) \in Nat
    /\ \A S \in SUBSET Jobs : IsFiniteSet(S) /\ Cardinality(S) \in Nat
BY EnrichmentAssumption, FS_Subset, FS_CardinalityType

\* The numbers of the ledger.
LEMMA LedgerTypes ==
    ASSUME TypeOK, NEW l \in Leads
    PROVE  /\ Fetched(l) \in Nat /\ asked[l] \in Nat /\ crashes \in Nat
           /\ Callers(l) \in SUBSET Threads /\ Done(l) \in SUBSET Jobs
           /\ IsFiniteSet(Callers(l)) /\ Cardinality(Callers(l)) \in Nat
           /\ IsFiniteSet(Done(l)) /\ Cardinality(Done(l)) \in Nat
<1>1. results[l] \in [scored: Nat, blank: Nat] /\ asked[l] \in Nat /\ crashes \in Nat
  BY DEF TypeOK
<1>2. Callers(l) \in SUBSET Threads /\ Done(l) \in SUBSET Jobs
  BY DEF Callers, Done
<1> QED BY <1>1, <1>2, PayersFinite DEF Fetched

\* A commit of a fetch adds at most one audit row, to the lead of the call that ends.
LEMMA StoreCounts ==
    ASSUME TypeOK, CallsMatch, NEW a \in Actors, Store(a)
    PROVE  /\ task[a] \in Leads /\ task'[a] = None
           /\ \A l \in Leads :
                 \/ Fetched(l)' = Fetched(l)
                 \/ l = task[a] /\ Fetched(l)' = Fetched(l) + 1
           /\ a \in Workers => pc'[a] \in {"succeeded", "failed"}
<1>1. task[a] \in Leads /\ pc[a] \in {"useful", "useless"}
  BY DEF Store, CallsMatch, TypeOK
<1>2. task'[a] = None /\ (a \in Workers => pc'[a] \in {"succeeded", "failed"})
  BY EnrichmentAssumption DEF Store, Return, Raise, Leave, Goto, TypeOK, Actors
<1>3. UNCHANGED results
      \/ \E kind \in {"scored", "blank"} : results' = [results EXCEPT ![task[a]][kind] = @ + 1]
  BY DEF Store, Audit
<1>4. results[task[a]] \in [scored: Nat, blank: Nat]
  BY <1>1 DEF TypeOK
<1>5. CASE UNCHANGED results
  BY <1>1, <1>2, <1>5 DEF Fetched
<1>6. ASSUME NEW kind \in {"scored", "blank"},
             results' = [results EXCEPT ![task[a]][kind] = @ + 1]
      PROVE  \A l \in Leads :
                 \/ Fetched(l)' = Fetched(l)
                 \/ l = task[a] /\ Fetched(l)' = Fetched(l) + 1
  <2>1. \A l \in Leads : l # task[a] => results'[l] = results[l]
    BY <1>6 DEF TypeOK
  <2>2. CASE kind = "scored"
    <3>1. results'[task[a]] = [scored |-> results[task[a]].scored + 1,
                               blank |-> results[task[a]].blank]
      BY <1>1, <1>4, <1>6, <2>2 DEF TypeOK
    <3> QED BY <1>4, <2>1, <3>1 DEF Fetched
  <2>3. CASE kind = "blank"
    <3>1. results'[task[a]] = [scored |-> results[task[a]].scored,
                               blank |-> results[task[a]].blank + 1]
      BY <1>1, <1>4, <1>6, <2>3 DEF TypeOK
    <3> QED BY <1>4, <2>1, <3>1 DEF Fetched
  <2> QED BY <2>2, <2>3
<1> QED BY <1>1, <1>2, <1>3, <1>5, <1>6

\* The other steps of a call add none.
LEMMA OnlyStoreCounts ==
    ASSUME NEW a \in Actors, Fetch(a), ~Store(a)
    PROVE  results' = results
BY DEF Fetch, Open, Mark, Flush, Rejected, Redirected, Answered, NoBrowser, Acquire, Browse,
       rows

\* A step of a thread: the thread that leaves pays for the audit row.
LEMMA ThreadKeepsRInv ==
    ASSUME EInv, RInv, NEW t \in Threads, Fetch(t)
    PROVE  RInv'
<1>1. /\ TypeOK /\ CallsMatch /\ LocksMatch /\ t \in Actors /\ t \notin Workers
      /\ task \in [Actors -> Leads \cup {None}] /\ holder \in [Jobs -> Workers \cup {None}]
  BY EnrichmentAssumption DEF EInv, Actors, TypeOK
<1>2. /\ UNCHANGED <<job, holder, asked, crashes>>
      /\ \A b \in Actors : b # t => pc'[b] = pc[b] /\ task'[b] = task[b]
      /\ task'[t] \in {task[t], None} /\ task[t] \in Leads
  <2>1. UNCHANGED <<asked, crashes>>
    BY DEF Fetch, Open, Mark, Flush, Rejected, Redirected, Answered, NoBrowser, Acquire,
           Browse, Store, history
  <2> QED BY <1>1, <2>1, FetchRows
<1>3. \A w \in Workers : pc'[w] # "idle" => \E j \in Jobs : holder'[j] = w
  BY <1>1, <1>2 DEF RInv, Actors
<1>4. \A l \in Leads : Done(l)' = Done(l)
  <2>1. \A j \in Jobs : holder[j] # None => pc'[holder[j]] = pc[holder[j]]
    BY <1>1, <1>2 DEF Actors
  <2> QED BY <1>2, <2>1 DEF Done
<1>5. ASSUME NEW l \in Leads
      PROVE  /\ Cardinality(Callers(l)') <= asked[l]
             /\ Fetched(l)' + Cardinality(Callers(l)')
                   <= asked[l] + Cardinality(Done(l)) + crashes
  <2>1. /\ Fetched(l) \in Nat /\ asked[l] \in Nat /\ crashes \in Nat
        /\ Callers(l) \in SUBSET Threads
        /\ IsFiniteSet(Callers(l)) /\ Cardinality(Callers(l)) \in Nat
        /\ Cardinality(Done(l)) \in Nat
    BY <1>1, LedgerTypes
  <2>2. /\ Cardinality(Callers(l)) <= asked[l]
        /\ Fetched(l) + Cardinality(Callers(l))
              <= asked[l] + Cardinality(Done(l)) + crashes
    BY DEF RInv
  <2>3. Callers(l)' \in SUBSET Callers(l)
    BY <1>1, <1>2, EnrichmentAssumption DEF Callers, Actors
  <2>4. Cardinality(Callers(l)') \in Nat /\ Cardinality(Callers(l)') <= Cardinality(Callers(l))
    BY <2>1, <2>3, PayersFinite, FS_Subset
  <2>5. CASE Store(t) /\ l = task[t]
    <3>1. Callers(l)' = Callers(l) \ {t} /\ t \in Callers(l)
      BY <1>1, <1>2, <2>5, StoreCounts, EnrichmentAssumption DEF Callers, Actors
    <3>2. Cardinality(Callers(l)') = Cardinality(Callers(l)) - 1
      BY <2>1, <3>1, FS_RemoveElement
    <3>3. Fetched(l)' = Fetched(l) \/ Fetched(l)' = Fetched(l) + 1
      BY <1>1, <2>5, StoreCounts
    <3> QED BY <2>1, <2>2, <2>4, <3>2, <3>3
  <2>6. CASE ~(Store(t) /\ l = task[t])
    <3>1. Fetched(l)' = Fetched(l)
      <4>1. CASE Store(t)
        BY <1>1, <2>6, <4>1, StoreCounts
      <4>2. CASE ~Store(t)
        BY <1>1, <4>2, OnlyStoreCounts DEF Fetched
      <4> QED BY <4>1, <4>2
    <3> QED BY <2>1, <2>2, <2>4, <3>1
  <2> QED BY <2>5, <2>6
<1> QED BY <1>2, <1>3, <1>4, <1>5 DEF RInv

\* A step of a worker: the job that ends with the call pays for the audit row.
LEMMA WorkerKeepsRInv ==
    ASSUME EInv, RInv, NEW w \in Workers, Fetch(w)
    PROVE  RInv'
<1>1. /\ TypeOK /\ CallsMatch /\ LocksMatch /\ JobsMatch /\ w \in Actors /\ w \notin Threads
      /\ holder \in [Jobs -> Workers \cup {None}] /\ None \notin Workers
  BY EnrichmentAssumption DEF EInv, Actors, TypeOK
<1>2. /\ UNCHANGED <<job, holder, asked, crashes>>
      /\ \A b \in Actors : b # w => pc'[b] = pc[b] /\ task'[b] = task[b]
      /\ task[w] \in Leads /\ pc[w] \notin {"idle", "succeeded", "failed"}
  <2>1. UNCHANGED <<asked, crashes>>
    BY DEF Fetch, Open, Mark, Flush, Rejected, Redirected, Answered, NoBrowser, Acquire,
           Browse, Store, history
  <2>2. task[w] \in Leads
    BY <1>1, FetchRows
  <2>3. pc[w] \notin {"idle", "succeeded", "failed"}
    BY <1>1, <2>2, EnrichmentAssumption DEF CallsMatch
  <2> QED BY <1>1, <2>1, <2>2, <2>3, FetchRows
<1>3. PICK own \in Jobs : holder[own] = w
  BY <1>2 DEF RInv
<1>4. LeadOf[own] = task[w] /\ job[own] = "queued"
  BY <1>1, <1>2, <1>3, EnrichmentAssumption DEF JobsMatch
<1>5. \A v \in Workers : pc'[v] # "idle" => \E j \in Jobs : holder'[j] = v
  BY <1>1, <1>2, <1>3 DEF RInv, Actors
<1>6. \A l \in Leads : Callers(l)' = Callers(l)
  BY <1>1, <1>2 DEF Callers, Actors
<1>7. \A l \in Leads : Done(l) \in SUBSET Done(l)'
  <2>1. \A j \in Jobs : holder[j] # None /\ pc[holder[j]] \in {"succeeded", "failed"}
                           => pc'[holder[j]] = pc[holder[j]]
    BY <1>1, <1>2 DEF Actors
  <2> QED BY <1>2, <2>1 DEF Done
<1>8. ASSUME NEW l \in Leads
      PROVE  /\ Cardinality(Callers(l)') <= asked[l]
             /\ Fetched(l)' + Cardinality(Callers(l)')
                   <= asked[l] + Cardinality(Done(l)') + crashes
  <2>1. /\ Fetched(l) \in Nat /\ asked[l] \in Nat /\ crashes \in Nat
        /\ Cardinality(Callers(l)) \in Nat
        /\ Done(l) \in SUBSET Jobs
        /\ IsFiniteSet(Done(l)) /\ Cardinality(Done(l)) \in Nat
    BY <1>1, LedgerTypes
  <2>2. /\ Cardinality(Callers(l)) <= asked[l]
        /\ Fetched(l) + Cardinality(Callers(l))
              <= asked[l] + Cardinality(Done(l)) + crashes
    BY DEF RInv
  <2>3. Done(l)' \in SUBSET Jobs
    BY DEF Done
  <2>4. IsFiniteSet(Done(l)') /\ Cardinality(Done(l)') \in Nat
    BY <2>3, PayersFinite
  <2>5. CASE Fetched(l)' = Fetched(l)
    <3>1. Cardinality(Done(l)) <= Cardinality(Done(l)')
      BY <1>7, <2>4, FS_Subset
    <3> QED BY <1>6, <2>1, <2>2, <2>4, <2>5, <3>1
  <2>6. CASE Fetched(l)' # Fetched(l)
    <3>1. Store(w)
      BY <2>6, <1>1, OnlyStoreCounts DEF Fetched
    <3>2. /\ l = task[w] /\ Fetched(l)' = Fetched(l) + 1
          /\ pc'[w] \in {"succeeded", "failed"}
      BY <1>1, <2>6, <3>1, StoreCounts
    <3>3. own \in Done(l)' /\ own \notin Done(l)
      BY <1>1, <1>2, <1>3, <1>4, <3>2 DEF Done
    <3>4. /\ IsFiniteSet(Done(l) \cup {own})
          /\ Cardinality(Done(l) \cup {own}) = Cardinality(Done(l)) + 1
      BY <2>1, <3>3, FS_AddElement
    <3>5. Done(l) \cup {own} \in SUBSET Done(l)'
      BY <1>7, <3>3
    <3>6. Cardinality(Done(l)) + 1 <= Cardinality(Done(l)')
      BY <2>4, <3>4, <3>5, FS_Subset
    <3> QED BY <1>6, <2>1, <2>2, <2>4, <3>2, <3>6
  <2> QED BY <2>5, <2>6
<1> QED BY <1>2, <1>5, <1>8 DEF RInv

\* A thread takes up a lead that was asked for.
LEMMA RequestKeepsRInv ==
    ASSUME EInv, RInv, NEW t \in Threads, NEW lead0 \in Leads, pc[t] = "idle",
           Take(t, lead0), asked' = [asked EXCEPT ![lead0] = @ + 1],
           UNCHANGED <<results, job, holder, crashes>>
    PROVE  RInv'
<1>1. /\ TypeOK /\ CallsMatch /\ t \in Actors /\ t \notin Workers
      /\ holder \in [Jobs -> Workers \cup {None}] /\ task[t] = None
      /\ task \in [Actors -> Leads \cup {None}] /\ asked \in [Leads -> Nat]
  BY EnrichmentAssumption DEF EInv, Actors, TypeOK, CallsMatch
<1>2. /\ \A b \in Actors : b # t => pc'[b] = pc[b] /\ task'[b] = task[b]
      /\ task'[t] = lead0
  BY <1>1 DEF Take, Goto, EInv, TypeOK
<1>3. \A v \in Workers : pc'[v] # "idle" => \E j \in Jobs : holder'[j] = v
  BY <1>1, <1>2 DEF RInv, Actors
<1>4. \A l \in Leads : Done(l)' = Done(l) /\ Fetched(l)' = Fetched(l)
  <2>1. \A j \in Jobs : holder[j] # None => pc'[holder[j]] = pc[holder[j]]
    BY <1>1, <1>2 DEF Actors
  <2> QED BY <2>1 DEF Done, Fetched
<1>5. ASSUME NEW l \in Leads
      PROVE  /\ Cardinality(Callers(l)') <= asked'[l]
             /\ Fetched(l) + Cardinality(Callers(l)')
                   <= asked'[l] + Cardinality(Done(l)) + crashes
  <2>1. /\ Fetched(l) \in Nat /\ asked[l] \in Nat /\ crashes \in Nat
        /\ Callers(l) \in SUBSET Threads
        /\ IsFiniteSet(Callers(l)) /\ Cardinality(Callers(l)) \in Nat
        /\ Cardinality(Done(l)) \in Nat
    BY <1>1, LedgerTypes
  <2>2. /\ Cardinality(Callers(l)) <= asked[l]
        /\ Fetched(l) + Cardinality(Callers(l))
              <= asked[l] + Cardinality(Done(l)) + crashes
    BY DEF RInv
  <2>3. CASE l = lead0
    <3>1. Callers(l)' = Callers(l) \cup {t} /\ t \notin Callers(l)
      BY <1>1, <1>2, <2>3, EnrichmentAssumption DEF Callers, Actors
    <3>2. Cardinality(Callers(l)') = Cardinality(Callers(l)) + 1
      BY <2>1, <3>1, FS_AddElement
    <3>3. asked'[l] = asked[l] + 1
      BY <1>1, <2>3
    <3> QED BY <2>1, <2>2, <3>2, <3>3
  <2>4. CASE l # lead0
    <3>1. Callers(l)' = Callers(l)
      BY <1>1, <1>2, <2>4, EnrichmentAssumption DEF Callers, Actors
    <3>2. asked'[l] = asked[l]
      BY <1>1, <2>4
    <3> QED BY <2>2, <3>1, <3>2
  <2> QED BY <2>3, <2>4
<1> QED BY <1>3, <1>4, <1>5 DEF RInv

\* A step in which no thread moves and no job is done or undone.
LEMMA QuietKeepsRInv ==
    ASSUME EInv, RInv, UNCHANGED <<results, asked, crashes>>,
           \A t \in Threads : task'[t] = task[t],
           \A l \in Leads : Done(l)' = Done(l),
           \A v \in Workers : pc'[v] # "idle" => \E j \in Jobs : holder'[j] = v
    PROVE  RInv'
<1>1. \A l \in Leads : Callers(l)' = Callers(l) /\ Fetched(l)' = Fetched(l)
  BY DEF Callers, Fetched
<1> QED BY <1>1 DEF RInv

\* The job of a claim is not done, and the one that is closed was.
LEMMA JobKeepsRInv ==
    ASSUME EInv, RInv, NEW w \in Workers, Claim(w) \/ CloseJob(w)
    PROVE  RInv'
<1>1. /\ TypeOK /\ JobsMatch /\ w \in Actors /\ w \notin Threads
      /\ holder \in [Jobs -> Workers \cup {None}] /\ None \notin Workers
      /\ pc \in [Actors -> Labels] /\ task \in [Actors -> Leads \cup {None}]
      /\ job \in [Jobs -> {"queued", "processing", "sent", "failed", "gone"}]
  BY EnrichmentAssumption DEF EInv, Actors, TypeOK
<1>2. UNCHANGED <<results, asked, crashes>> /\ \A t \in Threads : task'[t] = task[t]
  BY <1>1 DEF Claim, CloseJob, Take, rows, history, Actors
<1>3. CASE Claim(w)
  <2>1. PICK own \in Jobs : /\ holder[own] = None /\ job[own] = "queued"
                            /\ holder' = [holder EXCEPT ![own] = w]
                            /\ pc' = [pc EXCEPT ![w] = "open"]
    BY <1>1, <1>3 DEF Claim, Claimable, Take, Goto, JobsMatch
  <2>2. job' = job /\ \A j \in Jobs : holder[j] # w
    BY <1>1, <1>3 DEF Claim, JobsMatch, rows
  <2>3. \A l \in Leads : Done(l)' = Done(l)
    <3>1. \A j \in Jobs : j # own => holder'[j] = holder[j]
      BY <1>1, <2>1
    <3>2. \A j \in Jobs : holder[j] # None => pc'[holder[j]] = pc[holder[j]]
      BY <1>1, <2>1, <2>2 DEF Actors
    <3>3. holder'[own] = w /\ pc'[w] = "open"
      BY <1>1, <2>1
    <3> QED BY <2>1, <2>2, <3>1, <3>2, <3>3 DEF Done
  <2>4. \A v \in Workers : pc'[v] # "idle" => \E j \in Jobs : holder'[j] = v
    BY <1>1, <2>1, <2>2 DEF RInv, Actors
  <2> QED BY <1>2, <2>3, <2>4, QuietKeepsRInv
<1>4. CASE CloseJob(w)
  <2>1. PICK own \in Jobs : /\ holder[own] = w
                            /\ job' = [job EXCEPT ![own] = Outcome(w)]
                            /\ holder' = [holder EXCEPT ![own] = None]
                            /\ pc' = [pc EXCEPT ![w] = "idle"]
                            /\ pc[w] \in {"succeeded", "failed"}
    BY <1>4 DEF CloseJob, Goto
  <2>2. Outcome(w) \in {"sent", "failed"} /\ \A j \in Jobs : holder[j] = w => j = own
    BY <1>1, <2>1, EnrichmentAssumption DEF Outcome, JobsMatch
  <2>3. \A l \in Leads : Done(l)' = Done(l)
    <3>1. \A j \in Jobs : j # own => holder'[j] = holder[j] /\ job'[j] = job[j]
      BY <1>1, <2>1
    <3>2. \A j \in Jobs : j # own /\ holder[j] # None => pc'[holder[j]] = pc[holder[j]]
      BY <1>1, <2>1, <2>2 DEF Actors
    <3>3. job'[own] \in {"sent", "failed"}
      BY <1>1, <2>1, <2>2
    <3> QED BY <1>1, <2>1, <3>1, <3>2, <3>3 DEF Done
  <2>4. \A v \in Workers : pc'[v] # "idle" => \E j \in Jobs : holder'[j] = v
    BY <1>1, <2>1, <2>2 DEF RInv, Actors
  <2> QED BY <1>2, <2>3, <2>4, QuietKeepsRInv
<1> QED BY <1>3, <1>4

\* A deleted lead has no audit rows, and its jobs no longer count; the other leads
\* keep theirs.
LEMMA CascadeKeepsRInv ==
    ASSUME EInv, RInv, NEW lead0 \in Leads, Cascade(lead0)
    PROVE  RInv'
<1>1. /\ UNCHANGED <<holder, pc, task, asked, crashes>>
      /\ results' = [results EXCEPT ![lead0] = NoResults]
      /\ job' = [j \in Jobs |-> IF LeadOf[j] = lead0 THEN "gone" ELSE job[j]]
      /\ TypeOK
  BY DEF Cascade, calls, history, EInv
<1>2. ASSUME NEW l \in Leads
      PROVE  /\ Cardinality(Callers(l)') <= asked[l]
             /\ Fetched(l)' + Cardinality(Callers(l)')
                   <= asked[l] + Cardinality(Done(l)') + crashes
  <2>1. /\ Cardinality(Callers(l)) <= asked[l]
        /\ Fetched(l) + Cardinality(Callers(l))
              <= asked[l] + Cardinality(Done(l)) + crashes
    BY DEF RInv
  <2>2. Callers(l)' = Callers(l)
    BY <1>1 DEF Callers
  <2>3. CASE l = lead0
    <3>1. Fetched(l)' = 0
      BY <1>1, <2>3 DEF Fetched, NoResults, TypeOK
    <3>2. Done(l)' \in SUBSET Jobs
      BY DEF Done
    <3>3. /\ asked[l] \in Nat /\ crashes \in Nat /\ Cardinality(Callers(l)) \in Nat
          /\ Cardinality(Done(l)') \in Nat
      BY <1>1, <3>2, LedgerTypes, PayersFinite
    <3> QED BY <2>1, <2>2, <3>1, <3>3
  <2>4. CASE l # lead0
    <3>1. Fetched(l)' = Fetched(l)
      BY <1>1, <2>4 DEF Fetched, TypeOK
    <3>2. Done(l)' = Done(l)
      BY <1>1, <2>4 DEF Done
    <3> QED BY <2>1, <2>2, <3>1, <3>2
  <2> QED BY <2>3, <2>4
<1> QED BY <1>1, <1>2 DEF RInv

\* A worker that dies takes one job with it that was done but not closed.
LEMMA CrashKeepsRInv ==
    ASSUME EInv, RInv, NEW p \in Processes, Crash(p)
    PROVE  RInv'
<1>1. /\ UNCHANGED <<results, job, asked>> /\ crashes' = crashes + 1
      /\ holder' = [j \in Jobs |-> IF holder[j] = p THEN None ELSE holder[j]]
      /\ pc' = [a \in Actors |-> IF a \in Dead(p) THEN "idle" ELSE pc[a]]
      /\ task' = [a \in Actors |-> IF a \in Dead(p) THEN None ELSE task[a]]
      /\ TypeOK /\ JobsMatch
      /\ holder \in [Jobs -> Workers \cup {None}] /\ None \notin Workers
  BY EnrichmentAssumption DEF Crash, rows, EInv, TypeOK, Actors
<1>2. \A v \in Workers : v \in Dead(p) <=> v = p
  BY EnrichmentAssumption DEF Dead, ProcessOf, Processes, Actors
<1>3. \A v \in Workers : pc'[v] # "idle" => \E j \in Jobs : holder'[j] = v
  BY <1>1, <1>2 DEF RInv, Actors
<1>4. ASSUME NEW l \in Leads
      PROVE  /\ Cardinality(Callers(l)') <= asked[l]
             /\ Fetched(l) + Cardinality(Callers(l)')
                   <= asked[l] + Cardinality(Done(l)') + (crashes + 1)
  <2>1. /\ Fetched(l) \in Nat /\ asked[l] \in Nat /\ crashes \in Nat
        /\ Callers(l) \in SUBSET Threads
        /\ IsFiniteSet(Callers(l)) /\ Cardinality(Callers(l)) \in Nat
        /\ IsFiniteSet(Done(l)) /\ Cardinality(Done(l)) \in Nat
    BY <1>1, LedgerTypes
  <2>2. /\ Cardinality(Callers(l)) <= asked[l]
        /\ Fetched(l) + Cardinality(Callers(l))
              <= asked[l] + Cardinality(Done(l)) + crashes
    BY DEF RInv
  <2>3. Callers(l)' \in SUBSET Callers(l)
    BY <1>1, EnrichmentAssumption DEF Callers, Actors
  <2>4. Cardinality(Callers(l)') \in Nat /\ Cardinality(Callers(l)') <= Cardinality(Callers(l))
    BY <2>1, <2>3, PayersFinite, FS_Subset
  <2>5. Done(l)' \in SUBSET Jobs
    BY DEF Done
  <2>6. IsFiniteSet(Done(l)') /\ Cardinality(Done(l)') \in Nat
    BY <2>5, PayersFinite
  <2>7. Cardinality(Done(l)) <= Cardinality(Done(l)') + 1
    <3>1. \A j \in Done(l) : holder[j] # p \/ p \notin Workers => j \in Done(l)'
      BY <1>1, <1>2 DEF Done, Actors
    <3>2. CASE \A j \in Done(l) : holder[j] # p \/ p \notin Workers
      <4>1. Done(l) \in SUBSET Done(l)'
        BY <3>1, <3>2
      <4>2. Cardinality(Done(l)) <= Cardinality(Done(l)')
        BY <2>6, <4>1, FS_Subset
      <4> QED BY <2>1, <2>6, <4>2
    <3>3. ASSUME NEW own \in Done(l), holder[own] = p, p \in Workers
          PROVE  Cardinality(Done(l)) <= Cardinality(Done(l)') + 1
      <4>1. p # None
        BY <1>1, <3>3
      <4>2. \A j \in Done(l) : holder[j] = p => j = own
        BY <1>1, <3>3, <4>1 DEF Done, JobsMatch
      <4>3. Done(l) \ {own} \in SUBSET Done(l)'
        BY <3>1, <4>2
      <4>4. /\ IsFiniteSet(Done(l) \ {own})
            /\ Cardinality(Done(l) \ {own}) = Cardinality(Done(l)) - 1
        BY <2>1, <3>3, FS_RemoveElement
      <4>5. Cardinality(Done(l)) - 1 <= Cardinality(Done(l)')
        BY <2>6, <4>3, <4>4, FS_Subset
      <4> QED BY <2>1, <2>6, <4>5
    <3> QED BY <3>2, <3>3
  <2> QED BY <2>1, <2>2, <2>4, <2>6, <2>7
<1>5. \A l \in Leads : Fetched(l)' = Fetched(l)
  BY <1>1 DEF Fetched
<1> QED BY <1>1, <1>3, <1>4, <1>5 DEF RInv

\* Every step keeps the ledger.
LEMMA StepRInv ==
    ASSUME EInv, RInv, [Next]_vars
    PROVE  RInv'
<1>1. ASSUME NEW a \in Actors, Fetch(a) PROVE RInv'
  BY <1>1, ThreadKeepsRInv, WorkerKeepsRInv DEF Actors
<1>2. ASSUME NEW t \in Threads, NEW l \in Leads, RequestOne(t, l) PROVE RInv'
  BY <1>2, RequestKeepsRInv DEF RequestOne, rows, locks
<1>3. ASSUME NEW t \in Threads, NextPending(t) PROVE RInv'
  <2>1. PICK l \in todo[t] : Take(t, l) /\ asked' = [asked EXCEPT ![l] = @ + 1]
    BY <1>3 DEF NextPending
  <2>2. l \in Leads
    BY DEF EInv, TypeOK
  <2> QED BY <1>3, <2>1, <2>2, RequestKeepsRInv DEF NextPending, rows, locks
<1>4. ASSUME NEW w \in Workers, Claim(w) \/ CloseJob(w) PROVE RInv'
  BY <1>4, JobKeepsRInv
<1>5. ASSUME NEW l \in Leads, Cascade(l) PROVE RInv'
  BY <1>5, CascadeKeepsRInv
<1>6. ASSUME NEW p \in Processes, Crash(p) PROVE RInv'
  BY <1>6, CrashKeepsRInv
<1>7. CASE \/ \E t \in Threads : RequestPending(t)
           \/ \E l \in Leads : DeleteLead(l)
           \/ UNCHANGED vars
  <2>1. UNCHANGED <<results, job, holder, pc, task, asked, crashes>>
    BY <1>7 DEF RequestPending, DeleteLead, vars, rows, locks, calls, history
  <2>2. \A l \in Leads : Done(l)' = Done(l)
    BY <2>1 DEF Done
  <2> QED BY <2>1, <2>2, QuietKeepsRInv DEF RInv
<1> QED BY <1>1, <1>2, <1>3, <1>4, <1>5, <1>6, <1>7 DEF Next

\* A website is fetched once per request and once per execution of a job, which is
\* repeated only after a death, whatever is deleted or rolled back meanwhile.
THEOREM RefetchesAreBounded == Spec => []RefetchesBounded
<1>1. Init => RInv
  <2> SUFFICES ASSUME Init PROVE RInv
    OBVIOUS
  <2>1. ASSUME NEW l \in Leads
        PROVE  Callers(l) = {} /\ Done(l) = {} /\ Fetched(l) = 0 /\ asked[l] = 0 /\ crashes = 0
    BY EnrichmentAssumption DEF Init, Callers, Done, Fetched, NoResults, Actors
  <2>2. \A w \in Workers : pc[w] = "idle"
    BY DEF Init, Actors
  <2>3. ASSUME NEW l \in Leads
        PROVE  /\ Cardinality(Callers(l)) <= asked[l]
               /\ Fetched(l) + Cardinality(Callers(l))
                     <= asked[l] + Cardinality(Done(l)) + crashes
    <3>1. Cardinality(Callers(l)) = 0 /\ Cardinality(Done(l)) = 0
      BY <2>1, FS_EmptySet
    <3> QED BY <2>1, <3>1
  <2> QED BY <2>2, <2>3 DEF RInv
<1>2. EInv /\ RInv => RefetchesBounded
  <2> SUFFICES ASSUME EInv, RInv, NEW l \in Leads
               PROVE  results[l].scored + results[l].blank
                         <= asked[l] + Cardinality(Executions(l)) + crashes
    BY DEF RefetchesBounded
  <2>1. /\ Fetched(l) \in Nat /\ asked[l] \in Nat /\ crashes \in Nat
        /\ Cardinality(Callers(l)) \in Nat /\ Cardinality(Done(l)) \in Nat
        /\ Fetched(l) = results[l].scored + results[l].blank
    BY LedgerTypes DEF EInv, Fetched
  <2>2. Done(l) \in SUBSET Executions(l) /\ Executions(l) \in SUBSET Jobs
    BY DEF Done, Executions
  <2>3. /\ Cardinality(Done(l)) <= Cardinality(Executions(l))
        /\ Cardinality(Executions(l)) \in Nat
    BY <2>2, PayersFinite, FS_Subset
  <2>4. Fetched(l) + Cardinality(Callers(l)) <= asked[l] + Cardinality(Done(l)) + crashes
    BY DEF RInv
  <2> QED BY <2>1, <2>3, <2>4
<1> QED BY <1>1, <1>2, StepRInv, EInvAlways, PTL DEF Spec
-----------------------------------------------------------------------------
(* Who waits for whom                                                      *)

\* A lead is locked by the one call that fetches for it, or by a delete request.
LockedByFetch ==
    \A l \in Leads :
        owner[l] \in Actors => pc[owner[l]] \in Fetching /\ task[owner[l]] = l

\* A worker that holds a job of the lead waits for the lead, which a delete request
\* holds, while the request waits for the job.
Deadlocked(l) ==
    /\ owner[l] = Deleter
    /\ \E j \in Jobs :
          LeadOf[j] = l /\ holder[j] # None /\ pc[holder[j]] \in {"mark", "flush"}

\* A call that waits for its lead (enricher.py:43) waits for a fetch, which waits for
\* no row; or for a delete request that has all the jobs it needs; or for one whose
\* job is with a worker that is not waiting; or it is part of the one deadlock.
WaitsAreServed ==
    \A a \in Actors :
        LET l == task[a]
        IN pc[a] \in {"mark", "flush"} /\ ~RowFree(l) =>
              \/ owner[l] \in Actors \ {a} /\ pc[owner[l]] \in Fetching
              \/ owner[l] = Deleter /\ \A j \in Jobs : LeadOf[j] = l => holder[j] = None
              \/ /\ owner[l] = Deleter
                 /\ \E j \in Jobs : /\ LeadOf[j] = l /\ holder[j] \in Workers
                                    /\ pc[holder[j]] \in {"open", "succeeded", "failed"}
              \/ Deadlocked(l)

\* A step of a call locks only the lead it fetches for, and frees it when it is done.
LEMMA FetchLocked ==
    ASSUME EInv, LockedByFetch, NEW a \in Actors, Fetch(a)
    PROVE  LockedByFetch'
<1>1. /\ task[a] \in Leads \cup {None} /\ owner \in [Leads -> Actors \cup {Deleter, None}]
      /\ pc \in [Actors -> Labels] /\ task \in [Actors -> Leads \cup {None}]
  BY DEF EInv, TypeOK
<1> USE EnrichmentAssumption, <1>1 DEF LockedByFetch, Fetching, Goto, locks
<1>2. CASE Open(a) \/ Mark(a)
  <2>1. owner' = owner /\ pc[a] \notin Fetching
    BY <1>2 DEF Open, Mark
  <2>2. \A b \in Actors \ {a} : pc'[b] = pc[b] /\ task'[b] = task[b]
    BY <1>2 DEF Open, Mark, Return, Raise, Leave
  <2> QED BY <2>1, <2>2
<1>3. CASE Flush(a)
  <2>1. pc[a] \notin Fetching /\ \A b \in Actors \ {a} : pc'[b] = pc[b] /\ task'[b] = task[b]
    BY <1>3 DEF Flush, Raise, Leave
  <2>2. \/ owner' = owner
        \/ /\ owner' = [owner EXCEPT ![task[a]] = a]
           /\ task' = task /\ pc'[a] = "http" /\ task[a] # None
    BY <1>3 DEF Flush, Raise, Leave, RowFree, EInv, CallsMatch
  <2> QED BY <2>1, <2>2
<1>4. CASE \/ Rejected(a) \/ Redirected(a) \/ Answered(a)
           \/ NoBrowser(a) \/ Acquire(a) \/ Browse(a)
  <2>1. /\ owner' = owner /\ task' = task
        /\ \A b \in Actors \ {a} : pc'[b] = pc[b]
    BY <1>4 DEF Rejected, Redirected, Answered, NoBrowser, Acquire, Browse, FetchEnds
  <2>2. pc[a] \in Fetching => pc'[a] \in Fetching
    BY <1>4 DEF Rejected, Redirected, Answered, NoBrowser, Acquire, Browse, FetchEnds,
       WithoutBrowser
  <2> QED BY <2>1, <2>2
<1>5. CASE Store(a)
  <2>1. /\ owner' = [owner EXCEPT ![task[a]] = None]
        /\ \A b \in Actors \ {a} : pc'[b] = pc[b] /\ task'[b] = task[b]
    BY <1>5 DEF Store, Return, Raise, Leave
  <2>2. \A l \in Leads : owner[l] = a => l = task[a]
    OBVIOUS
  <2> QED BY <2>1, <2>2
<1> QED BY <1>2, <1>3, <1>4, <1>5 DEF Fetch

\* So does every other step: callers lock no lead, and the dead release theirs.
LEMMA StepLocked ==
    ASSUME EInv, LockedByFetch, [Next]_vars
    PROVE  LockedByFetch'
<1>1. /\ owner \in [Leads -> Actors \cup {Deleter, None}]
      /\ pc \in [Actors -> Labels] /\ task \in [Actors -> Leads \cup {None}]
  BY DEF EInv, TypeOK
<1>2. ASSUME NEW a \in Actors, Fetch(a)
      PROVE  LockedByFetch'
  BY <1>2, FetchLocked
<1> USE EnrichmentAssumption, <1>1 DEF LockedByFetch, Fetching, Goto, Take, locks, calls
<1>3. ASSUME NEW t \in Threads,
             RequestPending(t) \/ NextPending(t) \/ \E l \in Leads : RequestOne(t, l)
      PROVE  LockedByFetch'
  <2>1. /\ owner' = owner /\ pc[t] \notin Fetching
        /\ \A b \in Actors \ {t} : pc'[b] = pc[b] /\ task'[b] = task[b]
    BY <1>3 DEF RequestPending, NextPending, RequestOne
  <2> QED BY <2>1
<1>4. ASSUME NEW w \in Workers, Claim(w) \/ CloseJob(w)
      PROVE  LockedByFetch'
  <2>1. /\ owner' = owner /\ pc[w] \notin Fetching
        /\ \A b \in Actors \ {w} : pc'[b] = pc[b] /\ task'[b] = task[b]
    BY <1>4 DEF Claim, CloseJob
  <2> QED BY <2>1
<1>5. ASSUME NEW l \in Leads, DeleteLead(l) \/ Cascade(l)
      PROVE  LockedByFetch'
  BY <1>5 DEF DeleteLead, Cascade
<1>6. ASSUME NEW p \in Processes, Crash(p)
      PROVE  LockedByFetch'
  <2>1. \A l \in Leads : owner'[l] \in Actors => owner'[l] = owner[l] /\ owner[l] \notin Dead(p)
    BY <1>6 DEF Crash
  <2>2. \A b \in Actors \ Dead(p) : pc'[b] = pc[b] /\ task'[b] = task[b]
    BY <1>6 DEF Crash
  <2> QED BY <2>1, <2>2
<1>7. CASE UNCHANGED vars
  BY <1>7 DEF vars
<1> QED BY <1>2, <1>3, <1>4, <1>5, <1>6, <1>7 DEF Next

\* Nobody waits in a circle but a delete request and the worker whose job it needs:
\* the deadlock of Enrichment_delete.cfg is the only one enrichment has.
THEOREM WaitsAreAlwaysServed == Spec => []WaitsAreServed
<1>1. Init => LockedByFetch
  BY EnrichmentAssumption DEF Init, LockedByFetch
<1>2. EInv /\ LockedByFetch => WaitsAreServed
  <2> SUFFICES ASSUME EInv, LockedByFetch, NEW a \in Actors, NEW l, l = task[a],
                      pc[a] \in {"mark", "flush"}, owner[l] # None
               PROVE  \/ owner[l] \in Actors \ {a} /\ pc[owner[l]] \in Fetching
                      \/ owner[l] = Deleter /\ \A j \in Jobs : LeadOf[j] = l => holder[j] = None
                      \/ /\ owner[l] = Deleter
                         /\ \E j \in Jobs :
                               /\ LeadOf[j] = l /\ holder[j] \in Workers
                               /\ pc[holder[j]] \in {"open", "succeeded", "failed"}
                      \/ Deadlocked(l)
    BY DEF WaitsAreServed, RowFree
  <2>1. l \in Leads /\ owner[l] \in Actors \cup {Deleter}
    BY DEF EInv, TypeOK, CallsMatch
  <2>2. CASE owner[l] \in Actors
    BY <2>1, <2>2 DEF LockedByFetch, Fetching
  <2>3. CASE owner[l] = Deleter
    <3>1. SUFFICES ASSUME NEW j \in Jobs, LeadOf[j] = l, holder[j] # None
                   PROVE  pc[holder[j]] \in {"open", "mark", "flush", "succeeded", "failed"}
      BY <2>3, <3>1 DEF Deadlocked, EInv, TypeOK
    <3>2. holder[j] \in Workers /\ holder[j] \in Actors
      BY <3>1 DEF EInv, TypeOK, Actors
    <3>3. pc[holder[j]] # "idle" /\ (task[holder[j]] # None => task[holder[j]] = l)
      BY <3>1 DEF EInv, JobsMatch
    <3>4. CASE task[holder[j]] = None
      BY <3>2, <3>3, <3>4 DEF EInv, CallsMatch
    <3>5. CASE task[holder[j]] # None
      <4>1. pc[holder[j]] \notin Fetching
        BY <2>3, <3>2, <3>3, <3>5, EnrichmentAssumption DEF EInv, LocksMatch
      <4>2. pc[holder[j]] \in Labels
        BY <3>2 DEF EInv, TypeOK
      <4> QED BY <3>3, <4>1, <4>2 DEF Labels, Fetching
    <3> QED BY <3>4, <3>5
  <2> QED BY <2>1, <2>2, <2>3
<1>3. EInv /\ LockedByFetch /\ [Next]_vars => LockedByFetch'
  BY StepLocked
<1> QED BY <1>1, <1>2, <1>3, EInvAlways, PTL DEF Spec
-----------------------------------------------------------------------------
(* How long a call can take                                                *)

\* The steps a call still has before it, at most: hops, browser and the way back.
Remaining(label, hops) ==
    CASE label = "open" -> MaxRedirects + 6
      [] label \in {"mark", "flush"} -> MaxRedirects + 5
      [] label = "http" -> MaxRedirects - hops + 4
      [] label = "fallback" -> 3
      [] label = "browser" -> 2
      [] label \in {"useful", "useless"} -> 1
      [] OTHER -> 0

\* Whatever happens to a call brings it closer to its end: no failure, redirect or busy
\* browser (pipeline.py:81, 254) makes it start over.
CallsGetCloser ==
    [][\A a \in Actors :
          Remaining(pc[a], hop[a]) # 0 =>
              \/ UNCHANGED <<pc[a], hop[a], task[a]>>
              \/ Remaining(pc'[a], hop'[a]) < Remaining(pc[a], hop[a])]_vars

\* A step of a call is one step less, for itself only.
LEMMA FetchGetsCloser ==
    ASSUME TypeOK, NEW a \in Actors, Fetch(a)
    PROVE  /\ Remaining(pc'[a], hop'[a]) < Remaining(pc[a], hop[a])
           /\ \A b \in Actors \ {a} : UNCHANGED <<pc[b], hop[b], task[b]>>
<1>1. /\ pc \in [Actors -> Labels] /\ hop \in [Actors -> 0..MaxRedirects]
      /\ task \in [Actors -> Leads \cup {None}] /\ MaxRedirects \in Nat
      /\ hop[a] \in 0..MaxRedirects
  BY EnrichmentAssumption DEF TypeOK
<1> USE <1>1 DEF Goto, Remaining
<1>2. CASE Open(a)
  BY <1>2 DEF Open, Return, Leave
<1>3. CASE Mark(a)
  BY <1>3 DEF Mark, Return, Raise, Leave
<1>4. CASE Flush(a)
  BY <1>4 DEF Flush, Raise, Leave
<1>5. CASE Rejected(a)
  BY <1>5 DEF Rejected, FetchEnds
<1>6. CASE Redirected(a)
  BY <1>6 DEF Redirected, FetchEnds, HopsLeft
<1>7. CASE Answered(a)
  <2>1. PICK label \in {"useful", "fallback"} : FetchEnds(a, label)
    BY <1>7 DEF Answered
  <2> QED BY <1>7, <2>1 DEF Answered, FetchEnds
<1>8. CASE NoBrowser(a)
  BY <1>8 DEF NoBrowser, WithoutBrowser
<1>9. CASE Acquire(a)
  BY <1>9 DEF Acquire
<1>10. CASE Browse(a)
  BY <1>10 DEF Browse
<1>11. CASE Store(a)
  <2>1. Raise(a) \/ \E success \in BOOLEAN : Return(a, success)
    BY <1>11 DEF Store
  <2> QED BY <1>11, <2>1 DEF Store, Return, Raise, Leave
<1> QED BY <1>2, <1>3, <1>4, <1>5, <1>6, <1>7, <1>8, <1>9, <1>10, <1>11 DEF Fetch

\* A call of enrich_lead takes at most MaxRedirects + 6 steps, however the website
\* redirects, hangs or fails: what fairness adds to CallsReturn is that they are taken.
THEOREM CallsAreFinite == Spec => CallsGetCloser
<1> DEFINE Closer(a) == Remaining(pc[a], hop[a]) # 0 =>
              \/ UNCHANGED <<pc[a], hop[a], task[a]>>
              \/ Remaining(pc'[a], hop'[a]) < Remaining(pc[a], hop[a])
<1>1. EInv /\ [Next]_vars => \A a \in Actors : Closer(a)
  <2> SUFFICES ASSUME EInv, [Next]_vars, NEW a \in Actors PROVE Closer(a)
    OBVIOUS
  <2>1. /\ TypeOK
        /\ pc \in [Actors -> Labels] /\ hop \in [Actors -> 0..MaxRedirects]
        /\ task \in [Actors -> Leads \cup {None}] /\ MaxRedirects \in Nat
    BY EnrichmentAssumption DEF EInv, TypeOK
  <2>2. ASSUME NEW b \in Actors, Fetch(b) PROVE Closer(a)
    BY <2>1, <2>2, FetchGetsCloser
  <2>3. ASSUME NEW b \in Actors, pc[b] \in {"idle", "succeeded", "failed"},
               \A c \in Actors \ {b} : UNCHANGED <<pc[c], hop[c], task[c]>>
        PROVE  Closer(a)
    BY <2>1, <2>3 DEF Remaining
  <2>4. ASSUME NEW t \in Threads,
               RequestPending(t) \/ NextPending(t) \/ \E l \in Leads : RequestOne(t, l)
        PROVE  Closer(a)
    <3>1. /\ t \in Actors /\ pc[t] = "idle"
          /\ \A c \in Actors \ {t} : UNCHANGED <<pc[c], hop[c], task[c]>>
      BY <2>1, <2>4 DEF RequestPending, NextPending, RequestOne, Take, Goto, Actors
    <3> QED BY <3>1, <2>3
  <2>5. ASSUME NEW w \in Workers, Claim(w) \/ CloseJob(w)
        PROVE  Closer(a)
    <3>1. /\ w \in Actors /\ pc[w] \in {"idle", "succeeded", "failed"}
          /\ \A c \in Actors \ {w} : UNCHANGED <<pc[c], hop[c], task[c]>>
      BY <2>1, <2>5 DEF Claim, CloseJob, Take, Goto, Actors
    <3> QED BY <3>1, <2>3
  <2>6. CASE (\E l \in Leads : DeleteLead(l) \/ Cascade(l)) \/ UNCHANGED vars
    BY <2>6 DEF DeleteLead, Cascade, vars, calls
  <2>7. ASSUME NEW p \in Processes, Crash(p) PROVE Closer(a)
    <3>1. CASE a \notin Dead(p)
      BY <2>7, <3>1 DEF Crash
    <3>2. CASE a \in Dead(p)
      <4>1. pc'[a] = "idle" /\ Remaining(pc'[a], hop'[a]) = 0
        BY <2>7, <3>2 DEF Crash, Remaining
      <4>2. Remaining(pc[a], hop[a]) \in Nat
        BY <2>1 DEF Remaining
      <4> QED BY <4>1, <4>2
    <3> QED BY <3>1, <3>2
  <2> QED BY <2>2, <2>4, <2>5, <2>6, <2>7 DEF Next
<1>2. EInv /\ [Next]_vars => [\A a \in Actors : Closer(a)]_vars
  BY <1>1
<1> QED BY <1>2, EInvAlways, PTL DEF Spec, CallsGetCloser
=============================================================================
