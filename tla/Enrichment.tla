----------------------------- MODULE Enrichment -----------------------------
(***************************************************************************)
(* Enrichment of leads: request threads of the API process and enrichment  *)
(* worker processes fetch the website of a lead, over HTTP with a bounded  *)
(* number of redirects and then, if the page was of no use, with a browser *)
(* from a pool that is bounded per process, and store what they found.     *)
(*                                                                         *)
(* Rows are what a committed read returns: enrich_lead is one transaction  *)
(* that updates the lead at its beginning and commits at its end, so that  *)
(* in between the row is locked ("owner") and reads as before.  A worker   *)
(* holds the row of its job ("holder") in a second transaction around it.  *)
(* A page is one Boolean, of use or not; deleting a lead is a transaction  *)
(* that locks the lead and then waits for the jobs that cascade.           *)
(***************************************************************************)
EXTENDS Integers, FiniteSets

CONSTANTS
    Threads,        \* request threads of the API process
    Workers,        \* enrichment worker processes, each with a single thread
    Api,            \* the API process
    Leads,
    Sites,          \* the leads with a website
    Listed,         \* those and the leads whose website is an empty string
    LeadOf,         \* the lead of each job
    Populations,    \* the sets of leads that may be there at the start
    Deleter,        \* a delete request, as the owner of a row
    None,
    Permits,        \* MAX_CONCURRENT_BROWSERS
    MaxRedirects,
    MaxAsked,       \* bound: API requests for one lead
    MaxCrashes      \* bound: processes that die

Actors == Threads \cup Workers
Processes == {Api} \cup Workers
Jobs == DOMAIN LeadOf
ProcessOf(a) == IF a \in Workers THEN a ELSE Api

ASSUME EnrichmentAssumption ==
    /\ IsFiniteSet(Threads) /\ IsFiniteSet(Workers)
    /\ Threads \cap Workers = {}
    /\ Api \notin Workers
    /\ {Deleter, None} \cap Actors = {} /\ Deleter # None
    /\ None \notin Leads
    /\ Sites \subseteq Listed /\ Listed \subseteq Leads
    /\ Jobs \subseteq Nat /\ IsFiniteSet(Jobs)     \* numbered by created_at
    /\ LeadOf \in [Jobs -> Leads]
    /\ Permits \in Nat \ {0}
    /\ MaxRedirects \in Nat

ASSUME PopulationsAssumption == Populations \subseteq SUBSET Leads

VARIABLES
    lead, results, job,     \* committed rows
    owner,          \* row locks of leads
    holder,         \* row locks of jobs: the worker that claimed it
    pc, task, hop,  \* where an actor is, the lead it works on, its redirects
    todo,           \* leads that a thread's enrich_all_pending still has to do
    free,           \* the semaphore of each process
    asked, crashes  \* history: API requests per lead; deaths of workers

rows == <<lead, results, job>>
locks == <<owner, holder>>
calls == <<pc, task, hop, todo>>
history == <<asked, crashes>>
vars == <<rows, locks, calls, free, history>>

NoResults == [scored |-> 0, blank |-> 0]

\* A lead that is not there reads as one that was deleted, with its jobs.
Init ==
    /\ \E present \in Populations :
          /\ lead = [l \in Leads |->
                [status   |-> IF l \in present THEN "new" ELSE "gone",
                 enriched |-> FALSE]]
          /\ job = [j \in Jobs |->
                IF LeadOf[j] \in present THEN "queued" ELSE "gone"]
    /\ results = [l \in Leads |-> NoResults]
    /\ owner = [l \in Leads |-> None]
    /\ holder = [j \in Jobs |-> None]
    /\ pc = [a \in Actors |-> "idle"]
    /\ task = [a \in Actors |-> None]
    /\ hop = [a \in Actors |-> 0]
    /\ todo = [t \in Threads |-> {}]
    /\ free = [p \in Processes |-> Permits]
    /\ asked = [l \in Leads |-> 0]
    /\ crashes = 0

Goto(a, label) == pc' = [pc EXCEPT ![a] = label]
Gone(l) == lead[l].status = "gone"

\* enrich_lead has returned or raised: a worker goes on to its job, a thread
\* to the next lead of its batch, which an exception ends.
Leave(a, success) ==
    /\ Goto(a, IF a \in Threads THEN "idle"
                                ELSE IF success THEN "succeeded" ELSE "failed")
    /\ task' = [task EXCEPT ![a] = None]
    /\ UNCHANGED hop

Return(a, success) == Leave(a, success) /\ UNCHANGED todo

Raise(a) ==
    /\ Leave(a, FALSE)
    /\ todo' = [t \in Threads |-> IF t = a THEN {} ELSE todo[t]]

Take(a, l) ==
    /\ Goto(a, "open")
    /\ task' = [task EXCEPT ![a] = l]

-----------------------------------------------------------------------------
(* The callers                                                             *)

\* POST /leads/enrich with a lead_id.  An id of no lead is answered like that
\* of a lead deleted before the call reads it (Open), and not asked for here.
RequestOne(t, l) ==
    /\ pc[t] = "idle" /\ todo[t] = {}
    /\ asked[l] < MaxAsked /\ ~Gone(l)
    /\ Take(t, l)
    /\ asked' = [asked EXCEPT ![l] = @ + 1]
    /\ UNCHANGED <<rows, locks, hop, todo, free, crashes>>

\* POST /leads/enrich without one: the ids of all NEW leads whose website is
\* not NULL, read in a transaction of its own.
RequestPending(t) ==
    LET pending == {l \in Listed : lead[l].status = "new"}
    IN /\ pc[t] = "idle" /\ todo[t] = {}
       /\ \A l \in pending : asked[l] < MaxAsked
       /\ todo' = [todo EXCEPT ![t] = pending]
       /\ UNCHANGED <<rows, locks, pc, task, hop, free, history>>

NextPending(t) ==
    /\ pc[t] = "idle"
    /\ \E l \in todo[t] :
          /\ Take(t, l)
          /\ todo' = [todo EXCEPT ![t] = @ \ {l}]
          /\ asked' = [asked EXCEPT ![l] = @ + 1]
    /\ UNCHANGED <<rows, locks, hop, free, crashes>>

\* Queued, or PROCESSING with an expired lease.
Claimable == {j \in Jobs : job[j] \in {"queued", "processing"} /\ holder[j] = None}

\* claim_enrichment_job: the oldest, SKIP LOCKED; PROCESSING, lease and
\* attempt_count are written to the worker's transaction and not committed.
Claim(w) ==
    /\ pc[w] = "idle"
    /\ \E j \in Claimable :
          /\ \A i \in Claimable : j <= i
          /\ holder' = [holder EXCEPT ![j] = w]
          /\ Take(w, LeadOf[j])
    /\ UNCHANGED <<rows, owner, hop, todo, free, history>>

OutcomeRequeued(w) ==            \* mutant: a failed job is queued again, for ever
    IF pc[w] = "succeeded" THEN "sent" ELSE "queued"
Outcome(w) == IF pc[w] = "succeeded" THEN "sent" ELSE "failed"

\* The outcome of the call, and the commit that process_next_job ends with.
CloseJob(w) ==
    /\ pc[w] \in {"succeeded", "failed"}
    /\ \E j \in Jobs :
          /\ holder[j] = w
          /\ job' = [job EXCEPT ![j] = Outcome(w)]
          /\ holder' = [holder EXCEPT ![j] = None]
    /\ Goto(w, "idle")
    /\ UNCHANGED <<lead, results, owner, task, hop, todo, free, history>>

-----------------------------------------------------------------------------
(* enrich_lead, up to the pipeline                                         *)

\* A lead without a website that is ENRICHED already is not written to.
Open(a) ==
    LET l == task[a]
    IN /\ pc[a] = "open"
       /\ \/ Gone(l) /\ Return(a, FALSE)
          \/ l \notin Sites /\ lead[l].status = "enriched" /\ Return(a, TRUE)
          \/ /\ IF l \in Sites THEN ~Gone(l) /\ Goto(a, "flush")
                               ELSE lead[l].status = "new" /\ Goto(a, "mark")
             /\ UNCHANGED <<task, hop, todo>>
       /\ UNCHANGED <<rows, locks, free, history>>

RowFreeAlways(l) == TRUE    \* mutant: ENRICHING is not flushed before the fetch
RowFree(l) == owner[l] = None

\* No website: ENRICHED and done.  An UPDATE waits for the row, and raises
\* if the row is gone by then.
Mark(a) ==
    LET l == task[a]
    IN /\ pc[a] = "mark"
       /\ RowFree(l)
       /\ IF Gone(l)
          THEN Raise(a) /\ UNCHANGED lead
          ELSE Return(a, TRUE) /\ lead' = [lead EXCEPT ![l].status = "enriched"]
       /\ UNCHANGED <<results, job, locks, free, history>>

MarkEnrichingVisibly(l) ==  \* mutant: commit instead of flush
    lead' = [lead EXCEPT ![l].status = "enriching"]
MarkEnriching(l) == UNCHANGED lead

\* ENRICHING is flushed: the row is locked from here to the commit.
Flush(a) ==
    LET l == task[a]
    IN /\ pc[a] = "flush"
       /\ RowFree(l)
       /\ IF Gone(l)
          THEN Raise(a) /\ UNCHANGED <<lead, owner>>
          ELSE /\ MarkEnriching(l)
               /\ owner' = [owner EXCEPT ![l] = a]
               /\ Goto(a, "http")
               /\ UNCHANGED <<task, hop, todo>>
       /\ UNCHANGED <<results, job, holder, free, history>>

-----------------------------------------------------------------------------
(* The pipeline.  Every request has a timeout, every failure an answer.    *)

Responses ==
    [status: {200, 403}, challenge: BOOLEAN, body: BOOLEAN, long: BOOLEAN]

\* A page a browser is not needed for: no anti-bot challenge, no JS shell.
EvaluateUsability(r) == r.status = 200 /\ ~r.challenge /\ r.body /\ r.long

FetchEnds(a, label) ==
    /\ Goto(a, label)
    /\ hop' = [hop EXCEPT ![a] = 0]
    /\ UNCHANGED <<task, todo>>

\* Every hop is validated; a rejected one ends the pipeline without browser.
Rejected(a) ==
    /\ pc[a] = "http"
    /\ FetchEnds(a, "useless")
    /\ UNCHANGED <<rows, locks, free, history>>

HopsLeftByOne(a) == hop[a] <= MaxRedirects   \* mutant: off by one
HopsLeft(a) == hop[a] < MaxRedirects

Redirected(a) ==
    /\ pc[a] = "http"
    /\ IF HopsLeft(a)
       THEN hop' = [hop EXCEPT ![a] = @ + 1] /\ UNCHANGED <<pc, task, todo>>
       ELSE FetchEnds(a, "fallback")
    /\ UNCHANGED <<rows, locks, free, history>>

\* An answer; or a timeout, an error, a redirect that leads nowhere.
Answered(a) ==
    /\ pc[a] = "http"
    /\ \/ \E r \in Responses :
             FetchEnds(a, IF EvaluateUsability(r) THEN "useful" ELSE "fallback")
       \/ FetchEnds(a, "fallback")
    /\ UNCHANGED <<rows, locks, free, history>>

WithoutBrowserRetry == "http"   \* mutant: try again until a browser is free
WithoutBrowser == "useless"

\* The browser's own validation rejects, or all browsers of the process stay
\* busy for the five seconds that acquire waits.
NoBrowser(a) ==
    /\ pc[a] = "fallback"
    /\ Goto(a, WithoutBrowser)
    /\ UNCHANGED <<rows, locks, task, hop, todo, free, history>>

AcquireUnguarded(a) ==      \* mutant: no semaphore
    /\ pc[a] = "fallback"
    /\ free' = [free EXCEPT ![ProcessOf(a)] = @ - 1]
    /\ Goto(a, "browser")
    /\ UNCHANGED <<rows, locks, task, hop, todo, history>>

Acquire(a) ==
    /\ pc[a] = "fallback"
    /\ free[ProcessOf(a)] > 0
    /\ free' = [free EXCEPT ![ProcessOf(a)] = @ - 1]
    /\ Goto(a, "browser")
    /\ UNCHANGED <<rows, locks, task, hop, todo, history>>

ReleaseOnSuccess(a) ==      \* mutant: no finally clause
    IF pc'[a] = "useful" THEN free' = [free EXCEPT ![ProcessOf(a)] = @ + 1]
                         ELSE UNCHANGED free
Release(a) == free' = [free EXCEPT ![ProcessOf(a)] = @ + 1]

\* A page of more than 200 characters, whatever its status, or not, or an
\* exception: the permit goes back in the finally clause.
Browse(a) ==
    /\ pc[a] = "browser"
    /\ Goto(a, "useful") \/ Goto(a, "useless")
    /\ Release(a)
    /\ UNCHANGED <<rows, locks, task, hop, todo, history>>

Features ==
    [title: BOOLEAN, meta: BOOLEAN, headings: BOOLEAN, text: BOOLEAN]

\* _extract_features, in hundredths.
Confidence(f) ==
    LET points(found, n) == IF found THEN n ELSE 0
    IN 20 + points(f.title, 20) + points(f.meta, 30)
          + points(f.headings, 20) + points(f.text, 10)

AuditSuccess(l, score) ==   \* mutant: failed fetches leave no audit row
    results' = [results EXCEPT ![l].scored = @ + IF score > 0 THEN 1 ELSE 0]
Audit(l, score) ==
    results' = [results EXCEPT ![l][IF score > 0 THEN "scored" ELSE "blank"] = @ + 1]

\* The audit row and the lead in one commit; a failed fetch enriches as well,
\* "so funnel proceeds".  Or the commit fails and everything is rolled back.
Store(a) ==
    LET l == task[a]
    IN /\ pc[a] \in {"useful", "useless"}
       /\ \/ \E f \in Features :
                LET score == IF pc[a] = "useful" THEN Confidence(f) ELSE 0
                    success == score > 0 \/ pc[a] = "useful"
                IN /\ Audit(l, score)
                   /\ lead' = [lead EXCEPT ![l] =
                          [status |-> "enriched", enriched |-> success \/ @.enriched]]
                   /\ Return(a, success)
          \/ Raise(a) /\ UNCHANGED <<lead, results>>
       /\ owner' = [owner EXCEPT ![l] = None]
       /\ UNCHANGED <<job, holder, free, history>>

-----------------------------------------------------------------------------
(* Deletion and crashes                                                    *)

\* DELETE /leads/{lead_id}: the DELETE locks the lead, ...
DeleteLead(l) ==
    /\ ~Gone(l) /\ owner[l] = None
    /\ owner' = [owner EXCEPT ![l] = Deleter]
    /\ UNCHANGED <<rows, holder, calls, free, history>>

\* ... then cascades to the results and, once it can lock them, the jobs.
Cascade(l) ==
    /\ owner[l] = Deleter
    /\ \A j \in Jobs : LeadOf[j] = l => holder[j] = None
    /\ lead' = [lead EXCEPT ![l] = [status |-> "gone", enriched |-> FALSE]]
    /\ results' = [results EXCEPT ![l] = NoResults]
    /\ job' = [j \in Jobs |-> IF LeadOf[j] = l THEN "gone" ELSE job[j]]
    /\ owner' = [owner EXCEPT ![l] = None]
    /\ UNCHANGED <<holder, calls, free, history>>

\* A process dies: the database rolls its transactions back, systemd starts
\* it again.  For a worker at "succeeded" or "failed" this is also what a
\* failing commit of the job leaves behind: the job claimable, the lead stored.
Dead(p) == {a \in Actors : ProcessOf(a) = p}

Crash(p) ==
    /\ crashes < MaxCrashes
    /\ crashes' = crashes + 1
    /\ owner' = [l \in Leads |->
          IF owner[l] \in Dead(p) \/ (p = Api /\ owner[l] = Deleter)
          THEN None ELSE owner[l]]
    /\ holder' = [j \in Jobs |-> IF holder[j] = p THEN None ELSE holder[j]]
    /\ pc' = [a \in Actors |-> IF a \in Dead(p) THEN "idle" ELSE pc[a]]
    /\ task' = [a \in Actors |-> IF a \in Dead(p) THEN None ELSE task[a]]
    /\ hop' = [a \in Actors |-> IF a \in Dead(p) THEN 0 ELSE hop[a]]
    /\ todo' = [t \in Threads |-> IF t \in Dead(p) THEN {} ELSE todo[t]]
    /\ free' = [free EXCEPT ![p] = Permits]
    /\ UNCHANGED <<rows, asked>>

-----------------------------------------------------------------------------
Fetch(a) ==
    \/ Open(a) \/ Mark(a) \/ Flush(a)
    \/ Rejected(a) \/ Redirected(a) \/ Answered(a)
    \/ NoBrowser(a) \/ Acquire(a) \/ Browse(a) \/ Store(a)

Next ==
    \/ \E t \in Threads :
          RequestPending(t) \/ NextPending(t) \/ \E l \in Leads : RequestOne(t, l)
    \/ \E w \in Workers : Claim(w) \/ CloseJob(w)
    \/ \E a \in Actors : Fetch(a)
    \/ \E l \in Leads : DeleteLead(l) \/ Cascade(l)
    \/ \E p \in Processes : Crash(p)

Spec == Init /\ [][Next]_vars

\* A call that runs goes on: its waits have timeouts, except the wait for a
\* row.  Users and deaths are not forced.
Fairness ==
    /\ \A a \in Actors : WF_vars(Fetch(a))
    /\ \A t \in Threads : WF_vars(NextPending(t))
    /\ \A w \in Workers : WF_vars(Claim(w) \/ CloseJob(w))
    /\ \A l \in Leads : WF_vars(Cascade(l))

FairSpec == Spec /\ Fairness

-----------------------------------------------------------------------------
(* Properties                                                              *)

LeadRows == [status: {"new", "enriching", "enriched", "gone"}, enriched: BOOLEAN]
Labels == {"idle", "open", "mark", "flush", "http", "fallback", "browser",
           "useful", "useless", "succeeded", "failed"}

\* Type invariant.
TypeOK ==
    /\ lead \in [Leads -> LeadRows]
    /\ results \in [Leads -> [scored: Nat, blank: Nat]]
    /\ job \in [Jobs -> {"queued", "processing", "sent", "failed", "gone"}]
    /\ owner \in [Leads -> Actors \cup {Deleter, None}]
    /\ holder \in [Jobs -> Workers \cup {None}]
    /\ pc \in [Actors -> Labels]
    /\ task \in [Actors -> Leads \cup {None}]
    /\ hop \in [Actors -> 0..MaxRedirects]
    /\ todo \in [Threads -> SUBSET Leads]
    /\ free \in [Processes -> 0..Permits]
    /\ asked \in [Leads -> Nat]
    /\ crashes \in Nat

\* No process runs more browsers than it may, and every permit is free or
\* with one of them, however threads meet at the pool and after any mixture
\* of timeouts, exceptions and deaths: it (pipeline.py:235) neither leaks nor
\* grows.
Browsing(p) == {a \in Actors : ProcessOf(a) = p /\ pc[a] = "browser"}

PermitsConserved ==
    \A p \in Processes :
        /\ Cardinality(Browsing(p)) <= Permits
        /\ free[p] + Cardinality(Browsing(p)) = Permits

\* No two calls fetch for one lead at a time, be they of one batch request,
\* of two, or of a worker: the flush of ENRICHING (enricher.py:43) holds the
\* row until the result is stored.
Fetching == {"http", "fallback", "browser", "useful", "useless"}

OneFetchPerLead ==
    \A a, b \in Actors :
        pc[a] \in Fetching /\ pc[b] \in Fetching /\ task[a] = task[b] => a = b

\* Whoever reads a lead as ENRICHED finds the audit row of the fetch, and the
\* enriched flag says that one of the fetches found something
\* (enricher.py:51-79), whatever died or was rolled back in between.  What
\* becomes of a lead after ENRICHED is the subject of LeadFunnel.
EnrichedIsAudited ==
    \A l \in Sites :
        /\ lead[l].status = "enriched" <=> results[l] # NoResults
        /\ lead[l].enriched <=> results[l].scored > 0

\* A job is SENT only if its lead is enriched, although job and lead are
\* written in different transactions (enrichment_worker.py:109-113).
SentMeansEnriched ==
    \A j \in Jobs : job[j] = "sent" => lead[LeadOf[j]].status = "enriched"

\* A website is fetched once per request and once per execution of a job; a
\* job is executed again only because a process died, once per death
\* (enrichment_worker.py:61-74).
Executions(l) ==
    {j \in Jobs : LeadOf[j] = l /\ (job[j] \in {"sent", "failed"} \/ holder[j] # None)}

RefetchesBounded ==
    \A l \in Leads : results[l].scored + results[l].blank
                       <= asked[l] + Cardinality(Executions(l)) + crashes

\* Readers see only the steps of EnrichmentEffects.
Effects == INSTANCE EnrichmentEffects
ImplementsEffects == Effects!Spec

\* A delete request holds a lead and waits for a job that a worker holds,
\* while the worker's other connection waits for the lead.
Stuck ==
    \E w \in Workers, j \in Jobs :
        /\ holder[j] = w
        /\ pc[w] \in {"mark", "flush"} /\ task[w] = LeadOf[j]
        /\ owner[LeadOf[j]] = Deleter

\* A call of enrich_lead comes to an end however the website redirects,
\* hangs or fails and however busy the browsers are (pipeline.py:81, 254),
\* unless a delete request is stuck.
CallsReturn == \A a \in Actors : pc[a] # "idle" ~> pc[a] = "idle" \/ Stuck

\* Every job is finished or deleted, unless a delete request is stuck.
JobsFinish == \A j \in Jobs : job[j] = "queued" ~> job[j] # "queued" \/ Stuck

\* enrichment_worker.py:33: the worker "continuously pulls and processes
\* EnrichmentJobs": every job is finished or deleted.  Expected to fail.
JobsAlwaysFinish == \A j \in Jobs : job[j] = "queued" ~> job[j] # "queued"
=============================================================================
