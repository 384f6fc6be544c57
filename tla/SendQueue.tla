------------------------------ MODULE SendQueue ------------------------------
(***************************************************************************)
(* The durable send queue: the send_jobs table with the tables it keeps in *)
(* step (email_records, leads, campaigns, send_attempts), the API requests *)
(* that fill it, the campaign workers that drain it and the maintenance    *)
(* worker that tidies it, on PostgreSQL at READ COMMITTED.                 *)
(*                                                                         *)
(* The variables hold the COMMITTED database.  A campaign worker executes  *)
(* a whole cycle in one transaction (get_session around _execute_job), so  *)
(* what it has read and flushed is in tx[w] until Commit* publishes it or  *)
(* Abort throws it away.  SELECT ... FOR UPDATE SKIP LOCKED runs on the    *)
(* join of send_jobs and campaigns and therefore locks the campaign row    *)
(* too: Locked(c) is that lock, and every UPDATE of the campaign row, or   *)
(* INSERT of a job that refers to it, waits for it.                        *)
(*                                                                         *)
(* A job is named by its email record: its idempotency key                 *)
(* send:org:campaign:lead:email is determined by the record and is UNIQUE. *)
(* Time is relative: wait[e] counts down to scheduled_for, and while the   *)
(* job is PROCESSING to lease_expires_at.                                  *)
(***************************************************************************)
EXTENDS Integers, Sequences, FiniteSets

CONSTANTS
    Campaigns, Leads, Emails,   \* rows; one job at most for each email record
    Followups,                  \* the records made by the follow-up generator
    CampaignOf, LeadOf,         \* the foreign keys of an email record
    Workers,                    \* campaign worker processes
    Requests,                   \* API threads that can run start_campaign
    MaxAttempts,                \* SendJob.max_attempts
    BackoffBase,                \* backoff_base_seconds, in ticks
    PolicyDelays,               \* suggested_delay_seconds, in ticks
    BreakerMin,                 \* total_sent from which the breaker can trip
    OptOutRoutes,               \* how an opt-out is recorded (external)
    None,
    MaxClaims,                  \* bound: attempt number a postponed job may have
    MaxFaults                   \* bound: aborts and lost provider answers

EmailStates  == {"absent", "pending", "queued", "sent", "failed"}
JobStates    == {"none", "queued", "processing", "retry_wait", "sent", "failed"}
CampaignStates == {"draft", "active", "paused"}
LeadStates   == {"new", "email_generated", "emailed", "unsubscribed"}
Outcomes     == {"sent", "retry", "fail", "trip", "postpone"}
AuditRow     == [number: Nat,
                 status: {"success", "transient_failure", "permanent_failure"}]

ASSUME RowsAssumption ==
    /\ Followups \subseteq Emails
    /\ CampaignOf \in [Emails -> Campaigns]
    /\ LeadOf \in [Emails -> Leads]
    /\ None \notin Emails \cup Campaigns
    /\ \A S \in SUBSET Emails : S # None
    /\ IsFiniteSet(Emails)
ASSUME LimitsAssumption ==
    /\ MaxAttempts \in Nat \ {0}
    /\ BackoffBase \in Nat \ {0}
    /\ PolicyDelays \subseteq Nat \ {0}
    /\ BreakerMin \in Nat \ {0}
    /\ OptOutRoutes \subseteq {"suppression", "status"}
    /\ MaxClaims \in Nat
    /\ MaxFaults \in Nat
    /\ \A n \in 0..MaxAttempts : 2 ^ n \in Nat

VARIABLES
    emailStatus,     \* EmailRecord.status
    jobStatus,       \* SendJob.status, "none" when there is no row
    attempts,        \* SendJob.attempt_count
    wait,            \* ticks to scheduled_for / to lease_expires_at
    audit,           \* the job's send_attempts rows, oldest first
    campaignStatus,  \* Campaign.status
    totalSent,       \* Campaign.total_sent
    leadStatus,      \* Lead.status
    suppressed,      \* leads with a row in suppression_entries
    phase, tx,       \* a worker's position in _execute_job, its transaction
    request, batch,  \* a start_campaign request: its campaign, selected records
    leadRead,        \* the lead's status as the record's generator has read it
    copies,          \* history: messages of the record the provider accepted
    orphans,         \* history: of those, the ones the database never recorded
    optedOut,        \* history: leads whose opt-out was committed
    late,            \* history: messages accepted for a lead after its opt-out
    faults           \* history: faults so far

jobVars      == <<jobStatus, attempts, wait, audit>>
entityVars   == <<campaignStatus, totalSent, leadStatus, suppressed>>
workerVars   == <<phase, tx>>
requestVars  == <<request, batch, leadRead>>
mailVars     == <<copies, orphans, late>>
vars == <<emailStatus, jobVars, entityVars, workerVars, requestVars,
          mailVars, optedOut, faults>>

-----------------------------------------------------------------------------
(* Locks, due jobs, transactions                                           *)

NoTx == [job |-> None, attempt |-> 0, leadSeen |-> "new",
         sentSeen |-> 0, outcome |-> "postpone", delay |-> 0]
Transaction == [job: Emails \cup {None}, attempt: Nat, leadSeen: LeadStates,
                sentSeen: Nat, outcome: Outcomes, delay: Nat]

Busy(w) == phase[w] # "idle"

NotLocked(c) == FALSE   \* mutant: FOR UPDATE OF send_jobs, the campaign row stays free
Locked(c) == \E w \in Workers : Busy(w) /\ CampaignOf[tx[w].job] = c

JobLocked(e) == \E w \in Workers : Busy(w) /\ tx[w].job = e

\* Jobs the claim query may return: scheduled and due, or PROCESSING under an
\* expired lease (which reap_orphaned_jobs has just put back to QUEUED).
DueJob(e) ==
    /\ jobStatus[e] \in {"queued", "retry_wait", "processing"}
    /\ wait[e] = 0
ClaimableNotRetried(e) ==   \* mutant: the query forgets RETRY_WAIT
    /\ DueJob(e)
    /\ jobStatus[e] # "retry_wait"
    /\ campaignStatus[CampaignOf[e]] = "active"
Claimable(e) ==
    /\ DueJob(e)
    /\ campaignStatus[CampaignOf[e]] = "active"

\* reap_orphaned_jobs: PROCESSING with an expired lease goes back to QUEUED.
Reaped == [e \in Emails |-> IF jobStatus[e] = "processing" /\ wait[e] = 0
                            THEN "queued" ELSE jobStatus[e]]

CanRetryOnceMore(t) == t.attempt <= MaxAttempts   \* mutant: off by one
CanRetry(t) == t.attempt < MaxAttempts

\* 15 * 2^max(0, attempt - 1) seconds.
RetryDelayBackwards(n) == BackoffBase * (n - MaxAttempts)   \* mutant: negative delay
RetryDelay(n) == BackoffBase * 2 ^ (IF n > 0 THEN n - 1 ELSE 0)

Record(e, n, s) ==
    audit' = [audit EXCEPT ![e] = Append(@, [number |-> n, status |-> s])]

Init ==
    /\ emailStatus = [e \in Emails |-> "absent"]
    /\ jobStatus = [e \in Emails |-> "none"]
    /\ attempts = [e \in Emails |-> 0]
    /\ wait = [e \in Emails |-> 0]
    /\ audit = [e \in Emails |-> <<>>]
    /\ campaignStatus = [c \in Campaigns |-> "draft"]
    /\ totalSent = [c \in Campaigns |-> 0]
    /\ leadStatus = [l \in Leads |-> IF \E e \in Emails \ Followups : LeadOf[e] = l
                                     THEN "new" ELSE "emailed"]
    /\ suppressed = {}
    /\ phase = [w \in Workers |-> "idle"]
    /\ tx = [w \in Workers |-> NoTx]
    /\ request = [r \in Requests |-> None]
    /\ batch = [r \in Requests |-> None]
    /\ leadRead = [e \in Emails |-> None]
    /\ copies = [e \in Emails |-> 0]
    /\ orphans = [e \in Emails |-> 0]
    /\ optedOut = {}
    /\ late = [l \in Leads |-> 0]
    /\ faults = 0

-----------------------------------------------------------------------------
(* The API: records appear, campaigns start and pause, jobs are enqueued   *)

\* A generator reads the lead, which a batch selected while it was NEW (or, for a
\* follow-up, EMAILED), and asks the language model for a text ...
GenerateRead(e) ==
    /\ emailStatus[e] = "absent"
    /\ leadRead[e] = None
    /\ leadStatus[LeadOf[e]] # (IF e \in Followups THEN "unsubscribed" ELSE "emailed")
    /\ leadRead' = [leadRead EXCEPT ![e] = leadStatus[LeadOf[e]]]
    /\ UNCHANGED <<emailStatus, jobVars, entityVars, workerVars, request, batch,
                   mailVars, optedOut, faults>>

\* ... and commits a PENDING record, with the lead EMAIL_GENERATED: no UPDATE is
\* emitted when the lead was read as EMAIL_GENERATED, nor for a follow-up.
Generate(e) ==
    /\ emailStatus[e] = "absent"
    /\ leadRead[e] # None
    /\ ~Locked(CampaignOf[e])
    /\ leadRead' = [leadRead EXCEPT ![e] = None]
    /\ emailStatus' = [emailStatus EXCEPT ![e] = "pending"]
    /\ leadStatus' = IF e \in Followups \/ leadRead[e] = "email_generated"
                     THEN leadStatus
                     ELSE [leadStatus EXCEPT ![LeadOf[e]] = "email_generated"]
    /\ UNCHANGED <<jobVars, campaignStatus, totalSent, suppressed, workerVars,
                   request, batch, mailVars, optedOut, faults>>

\* No text, or the generator dies: the transaction leaves nothing.
GenerateAbort(e) ==
    /\ leadRead[e] # None
    /\ leadRead' = [leadRead EXCEPT ![e] = None]
    /\ UNCHANGED <<emailStatus, jobVars, entityVars, workerVars, request, batch,
                   mailVars, optedOut, faults>>

QueueJobs(new) ==
    jobStatus' = [e \in Emails |-> IF e \in new THEN "queued" ELSE jobStatus[e]]
QueueRecords(new) ==
    emailStatus' = [e \in Emails |-> IF e \in new THEN "queued" ELSE emailStatus[e]]
EnqueueUnchecked(S) ==   \* mutant: no look-up of the idempotency key
    QueueJobs(S) /\ QueueRecords(S) /\ UNCHANGED <<attempts, wait, audit>>
EnqueueJobOnly(S) ==     \* mutant: email.status is not set
    /\ QueueJobs({e \in S : jobStatus[e] = "none"})
    /\ UNCHANGED <<emailStatus, attempts, wait, audit>>
\* enqueue_send_job for each record of S that has no job yet.
Enqueue(S) ==
    LET new == {e \in S : jobStatus[e] = "none"}
    IN QueueJobs(new) /\ QueueRecords(new) /\ UNCHANGED <<attempts, wait, audit>>

SelectableUnsent(e) == emailStatus[e] \in {"pending", "failed"}   \* mutant: retries FAILED
Selectable(e) == emailStatus[e] = "pending"

\* start_campaign, first transaction: the campaign becomes ACTIVE whatever it was.
StartActivate(r, c) ==
    /\ request[r] = None
    /\ ~Locked(c)
    /\ campaignStatus' = [campaignStatus EXCEPT ![c] = "active"]
    /\ request' = [request EXCEPT ![r] = c]
    /\ UNCHANGED <<emailStatus, jobVars, totalSent, leadStatus, suppressed,
                   workerVars, batch, leadRead, mailVars, optedOut, faults>>

\* start_campaign, second transaction: the SELECT of the PENDING records ...
StartSelect(r) ==
    /\ request[r] # None
    /\ batch[r] = None
    /\ batch' = [batch EXCEPT ![r] =
           {e \in Emails : CampaignOf[e] = request[r] /\ Selectable(e)}]
    /\ UNCHANGED <<emailStatus, jobVars, entityVars, workerVars, request, leadRead,
                   mailVars, optedOut, faults>>

\* ... and the INSERTs with their commit, which wait for the campaign row.
StartEnqueue(r) ==
    /\ batch[r] # None
    /\ ~Locked(request[r])
    /\ Enqueue(batch[r])
    /\ request' = [request EXCEPT ![r] = None]
    /\ batch' = [batch EXCEPT ![r] = None]
    /\ UNCHANGED <<entityVars, workerVars, leadRead, mailVars, optedOut, faults>>

\* The second transaction fails on the unique key, or the API process dies
\* between the two: the campaign stays ACTIVE and nothing is enqueued.
StartAbort(r) ==
    /\ request[r] # None
    /\ request' = [request EXCEPT ![r] = None]
    /\ batch' = [batch EXCEPT ![r] = None]
    /\ UNCHANGED <<emailStatus, jobVars, entityVars, workerVars, leadRead, mailVars,
                   optedOut, faults>>

Pause(c) ==
    /\ ~Locked(c)
    /\ campaignStatus[c] # "paused"
    /\ campaignStatus' = [campaignStatus EXCEPT ![c] = "paused"]
    /\ UNCHANGED <<emailStatus, jobVars, totalSent, leadStatus, suppressed,
                   workerVars, requestVars, mailVars, optedOut, faults>>

\* The follow-up scheduler enqueues the record it has just generated, whatever
\* the campaign's status.
EnqueueFollowup(e) ==
    /\ e \in Followups
    /\ Selectable(e)
    /\ ~Locked(CampaignOf[e])
    /\ Enqueue({e})
    /\ UNCHANGED <<entityVars, workerVars, requestVars, mailVars, optedOut, faults>>

\* An opt-out is committed by something outside src: a suppression_entries row,
\* or Lead.status = UNSUBSCRIBED.
OptOut(l) ==
    /\ l \notin optedOut
    /\ optedOut' = optedOut \cup {l}
    /\ \/ /\ "suppression" \in OptOutRoutes
          /\ suppressed' = suppressed \cup {l}
          /\ UNCHANGED leadStatus
       \/ /\ "status" \in OptOutRoutes
          /\ leadStatus' = [leadStatus EXCEPT ![l] = "unsubscribed"]
          /\ UNCHANGED suppressed
    /\ UNCHANGED <<emailStatus, jobVars, campaignStatus, totalSent, workerVars,
                   requestVars, mailVars, faults>>

-----------------------------------------------------------------------------
(* The campaign worker: one transaction from claim to commit               *)

\* reap, claim_send_job and the reads of the record, the lead and the campaign.
Claim(w, e) ==
    /\ ~Busy(w)
    /\ Claimable(e)
    /\ ~JobLocked(e)
    /\ ~Locked(CampaignOf[e])
    /\ phase' = [phase EXCEPT ![w] = "claimed"]
    /\ tx' = [tx EXCEPT ![w] =
           [NoTx EXCEPT !.job = e,
                        !.attempt = attempts[e] + 1,
                        !.leadSeen = leadStatus[LeadOf[e]],
                        !.sentSeen = totalSent[CampaignOf[e]]]]
    /\ UNCHANGED <<emailStatus, jobVars, entityVars, requestVars, mailVars,
                   optedOut, faults>>

Settle(w, outcome, delay) ==
    /\ phase' = [phase EXCEPT ![w] = "settled"]
    /\ tx' = [tx EXCEPT ![w] = [@ EXCEPT !.outcome = outcome, !.delay = delay]]

SeenUnsubscribed(t) == t.leadSeen = "unsubscribed"   \* mutant: no suppression look-up
SeenOptedOut(t) == LeadOf[t.job] \in suppressed \/ t.leadSeen = "unsubscribed"

\* No active, healthy account with credentials: a retryable failure.
NoAccount(w) ==
    /\ phase[w] = "claimed"
    /\ Settle(w, "retry", 0)
    /\ UNCHANGED <<emailStatus, jobVars, entityVars, requestVars, mailVars,
                   optedOut, faults>>

\* The credentials do not decrypt, or policy rules 1 and 2 reject for good.
Reject(w) ==
    /\ phase[w] = "claimed"
    /\ Settle(w, "fail", 0)
    /\ UNCHANGED <<emailStatus, jobVars, entityVars, requestVars, mailVars,
                   optedOut, faults>>

\* Policy rule 4: the bounce ratio (external data) is above the limit.
Trip(w) ==
    /\ phase[w] = "claimed"
    /\ ~SeenOptedOut(tx[w])
    /\ tx[w].sentSeen >= BreakerMin
    /\ Settle(w, "trip", 0)
    /\ UNCHANGED <<emailStatus, jobVars, entityVars, requestVars, mailVars,
                   optedOut, faults>>

\* Policy rules 5 to 7: a limit is reached, the job goes back with a delay.
Postpone(w) ==
    /\ phase[w] = "claimed"
    /\ ~SeenOptedOut(tx[w])
    /\ tx[w].attempt <= MaxClaims
    /\ \E d \in PolicyDelays : Settle(w, "postpone", d)
    /\ UNCHANGED <<emailStatus, jobVars, entityVars, requestVars, mailVars,
                   optedOut, faults>>

Allow(w) ==
    /\ phase[w] = "claimed"
    /\ ~SeenOptedOut(tx[w])
    /\ phase' = [phase EXCEPT ![w] = "cleared"]
    /\ UNCHANGED <<emailStatus, jobVars, entityVars, tx, requestVars, mailVars,
                   optedOut, faults>>

OutcomeIgnoringSuccess(answer) ==   \* mutant: result.success is not looked at
    IF answer = "permanent" THEN "fail" ELSE "sent"
OutcomeOf(answer) ==
    CASE answer \in {"cached", "accepted"}   -> "sent"
      [] answer \in {"lost", "transient"}    -> "retry"
      [] answer \in {"unnamed", "permanent"} -> "fail"

\* The provider took the message, but its call raised, which the adapter reports
\* as retryable; or its answer is a success without a message id.
Unconfirmed == {"lost", "unnamed"}

\* The idempotency check, then provider.send.
Dispatch(w, reply) ==
    LET e == tx[w].job
        answer == IF emailStatus[e] = "sent" THEN "cached" ELSE reply
        accepted == answer \in Unconfirmed \cup {"accepted"}
    IN /\ phase[w] = "cleared"
       /\ answer \in Unconfirmed => faults < MaxFaults
       /\ Settle(w, OutcomeOf(answer), 0)
       /\ copies' = IF accepted THEN [copies EXCEPT ![e] = @ + 1] ELSE copies
       /\ orphans' = IF answer \in Unconfirmed
                     THEN [orphans EXCEPT ![e] = @ + 1] ELSE orphans
       /\ late' = IF accepted /\ LeadOf[e] \in optedOut
                  THEN [late EXCEPT ![LeadOf[e]] = @ + 1] ELSE late
       /\ faults' = IF answer \in Unconfirmed THEN faults + 1 ELSE faults
       /\ UNCHANGED <<emailStatus, jobVars, entityVars, requestVars, optedOut>>

Finish(w) ==
    /\ phase' = [phase EXCEPT ![w] = "idle"]
    /\ tx' = [tx EXCEPT ![w] = NoTx]

\* The job row as the commit leaves it; the reap of this cycle goes with it.
CommitJob(t, status, delay) ==
    /\ jobStatus' = [Reaped EXCEPT ![t.job] = status]
    /\ attempts' = [attempts EXCEPT ![t.job] = t.attempt]
    /\ wait' = [wait EXCEPT ![t.job] = delay]

\* complete_send_job.  The lead row is written from what was read at the claim:
\* no UPDATE is emitted when the lead was EMAILED already.
CommitSent(w) ==
    LET t == tx[w]
        e == t.job
    IN /\ phase[w] = "settled"
       /\ t.outcome = "sent"
       /\ CommitJob(t, "sent", 0)
       /\ Record(e, t.attempt, "success")
       /\ emailStatus' = [emailStatus EXCEPT ![e] = "sent"]
       /\ leadStatus' = IF t.leadSeen = "emailed" THEN leadStatus
                        ELSE [leadStatus EXCEPT ![LeadOf[e]] = "emailed"]
       /\ totalSent' = [totalSent EXCEPT ![CampaignOf[e]] = t.sentSeen + 1]
       /\ Finish(w)
       /\ UNCHANGED <<campaignStatus, suppressed, requestVars, mailVars,
                      optedOut, faults>>

\* fail_send_job, retryable and with attempts left.
CommitRetry(w) ==
    LET t == tx[w]
    IN /\ phase[w] = "settled"
       /\ t.outcome = "retry"
       /\ CanRetry(t)
       /\ CommitJob(t, "retry_wait", RetryDelay(t.attempt))
       /\ Record(t.job, t.attempt, "transient_failure")
       /\ Finish(w)
       /\ UNCHANGED <<emailStatus, entityVars, requestVars, mailVars, optedOut, faults>>

\* fail_send_job otherwise; the tripped breaker pauses the campaign as well.
CommitFailed(w) ==
    LET t == tx[w]
    IN /\ phase[w] = "settled"
       /\ \/ t.outcome \in {"fail", "trip"}
          \/ t.outcome = "retry" /\ ~CanRetry(t)
       /\ CommitJob(t, "failed", 0)
       /\ Record(t.job, t.attempt, "permanent_failure")
       /\ emailStatus' = [emailStatus EXCEPT ![t.job] = "failed"]
       /\ campaignStatus' = IF t.outcome = "trip"
                            THEN [campaignStatus EXCEPT ![CampaignOf[t.job]] = "paused"]
                            ELSE campaignStatus
       /\ Finish(w)
       /\ UNCHANGED <<totalSent, leadStatus, suppressed, requestVars, mailVars,
                      optedOut, faults>>

\* Postponed by policy: back to QUEUED; the attempt stays counted, no audit row.
CommitPostponed(w) ==
    LET t == tx[w]
    IN /\ phase[w] = "settled"
       /\ t.outcome = "postpone"
       /\ CommitJob(t, "queued", t.delay)
       /\ Finish(w)
       /\ UNCHANGED <<emailStatus, audit, entityVars, requestVars, mailVars,
                      optedOut, faults>>

\* The process dies, an exception reaches get_session or the commit fails: the
\* database forgets the cycle, the provider does not.
Abort(w) ==
    LET t == tx[w]
    IN /\ Busy(w)
       /\ faults < MaxFaults
       /\ faults' = faults + 1
       /\ orphans' = IF phase[w] = "settled" /\ t.outcome = "sent"
                        /\ emailStatus[t.job] # "sent"
                     THEN [orphans EXCEPT ![t.job] = @ + 1] ELSE orphans
       /\ Finish(w)
       /\ UNCHANGED <<emailStatus, jobVars, entityVars, requestVars, copies,
                      late, optedOut>>

-----------------------------------------------------------------------------
(* Maintenance and time                                                    *)

\* One maintenance cycle: reap, then delete the finished jobs older than the
\* retention window (old).  No request is as old as that window.
Maintain(old) ==
    /\ \A e \in old : /\ Reaped[e] \in {"sent", "failed"}
                      /\ \A r \in Requests : batch[r] # None => e \notin batch[r]
    /\ jobStatus' = [e \in Emails |-> IF e \in old THEN "none" ELSE Reaped[e]]
    /\ attempts' = [e \in Emails |-> IF e \in old THEN 0 ELSE attempts[e]]
    /\ audit' = [e \in Emails |-> IF e \in old THEN <<>> ELSE audit[e]]
    /\ UNCHANGED <<emailStatus, wait, entityVars, workerVars, requestVars,
                   mailVars, optedOut, faults>>

Tick ==
    /\ \E e \in Emails : wait[e] > 0
    /\ wait' = [e \in Emails |-> IF wait[e] > 0 THEN wait[e] - 1 ELSE 0]
    /\ UNCHANGED <<emailStatus, jobStatus, attempts, audit, entityVars,
                   workerVars, requestVars, mailVars, optedOut, faults>>

Replies == Unconfirmed \cup {"accepted", "transient", "permanent"}

WorkerStep(w) ==
    \/ \E e \in Emails : Claim(w, e)
    \/ NoAccount(w) \/ Reject(w) \/ Trip(w) \/ Postpone(w) \/ Allow(w)
    \/ \E reply \in Replies : Dispatch(w, reply)
    \/ CommitSent(w) \/ CommitRetry(w) \/ CommitFailed(w) \/ CommitPostponed(w)
    \/ Abort(w)

RequestStep(r) ==
    \/ \E c \in Campaigns : StartActivate(r, c)
    \/ StartSelect(r) \/ StartEnqueue(r) \/ StartAbort(r)

Next ==
    \/ \E e \in Emails : GenerateRead(e) \/ Generate(e) \/ GenerateAbort(e)
    \/ \E e \in Emails : EnqueueFollowup(e)
    \/ \E c \in Campaigns : Pause(c)
    \/ \E l \in Leads : OptOut(l)
    \/ \E r \in Requests : RequestStep(r)
    \/ \E w \in Workers : WorkerStep(w)
    \/ \E old \in SUBSET Emails : Maintain(old)
    \/ Tick

Spec == Init /\ [][Next]_vars

\* A worker process that is up keeps executing its cycle, Python runs on and the
\* provider call has a timeout; its poll finds a job that stays claimable.  Time
\* passes.  Weak fairness is enough although the jobs of a campaign keep each other
\* from being claimed: each claim ends, and there are only so many.  Nothing
\* obliges users, faults or maintenance to act.
WorkerProgress(w) ==
    \/ NoAccount(w) \/ Reject(w) \/ Trip(w) \/ Postpone(w) \/ Allow(w)
    \/ \E reply \in Replies : Dispatch(w, reply)
    \/ CommitSent(w) \/ CommitRetry(w) \/ CommitFailed(w) \/ CommitPostponed(w)

Fairness ==
    /\ \A w \in Workers : WF_vars(WorkerProgress(w))
    /\ \A e \in Emails : WF_vars(\E w \in Workers : Claim(w, e))
    /\ WF_vars(Tick)

FairSpec == Spec /\ Fairness

-----------------------------------------------------------------------------
(* Properties                                                              *)

TypeOK ==
    /\ emailStatus \in [Emails -> EmailStates]
    /\ jobStatus \in [Emails -> JobStates]
    /\ attempts \in [Emails -> Nat]
    /\ wait \in [Emails -> Nat]
    /\ audit \in [Emails -> Seq(AuditRow)]
    /\ campaignStatus \in [Campaigns -> CampaignStates]
    /\ totalSent \in [Campaigns -> Nat]
    /\ leadStatus \in [Leads -> LeadStates]
    /\ suppressed \subseteq Leads
    /\ phase \in [Workers -> {"idle", "claimed", "cleared", "settled"}]
    /\ tx \in [Workers -> Transaction]
    /\ request \in [Requests -> Campaigns \cup {None}]
    /\ batch \in [Requests -> {None} \cup SUBSET Emails]
    /\ leadRead \in [Emails -> LeadStates \cup {None}]
    /\ copies \in [Emails -> Nat]
    /\ orphans \in [Emails -> Nat]
    /\ optedOut \subseteq Leads
    /\ late \in [Leads -> Nat]
    /\ faults \in Nat

\* Job and record agree at every commit, whichever of the starts, the follow-up
\* scheduler, the workers and the purge ran last: a QUEUED record always has a
\* live job (none is stranded), a finished job has the record of its outcome.
JobMatchesEmail ==
    \A e \in Emails :
        /\ emailStatus[e] = "queued" <=> jobStatus[e] \in {"queued", "retry_wait"}
        /\ jobStatus[e] \in {"sent", "failed"} => emailStatus[e] = jobStatus[e]
        /\ jobStatus[e] # "processing"

\* Campaign.total_sent is written as "value read at the claim, plus one".  No
\* increment is lost or doubled: it counts the SENT records of the campaign.
TotalSentExact ==
    \A c \in Campaigns :
        totalSent[c] = Cardinality({e \in Emails : CampaignOf[e] = c
                                                   /\ emailStatus[e] = "sent"})

\* What a worker's transaction read at the claim is what the database still
\* holds when it commits, whatever starts, pauses and other workers did since: the
\* two row locks make its reads of job, record and campaign serializable.
FlightIsCurrent ==
    \A w \in Workers : Busy(w) =>
        LET e == tx[w].job IN
        /\ e \in Emails
        /\ jobStatus[e] \in {"queued", "retry_wait"}
        /\ campaignStatus[CampaignOf[e]] = "active"
        /\ tx[w].attempt = attempts[e] + 1
        /\ tx[w].sentSeen = totalSent[CampaignOf[e]]
        /\ \A v \in Workers :
              Busy(v) /\ CampaignOf[tx[v].job] = CampaignOf[e] => v = w

\* A start request may have selected a record long ago.  If the record has no job
\* by now it is still PENDING, so that enqueueing it repeats nothing.
SelectionIsSafe ==
    \A r \in Requests : batch[r] # None =>
        /\ request[r] \in Campaigns
        /\ \A e \in batch[r] : /\ CampaignOf[e] = request[r]
                               /\ jobStatus[e] = "none" => emailStatus[e] = "pending"

Unrecorded(e) == {w \in Workers : phase[w] = "settled" /\ tx[w].job = e
                                  /\ tx[w].outcome = "sent"}

\* Every message the provider accepted is accounted for: by the SENT record, by
\* the one transaction about to commit it, or by a fault that lost it.  So a
\* prospect gets a second copy only after a crash or a lost provider answer.
MailAccounted ==
    \A e \in Emails :
        copies[e] = orphans[e] + (IF emailStatus[e] = "sent" THEN 1 ELSE 0)
                               + Cardinality(Unrecorded(e))

\* send_attempts is a faithful history of the job: attempt numbers grow, only
\* the last row can be final, it is final exactly when the job is, and a
\* transient row means that the budget was not used up.
AuditMatchesJob ==
    \A e \in Emails :
        LET rows == audit[e] IN
        /\ \A i \in 1..Len(rows) :
              /\ rows[i].number \in 1..attempts[e]
              /\ i > 1 => rows[i - 1].number < rows[i].number
              /\ rows[i].status = "transient_failure" =>
                    rows[i].number < MaxAttempts
              /\ i < Len(rows) => rows[i].status = "transient_failure"
        /\ jobStatus[e] \in {"sent", "failed"} <=>
              rows # <<>> /\ rows[Len(rows)].status # "transient_failure"
        /\ rows # <<>> => (jobStatus[e] = "sent" <=> rows[Len(rows)].status = "success")

\* Once an opt-out stands in suppression_entries, only the messages that the policy
\* has already cleared can still leave: one for each campaign that writes to the
\* lead, because a campaign has one cleared message at a time.
LateMailBounded ==
    \A l \in Leads :
        late[l] <= Cardinality({CampaignOf[e] : e \in {x \in Emails : LeadOf[x] = l}})

\* A message leaves only while its campaign is ACTIVE: the pause request waits
\* for the campaign row, so none leaves after it has answered.
PausedCampaignIsQuiet ==
    [][\A e \in Emails : copies'[e] # copies[e] =>
           campaignStatus[CampaignOf[e]] = "active"]_vars

\* SENT and FAILED are final: no restart of the campaign, late start request or
\* purge of the job puts a finished record into the queue again.
FinishedIsFinal ==
    [][\A e \in Emails : emailStatus[e] \in {"sent", "failed"} =>
           /\ emailStatus'[e] = emailStatus[e]
           /\ jobStatus'[e] \in {jobStatus[e], "none"}
           /\ copies'[e] = copies[e]]_vars

\* What the queue promises a prospect, whatever crashes: see EmailDelivery.
Stage == [e \in Emails |-> IF emailStatus[e] \in {"absent", "pending"} THEN "draft"
                           ELSE emailStatus[e]]
Delivery == INSTANCE EmailDelivery WITH stage <- Stage
ImplementsDelivery == Delivery!Spec

Live(e) == jobStatus[e] \in {"queued", "retry_wait"}

\* A job reaches SENT or FAILED unless its campaign is stopped, when faults and
\* policy postponements end (MaxFaults, MaxClaims).
JobsFinish ==
    \A e \in Emails :
        Live(e) ~> (~Live(e) \/ campaignStatus[CampaignOf[e]] # "active")

-----------------------------------------------------------------------------
(* What the documentation says and the code does not do                    *)

\* README.md: "Network timeouts or mid-flight worker kills never duplicate
\* prospect emails."
NeverDuplicated == \A e \in Emails : copies[e] <= 1
=============================================================================
