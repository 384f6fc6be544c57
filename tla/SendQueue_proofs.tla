-------------------------- MODULE SendQueue_proofs --------------------------
(***************************************************************************)
(* Proofs about the send queue, for every number of records, campaigns,    *)
(* workers and requests, and every value of the limits.                    *)
(*                                                                         *)
(* IInv is inductive.  TypeOK alone is not: that a retried job's delay is  *)
(* a number needs attempt >= 1, which FlightIsCurrent supplies; and that   *)
(* needs the exclusion of a second worker from the campaign, which it also *)
(* states.  SelectionIsSafe carries a start request's selection over the   *)
(* time between its SELECT and its INSERTs.                                *)
(***************************************************************************)
EXTENDS SendQueue, FiniteSetTheorems, TLAPS

\* The part of the inductive invariant that speaks of rows and transactions.
IInv == TypeOK /\ FlightIsCurrent /\ SelectionIsSafe /\ JobMatchesEmail

USE DEF EmailStates, JobStates, CampaignStates, LeadStates, Outcomes

-----------------------------------------------------------------------------
(* Initial states                                                          *)

\* The invariant holds in an empty database.
LEMMA InitIInv == Init => IInv
  BY RowsAssumption, LimitsAssumption
  DEF Init, IInv, TypeOK, FlightIsCurrent, SelectionIsSafe, JobMatchesEmail,
      NoTx, Transaction, AuditRow, Busy

-----------------------------------------------------------------------------
(* Steps of the API                                                        *)

\* A generator that reads a lead, or gives up, touches no row.
LEMMA GenerateReadIInv ==
  ASSUME IInv, NEW e \in Emails, GenerateRead(e) \/ GenerateAbort(e) PROVE IInv'
<1> USE DEF IInv, GenerateRead, GenerateAbort, jobVars, entityVars, workerVars
<1>5. leadRead' \in [Emails -> LeadStates \cup {None}]
  <2>1. leadStatus[LeadOf[e]] \in LeadStates
    BY RowsAssumption DEF TypeOK
  <2>2. leadRead' = [leadRead EXCEPT ![e] = leadStatus[LeadOf[e]]]
        \/ leadRead' = [leadRead EXCEPT ![e] = None]
    OBVIOUS
  <2>3. leadRead \in [Emails -> LeadStates \cup {None}]
    BY DEF TypeOK
  <2> HIDE DEF LeadStates, IInv, GenerateRead, GenerateAbort
  <2> QED BY <2>1, <2>2, <2>3
<1>1. TypeOK'
  BY <1>5 DEF TypeOK, mailVars
<1>2. FlightIsCurrent'
  BY DEF FlightIsCurrent, Busy
<1>3. SelectionIsSafe'
  BY DEF SelectionIsSafe
<1>4. JobMatchesEmail'
  BY DEF JobMatchesEmail
<1> QED BY <1>1, <1>2, <1>3, <1>4

\* A new PENDING record disturbs nothing.
LEMMA GenerateIInv ==
  ASSUME IInv, NEW e \in Emails, Generate(e) PROVE IInv'
<1>1. TypeOK'
  BY DEF IInv, TypeOK, Generate, jobVars, entityVars, workerVars, requestVars, mailVars
<1>2. FlightIsCurrent'
  BY DEF IInv, TypeOK, FlightIsCurrent, Generate, Busy, jobVars, entityVars, workerVars
<1>3. SelectionIsSafe'
  BY DEF IInv, TypeOK, SelectionIsSafe, JobMatchesEmail, Generate, jobVars, requestVars
<1>4. JobMatchesEmail'
  BY DEF IInv, TypeOK, JobMatchesEmail, Generate, jobVars
<1> QED BY <1>1, <1>2, <1>3, <1>4 DEF IInv

\* Enqueueing pending records without a job keeps rows and transactions in step.
LEMMA EnqueueRows ==
  ASSUME IInv, NEW S \in SUBSET Emails, Enqueue(S),
         \A e \in S : jobStatus[e] = "none" => emailStatus[e] = "pending"
  PROVE  /\ emailStatus' \in [Emails -> EmailStates]
         /\ jobStatus' \in [Emails -> JobStates]
         /\ UNCHANGED <<attempts, wait, audit>>
         /\ \A e \in Emails : jobStatus[e] # "none" =>
               jobStatus'[e] = jobStatus[e] /\ emailStatus'[e] = emailStatus[e]
         /\ \A e \in Emails : jobStatus'[e] = "none" =>
               jobStatus[e] = "none" /\ emailStatus'[e] = emailStatus[e]
         /\ JobMatchesEmail'
  BY DEF IInv, TypeOK, Enqueue, QueueJobs, QueueRecords, JobMatchesEmail

\* Activating a campaign that no worker has locked leaves every transaction current.
LEMMA StartActivateIInv ==
  ASSUME IInv, NEW r \in Requests, NEW c \in Campaigns, StartActivate(r, c)
  PROVE  IInv'
<1> USE DEF IInv, StartActivate, jobVars, workerVars
<1>1. TypeOK'
  BY DEF TypeOK, mailVars
<1>2. FlightIsCurrent'
  BY DEF TypeOK, FlightIsCurrent, Busy
<1>3. SelectionIsSafe'
  BY RowsAssumption DEF TypeOK, SelectionIsSafe
<1>4. JobMatchesEmail'
  BY DEF JobMatchesEmail
<1> QED BY <1>1, <1>2, <1>3, <1>4

\* What is selected is PENDING at the time.
LEMMA StartSelectIInv ==
  ASSUME IInv, NEW r \in Requests, StartSelect(r) PROVE IInv'
<1> USE DEF IInv, StartSelect, jobVars, workerVars, entityVars
<1>1. TypeOK'
  BY DEF TypeOK, mailVars
<1>2. FlightIsCurrent'
  BY DEF FlightIsCurrent, Busy
<1>3. SelectionIsSafe'
  BY DEF TypeOK, SelectionIsSafe, Selectable
<1>4. JobMatchesEmail'
  BY DEF JobMatchesEmail
<1> QED BY <1>1, <1>2, <1>3, <1>4

\* The insertion of a selection: the jobs are new, so no transaction holds one.
LEMMA StartEnqueueIInv ==
  ASSUME IInv, NEW r \in Requests, StartEnqueue(r) PROVE IInv'
<1> USE DEF IInv, StartEnqueue, workerVars, entityVars
<1>1. /\ batch[r] \in SUBSET Emails
      /\ \A e \in batch[r] : jobStatus[e] = "none" => emailStatus[e] = "pending"
  BY DEF TypeOK, SelectionIsSafe
<1>2. /\ emailStatus' \in [Emails -> EmailStates]
      /\ jobStatus' \in [Emails -> JobStates]
      /\ UNCHANGED <<attempts, wait, audit>>
      /\ \A e \in Emails : jobStatus[e] # "none" =>
            jobStatus'[e] = jobStatus[e] /\ emailStatus'[e] = emailStatus[e]
      /\ \A e \in Emails : jobStatus'[e] = "none" =>
            jobStatus[e] = "none" /\ emailStatus'[e] = emailStatus[e]
      /\ JobMatchesEmail'
  BY <1>1, EnqueueRows
<1>3. TypeOK'
  BY <1>2 DEF TypeOK, mailVars
<1>4. FlightIsCurrent'
  BY <1>2 DEF FlightIsCurrent, Busy
<1>5. SelectionIsSafe'
  <2> SUFFICES ASSUME NEW q \in Requests, batch'[q] # None
               PROVE  /\ request'[q] \in Campaigns
                      /\ \A e \in batch'[q] :
                            /\ CampaignOf[e] = request'[q]
                            /\ jobStatus'[e] = "none" => emailStatus'[e] = "pending"
    BY DEF SelectionIsSafe
  <2>1. q # r /\ batch'[q] = batch[q] /\ request'[q] = request[q]
    BY DEF TypeOK
  <2> QED BY <1>2, <2>1 DEF TypeOK, SelectionIsSafe
<1> QED BY <1>2, <1>3, <1>4, <1>5

\* A start request that goes away takes its selection with it.
LEMMA StartAbortIInv ==
  ASSUME IInv, NEW r \in Requests, StartAbort(r) PROVE IInv'
<1> USE DEF IInv, StartAbort, jobVars, workerVars, entityVars
<1>1. TypeOK'
  BY DEF TypeOK, mailVars
<1>2. FlightIsCurrent'
  BY DEF FlightIsCurrent, Busy
<1>3. SelectionIsSafe'
  BY DEF TypeOK, SelectionIsSafe
<1>4. JobMatchesEmail'
  BY DEF JobMatchesEmail
<1> QED BY <1>1, <1>2, <1>3, <1>4

\* Only a campaign nobody works on can be paused.
LEMMA PauseIInv ==
  ASSUME IInv, NEW c \in Campaigns, Pause(c) PROVE IInv'
<1> USE DEF IInv, Pause, jobVars, workerVars, requestVars
<1>1. TypeOK'
  BY DEF TypeOK, mailVars
<1>2. FlightIsCurrent'
  BY DEF TypeOK, FlightIsCurrent, Busy, Locked
<1>3. SelectionIsSafe'
  BY DEF SelectionIsSafe
<1>4. JobMatchesEmail'
  BY DEF JobMatchesEmail
<1> QED BY <1>1, <1>2, <1>3, <1>4

\* The scheduler enqueues one PENDING record.
LEMMA EnqueueFollowupIInv ==
  ASSUME IInv, NEW e \in Emails, EnqueueFollowup(e) PROVE IInv'
<1> USE DEF IInv, EnqueueFollowup, workerVars, entityVars, requestVars
<1>2. /\ emailStatus' \in [Emails -> EmailStates]
      /\ jobStatus' \in [Emails -> JobStates]
      /\ UNCHANGED <<attempts, wait, audit>>
      /\ \A x \in Emails : jobStatus[x] # "none" =>
            jobStatus'[x] = jobStatus[x] /\ emailStatus'[x] = emailStatus[x]
      /\ \A x \in Emails : jobStatus'[x] = "none" =>
            jobStatus[x] = "none" /\ emailStatus'[x] = emailStatus[x]
      /\ JobMatchesEmail'
  BY EnqueueRows DEF Selectable
<1>3. TypeOK'
  BY <1>2 DEF TypeOK, mailVars
<1>4. FlightIsCurrent'
  BY <1>2 DEF FlightIsCurrent, Busy
<1>5. SelectionIsSafe'
  BY <1>2 DEF TypeOK, SelectionIsSafe
<1> QED BY <1>2, <1>3, <1>4, <1>5

\* An opt-out touches the lead and the suppression list only.
LEMMA OptOutIInv ==
  ASSUME IInv, NEW l \in Leads, OptOut(l) PROVE IInv'
<1> USE DEF IInv, OptOut, jobVars, workerVars, requestVars
<1>1. TypeOK'
  BY DEF TypeOK, mailVars
<1>2. FlightIsCurrent'
  BY DEF FlightIsCurrent, Busy
<1>3. SelectionIsSafe'
  BY DEF SelectionIsSafe
<1>4. JobMatchesEmail'
  BY DEF JobMatchesEmail
<1> QED BY <1>1, <1>2, <1>3, <1>4

-----------------------------------------------------------------------------
(* Steps of a worker                                                       *)

\* A claim reads the committed rows and locks a campaign nobody else works on.
LEMMA ClaimIInv ==
  ASSUME IInv, NEW w \in Workers, NEW e \in Emails, Claim(w, e) PROVE IInv'
<1> USE DEF IInv, Claim, jobVars, entityVars, requestVars
<1>1. TypeOK'
  <2>1. /\ attempts[e] + 1 \in Nat
        /\ leadStatus[LeadOf[e]] \in LeadStates
        /\ totalSent[CampaignOf[e]] \in Nat
    BY RowsAssumption DEF TypeOK
  <2>2. [NoTx EXCEPT !.job = e, !.attempt = attempts[e] + 1,
                     !.leadSeen = leadStatus[LeadOf[e]],
                     !.sentSeen = totalSent[CampaignOf[e]]] \in Transaction
    BY <2>1 DEF NoTx, Transaction
  <2>3. tx' \in [Workers -> Transaction]
    BY <2>2 DEF TypeOK
  <2> QED BY <2>3 DEF TypeOK, mailVars
<1>2. FlightIsCurrent'
  <2> SUFFICES ASSUME NEW v \in Workers, Busy(v)'
               PROVE  FlightIsCurrent!(v)!2'
    BY DEF FlightIsCurrent
  <2>1. CASE v = w
    BY <2>1, RowsAssumption
    DEF TypeOK, FlightIsCurrent, JobMatchesEmail, Busy, Claimable, DueJob, Locked, NoTx
  <2>2. CASE v # w
    BY <2>2, RowsAssumption DEF TypeOK, FlightIsCurrent, Busy, Locked, NoTx
  <2> QED BY <2>1, <2>2
<1>3. SelectionIsSafe'
  BY DEF SelectionIsSafe
<1>4. JobMatchesEmail'
  BY DEF JobMatchesEmail
<1> QED BY <1>1, <1>2, <1>3, <1>4

\* Deciding the outcome of a claimed job changes neither its row nor its reads.
LEMMA SettleIInv ==
  ASSUME IInv, NEW w \in Workers, Busy(w), NEW outcome \in Outcomes,
         NEW delay \in Nat, Settle(w, outcome, delay),
         UNCHANGED <<emailStatus, jobVars, entityVars, requestVars, optedOut>>,
         copies' \in [Emails -> Nat], orphans' \in [Emails -> Nat],
         late' \in [Leads -> Nat], faults' \in Nat
  PROVE  IInv'
<1> USE DEF IInv, Settle, jobVars, entityVars, requestVars
<1>1. [tx[w] EXCEPT !.outcome = outcome, !.delay = delay] \in Transaction
  <2>1. tx[w] \in Transaction
    BY DEF TypeOK
  <2>2. tx[w] = [job |-> tx[w].job, attempt |-> tx[w].attempt,
                 leadSeen |-> tx[w].leadSeen, sentSeen |-> tx[w].sentSeen,
                 outcome |-> tx[w].outcome, delay |-> tx[w].delay]
    BY <2>1 DEF Transaction
  <2> QED BY <2>1, <2>2 DEF Transaction
<1>2. TypeOK'
  BY <1>1 DEF TypeOK
<1>3. /\ \A v \in Workers : Busy(v)' <=> Busy(v)
      /\ \A v \in Workers : /\ tx'[v].job = tx[v].job
                            /\ tx'[v].attempt = tx[v].attempt
                            /\ tx'[v].sentSeen = tx[v].sentSeen
  <2>1. \A v \in Workers : tx[v] \in Transaction
    BY DEF TypeOK
  <2> QED BY <2>1 DEF TypeOK, Busy, Transaction
<1>4. FlightIsCurrent'
  BY <1>3 DEF FlightIsCurrent
<1>5. SelectionIsSafe'
  BY DEF SelectionIsSafe
<1>6. JobMatchesEmail'
  BY DEF JobMatchesEmail
<1> QED BY <1>2, <1>4, <1>5, <1>6

\* The policy's verdicts that end the cycle without a dispatch.
LEMMA VerdictIInv ==
  ASSUME IInv, NEW w \in Workers,
         NoAccount(w) \/ Reject(w) \/ Trip(w) \/ Postpone(w)
  PROVE  IInv'
<1>1. Busy(w)
  BY DEF NoAccount, Reject, Trip, Postpone, Busy
<1>2. UNCHANGED <<emailStatus, jobVars, entityVars, requestVars, mailVars,
                  optedOut, faults>>
  BY DEF NoAccount, Reject, Trip, Postpone
<1>3. PICK outcome \in Outcomes, delay \in Nat : Settle(w, outcome, delay)
  BY LimitsAssumption DEF NoAccount, Reject, Trip, Postpone
<1> QED BY <1>1, <1>2, <1>3, SettleIInv DEF IInv, TypeOK, mailVars

\* A cleared worker keeps its transaction as it was.
LEMMA AllowIInv ==
  ASSUME IInv, NEW w \in Workers, Allow(w) PROVE IInv'
<1> USE DEF IInv, Allow, jobVars, entityVars, requestVars
<1>1. TypeOK'
  BY DEF TypeOK, mailVars
<1>2. FlightIsCurrent'
  BY DEF TypeOK, FlightIsCurrent, Busy
<1>3. SelectionIsSafe'
  BY DEF SelectionIsSafe
<1>4. JobMatchesEmail'
  BY DEF JobMatchesEmail
<1> QED BY <1>1, <1>2, <1>3, <1>4

\* A dispatch counts messages and settles the outcome.
LEMMA DispatchIInv ==
  ASSUME IInv, NEW w \in Workers, NEW reply \in Replies, Dispatch(w, reply)
  PROVE  IInv'
<1> DEFINE e == tx[w].job
           answer == IF emailStatus[e] = "sent" THEN "cached" ELSE reply
<1>1. Busy(w) /\ e \in Emails
  BY DEF Dispatch, Busy, IInv, FlightIsCurrent
<1>2. OutcomeOf(answer) \in Outcomes
  BY DEF Replies, OutcomeOf, Unconfirmed
<1>3. /\ Settle(w, OutcomeOf(answer), 0)
      /\ UNCHANGED <<emailStatus, jobVars, entityVars, requestVars, optedOut>>
  BY DEF Dispatch
<1>4. /\ copies \in [Emails -> Nat] /\ orphans \in [Emails -> Nat]
      /\ late \in [Leads -> Nat] /\ faults \in Nat /\ LeadOf[e] \in Leads
  BY <1>1, RowsAssumption DEF IInv, TypeOK
<1>5. copies' \in [Emails -> Nat]
  BY <1>1, <1>4 DEF Dispatch
<1>6. orphans' \in [Emails -> Nat]
  BY <1>1, <1>4 DEF Dispatch
<1>7. late' \in [Leads -> Nat]
  BY <1>1, <1>4 DEF Dispatch
<1>8. faults' \in Nat
  BY <1>4 DEF Dispatch
<1> QED BY <1>1, <1>2, <1>3, <1>5, <1>6, <1>7, <1>8, SettleIInv

\* Reaping changes nothing: no committed job is PROCESSING.
LEMMA NothingToReap ==
  ASSUME IInv PROVE Reaped = jobStatus
  BY DEF IInv, TypeOK, JobMatchesEmail, Reaped

\* A worker that finishes leaves the other transactions current when it changes no
\* row of another campaign.
LEMMA FinishFlight ==
  ASSUME IInv, NEW w \in Workers, Busy(w), Finish(w),
         \A e \in Emails : CampaignOf[e] # CampaignOf[tx[w].job] =>
            jobStatus'[e] = jobStatus[e] /\ attempts'[e] = attempts[e],
         \A c \in Campaigns : c # CampaignOf[tx[w].job] =>
            campaignStatus'[c] = campaignStatus[c] /\ totalSent'[c] = totalSent[c]
  PROVE  FlightIsCurrent'
<1> SUFFICES ASSUME NEW v \in Workers, Busy(v)'
             PROVE  FlightIsCurrent!(v)!2'
  BY DEF FlightIsCurrent
<1>1. v # w /\ Busy(v) /\ tx'[v] = tx[v]
  BY DEF IInv, TypeOK, Finish, Busy
<1>2. CampaignOf[tx[v].job] # CampaignOf[tx[w].job]
  BY <1>1 DEF IInv, FlightIsCurrent
<1>3. tx[v].job \in Emails /\ CampaignOf[tx[v].job] \in Campaigns
  BY <1>1, RowsAssumption DEF IInv, FlightIsCurrent
<1>4. FlightIsCurrent!(v)!2
  BY <1>1 DEF IInv, FlightIsCurrent
<1>5. \A u \in Workers : Busy(u)' => Busy(u) /\ tx'[u] = tx[u]
  BY DEF IInv, TypeOK, Finish, Busy
<1> QED BY <1>1, <1>2, <1>3, <1>4, <1>5

\* A commit writes a live job's row; starts in progress did not select it as new.
LEMMA CommitRows ==
  ASSUME IInv, NEW w \in Workers, Busy(w), NEW status \in JobStates \ {"none", "processing"},
         NEW delay \in Nat, CommitJob(tx[w], status, delay),
         emailStatus' = IF status \in {"sent", "failed"}
                        THEN [emailStatus EXCEPT ![tx[w].job] = status] ELSE emailStatus,
         UNCHANGED requestVars
  PROVE  /\ emailStatus' \in [Emails -> EmailStates]
         /\ jobStatus' \in [Emails -> JobStates]
         /\ attempts' \in [Emails -> Nat]
         /\ wait' \in [Emails -> Nat]
         /\ \A e \in Emails : CampaignOf[e] # CampaignOf[tx[w].job] =>
               jobStatus'[e] = jobStatus[e] /\ attempts'[e] = attempts[e]
         /\ JobMatchesEmail'
         /\ SelectionIsSafe'
<1>1. tx[w].job \in Emails /\ Live(tx[w].job) /\ tx[w].attempt \in Nat
  BY DEF IInv, TypeOK, FlightIsCurrent, Transaction, Live
<1>2. jobStatus' = [jobStatus EXCEPT ![tx[w].job] = status]
  BY NothingToReap DEF CommitJob
<1>3. /\ emailStatus' \in [Emails -> EmailStates]
      /\ jobStatus' \in [Emails -> JobStates]
      /\ attempts' \in [Emails -> Nat]
      /\ wait' \in [Emails -> Nat]
  <2>1. emailStatus' \in [Emails -> EmailStates]
    <3>1. CASE status \in {"sent", "failed"}
      BY <1>1, <3>1 DEF IInv, TypeOK
    <3>2. CASE status \notin {"sent", "failed"}
      BY <3>2 DEF IInv, TypeOK
    <3> QED BY <3>1, <3>2
  <2>2. jobStatus' \in [Emails -> JobStates]
    BY <1>1, <1>2 DEF IInv, TypeOK
  <2>3. attempts' \in [Emails -> Nat]
    BY <1>1 DEF IInv, TypeOK, CommitJob
  <2>4. wait' \in [Emails -> Nat]
    BY <1>1 DEF IInv, TypeOK, CommitJob
  <2> QED BY <2>1, <2>2, <2>3, <2>4
<1>4. \A e \in Emails : e # tx[w].job =>
         /\ jobStatus'[e] = jobStatus[e]
         /\ attempts'[e] = attempts[e]
         /\ emailStatus'[e] = emailStatus[e]
  <2> TAKE e \in Emails
  <2>1. e # tx[w].job => jobStatus'[e] = jobStatus[e]
    BY <1>1, <1>2 DEF IInv, TypeOK
  <2>2. e # tx[w].job => attempts'[e] = attempts[e]
    BY <1>1 DEF IInv, TypeOK, CommitJob
  <2>3. e # tx[w].job => emailStatus'[e] = emailStatus[e]
    BY <1>1 DEF IInv, TypeOK
  <2> QED BY <2>1, <2>2, <2>3
<1>5. /\ jobStatus'[tx[w].job] = status
      /\ emailStatus'[tx[w].job] = IF status \in {"sent", "failed"} THEN status ELSE "queued"
  BY <1>1, <1>2 DEF IInv, TypeOK, JobMatchesEmail, Live
<1>6. JobMatchesEmail'
  BY <1>4, <1>5 DEF IInv, JobMatchesEmail
<1>7. SelectionIsSafe'
  <2>1. \A r \in Requests : batch[r] # None => batch[r] \subseteq Emails
    BY DEF IInv, TypeOK
  <2> QED BY <2>1, <1>4, <1>5 DEF IInv, SelectionIsSafe, requestVars
<1> QED BY <1>3, <1>4, <1>6, <1>7

\* The idle worker's transaction is well-typed again.
LEMMA FinishType ==
  ASSUME IInv, NEW w \in Workers, Finish(w)
  PROVE  /\ phase' \in [Workers -> {"idle", "claimed", "cleared", "settled"}]
         /\ tx' \in [Workers -> Transaction]
  BY DEF IInv, TypeOK, Finish, NoTx, Transaction

\* The audit rows stay a sequence of rows.
LEMMA RecordType ==
  ASSUME IInv, NEW e \in Emails, NEW n \in Nat,
         NEW s \in {"success", "transient_failure", "permanent_failure"}, Record(e, n, s)
  PROVE  audit' \in [Emails -> Seq(AuditRow)]
<1>1. [number |-> n, status |-> s] \in AuditRow
  BY DEF AuditRow
<1>2. audit \in [Emails -> Seq(AuditRow)]
  BY DEF IInv, TypeOK
<1>3. Append(audit[e], [number |-> n, status |-> s]) \in Seq(AuditRow)
  BY <1>1, <1>2
<1> QED BY <1>2, <1>3 DEF Record

\* The attempt number of a busy worker's transaction counts from one.
LEMMA AttemptType ==
  ASSUME IInv, NEW w \in Workers, Busy(w)
  PROVE  tx[w].job \in Emails /\ tx[w].attempt \in Nat \ {0}
  BY DEF IInv, TypeOK, FlightIsCurrent

\* A sent message: the campaign's counter goes from what was read to one more.
LEMMA CommitSentIInv ==
  ASSUME IInv, NEW w \in Workers, CommitSent(w) PROVE IInv'
<1> DEFINE t == tx[w]
           e == t.job
<1>1. /\ Busy(w) /\ e \in Emails /\ t.attempt \in Nat
      /\ CampaignOf[e] \in Campaigns /\ LeadOf[e] \in Leads /\ t.sentSeen \in Nat
  BY AttemptType, RowsAssumption DEF CommitSent, Busy, IInv, TypeOK, Transaction
<1>2. /\ CommitJob(tx[w], "sent", 0)
      /\ emailStatus' = [emailStatus EXCEPT ![tx[w].job] = "sent"]
      /\ UNCHANGED requestVars
  BY DEF CommitSent
<1>3. /\ emailStatus' \in [Emails -> EmailStates]
      /\ jobStatus' \in [Emails -> JobStates]
      /\ attempts' \in [Emails -> Nat]
      /\ wait' \in [Emails -> Nat]
      /\ \A x \in Emails : CampaignOf[x] # CampaignOf[tx[w].job] =>
            jobStatus'[x] = jobStatus[x] /\ attempts'[x] = attempts[x]
      /\ JobMatchesEmail'
      /\ SelectionIsSafe'
  BY <1>1, <1>2, CommitRows
<1>4. audit' \in [Emails -> Seq(AuditRow)]
  BY <1>1, RecordType DEF CommitSent
<1>5. Finish(w) /\ UNCHANGED <<campaignStatus, suppressed, requestVars, mailVars, optedOut, faults>>
  BY DEF CommitSent
<1>6. totalSent' \in [Campaigns -> Nat]
  BY <1>1 DEF CommitSent, IInv, TypeOK
<1>7. \A c \in Campaigns : c # CampaignOf[e] => totalSent'[c] = totalSent[c]
  BY <1>1 DEF CommitSent, IInv, TypeOK
<1>8. leadStatus' \in [Leads -> LeadStates]
  BY <1>1 DEF CommitSent, IInv, TypeOK
<1>9. TypeOK'
  BY <1>3, <1>4, <1>5, <1>6, <1>8, FinishType DEF IInv, TypeOK, mailVars, requestVars
<1>10. FlightIsCurrent'
  BY <1>1, <1>3, <1>5, <1>7, FinishFlight
<1> QED BY <1>3, <1>9, <1>10 DEF IInv

\* The back-off of an attempt that is retried is a number of ticks.
LEMMA RetryDelayType ==
  ASSUME NEW n \in Nat, n < MaxAttempts PROVE RetryDelay(n) \in Nat
<1>1. PICK m \in 0..MaxAttempts : m = IF n > 0 THEN n - 1 ELSE 0
  BY LimitsAssumption
<1>2. 2 ^ m \in Nat
  BY LimitsAssumption
<1> QED BY <1>1, <1>2, LimitsAssumption DEF RetryDelay

\* A retry puts the job back with its back-off.
LEMMA CommitRetryIInv ==
  ASSUME IInv, NEW w \in Workers, CommitRetry(w) PROVE IInv'
<1>1. Busy(w) /\ tx[w].job \in Emails /\ tx[w].attempt \in Nat \ {0}
  BY AttemptType DEF CommitRetry, Busy
<1>2. RetryDelay(tx[w].attempt) \in Nat
  BY <1>1, RetryDelayType DEF CommitRetry, CanRetry
<1>3. /\ CommitJob(tx[w], "retry_wait", RetryDelay(tx[w].attempt))
      /\ Record(tx[w].job, tx[w].attempt, "transient_failure")
      /\ Finish(w)
      /\ UNCHANGED <<emailStatus, entityVars, requestVars, mailVars, optedOut, faults>>
  BY DEF CommitRetry
<1>4. /\ jobStatus' \in [Emails -> JobStates]
      /\ attempts' \in [Emails -> Nat]
      /\ wait' \in [Emails -> Nat]
      /\ \A x \in Emails : CampaignOf[x] # CampaignOf[tx[w].job] =>
            jobStatus'[x] = jobStatus[x] /\ attempts'[x] = attempts[x]
      /\ JobMatchesEmail'
      /\ SelectionIsSafe'
  BY <1>1, <1>2, <1>3, CommitRows
<1>5. audit' \in [Emails -> Seq(AuditRow)]
  BY <1>1, <1>3, RecordType
<1>6. TypeOK'
  BY <1>3, <1>4, <1>5, FinishType DEF IInv, TypeOK, mailVars, requestVars, entityVars
<1>7. FlightIsCurrent'
  BY <1>1, <1>3, <1>4, FinishFlight DEF entityVars
<1> QED BY <1>4, <1>6, <1>7 DEF IInv

\* A failure for good closes job and record; a tripped breaker pauses the campaign,
\* which only the worker itself has locked.
LEMMA CommitFailedIInv ==
  ASSUME IInv, NEW w \in Workers, CommitFailed(w) PROVE IInv'
<1>1. /\ Busy(w) /\ tx[w].job \in Emails /\ tx[w].attempt \in Nat
      /\ CampaignOf[tx[w].job] \in Campaigns
  BY AttemptType, RowsAssumption DEF CommitFailed, Busy
<1>2. /\ CommitJob(tx[w], "failed", 0)
      /\ emailStatus' = [emailStatus EXCEPT ![tx[w].job] = "failed"]
      /\ Record(tx[w].job, tx[w].attempt, "permanent_failure")
      /\ Finish(w)
      /\ UNCHANGED <<totalSent, leadStatus, suppressed, requestVars, mailVars,
                     optedOut, faults>>
  BY DEF CommitFailed
<1>3. /\ emailStatus' \in [Emails -> EmailStates]
      /\ jobStatus' \in [Emails -> JobStates]
      /\ attempts' \in [Emails -> Nat]
      /\ wait' \in [Emails -> Nat]
      /\ \A x \in Emails : CampaignOf[x] # CampaignOf[tx[w].job] =>
            jobStatus'[x] = jobStatus[x] /\ attempts'[x] = attempts[x]
      /\ JobMatchesEmail'
      /\ SelectionIsSafe'
  BY <1>1, <1>2, CommitRows
<1>4. audit' \in [Emails -> Seq(AuditRow)]
  BY <1>1, <1>2, RecordType
<1>5. campaignStatus' \in [Campaigns -> CampaignStates]
  BY <1>1 DEF CommitFailed, IInv, TypeOK
<1>6. \A c \in Campaigns : c # CampaignOf[tx[w].job] => campaignStatus'[c] = campaignStatus[c]
  BY <1>1 DEF CommitFailed, IInv, TypeOK
<1>7. TypeOK'
  BY <1>2, <1>3, <1>4, <1>5, FinishType DEF IInv, TypeOK, mailVars, requestVars
<1>8. FlightIsCurrent'
  BY <1>1, <1>2, <1>3, <1>6, FinishFlight
<1> QED BY <1>3, <1>7, <1>8 DEF IInv

\* A postponed job goes back to QUEUED with the policy's delay.
LEMMA CommitPostponedIInv ==
  ASSUME IInv, NEW w \in Workers, CommitPostponed(w) PROVE IInv'
<1>1. Busy(w) /\ tx[w].job \in Emails /\ tx[w].delay \in Nat
  BY AttemptType DEF CommitPostponed, Busy, IInv, TypeOK, Transaction
<1>2. /\ CommitJob(tx[w], "queued", tx[w].delay)
      /\ Finish(w)
      /\ UNCHANGED <<emailStatus, audit, entityVars, requestVars, mailVars, optedOut, faults>>
  BY DEF CommitPostponed
<1>3. /\ jobStatus' \in [Emails -> JobStates]
      /\ attempts' \in [Emails -> Nat]
      /\ wait' \in [Emails -> Nat]
      /\ \A x \in Emails : CampaignOf[x] # CampaignOf[tx[w].job] =>
            jobStatus'[x] = jobStatus[x] /\ attempts'[x] = attempts[x]
      /\ JobMatchesEmail'
      /\ SelectionIsSafe'
  BY <1>1, <1>2, CommitRows
<1>4. TypeOK'
  BY <1>2, <1>3, FinishType DEF IInv, TypeOK, mailVars, requestVars, entityVars
<1>5. FlightIsCurrent'
  BY <1>1, <1>2, <1>3, FinishFlight DEF entityVars
<1> QED BY <1>3, <1>4, <1>5 DEF IInv

\* A cycle that is rolled back leaves the rows as they were.
LEMMA AbortIInv ==
  ASSUME IInv, NEW w \in Workers, Abort(w) PROVE IInv'
<1>1. Busy(w) /\ tx[w].job \in Emails
  BY AttemptType DEF Abort
<1>2. Finish(w) /\ UNCHANGED <<emailStatus, jobVars, entityVars, requestVars, copies, late, optedOut>>
  BY DEF Abort
<1>3. orphans' \in [Emails -> Nat] /\ faults' \in Nat
  BY <1>1, SMTT(30) DEF Abort, IInv, TypeOK
<1>4. TypeOK'
  BY <1>2, <1>3, FinishType DEF IInv, TypeOK, jobVars, entityVars, requestVars
<1>5. FlightIsCurrent'
  BY <1>1, <1>2, FinishFlight DEF jobVars, entityVars
<1>6. SelectionIsSafe' /\ JobMatchesEmail'
  BY <1>2 DEF IInv, SelectionIsSafe, JobMatchesEmail, jobVars, requestVars
<1> QED BY <1>4, <1>5, <1>6 DEF IInv

-----------------------------------------------------------------------------
(* Maintenance and time                                                    *)

\* The purge deletes finished jobs that no start request has selected, so that no
\* request takes the missing job for a record that was never enqueued.
LEMMA MaintainIInv ==
  ASSUME IInv, NEW old \in SUBSET Emails, Maintain(old) PROVE IInv'
<1> USE DEF requestVars, workerVars, entityVars, mailVars
<1>1. /\ jobStatus' = [e \in Emails |-> IF e \in old THEN "none" ELSE jobStatus[e]]
      /\ \A e \in old : jobStatus[e] \in {"sent", "failed"}
  BY NothingToReap DEF Maintain
<1>2. TypeOK'
  <2>1. audit' \in [Emails -> Seq(AuditRow)]
    <3>1. <<>> \in Seq(AuditRow)
      OBVIOUS
    <3> QED BY <3>1 DEF IInv, TypeOK, Maintain
  <2>2. jobStatus' \in [Emails -> JobStates] /\ attempts' \in [Emails -> Nat]
    BY <1>1 DEF IInv, TypeOK, Maintain
  <2> QED BY <2>1, <2>2 DEF IInv, TypeOK, Maintain
<1>3. FlightIsCurrent'
  BY <1>1 DEF IInv, FlightIsCurrent, Maintain, Busy
<1>4. SelectionIsSafe'
  <2>1. \A r \in Requests : batch[r] # None =>
           batch[r] \subseteq Emails /\ batch[r] \cap old = {}
    BY DEF IInv, TypeOK, Maintain
  <2> QED BY <1>1, <2>1 DEF IInv, SelectionIsSafe, Maintain
<1>5. JobMatchesEmail'
  BY <1>1 DEF IInv, JobMatchesEmail, Maintain
<1> QED BY <1>2, <1>3, <1>4, <1>5 DEF IInv

\* Time only brings jobs nearer.
LEMMA TickIInv ==
  ASSUME IInv, Tick PROVE IInv'
<1> USE DEF IInv, Tick, entityVars, workerVars, requestVars
<1>1. TypeOK'
  BY DEF TypeOK, mailVars
<1>2. FlightIsCurrent'
  BY DEF FlightIsCurrent, Busy
<1>3. SelectionIsSafe' /\ JobMatchesEmail'
  BY DEF SelectionIsSafe, JobMatchesEmail
<1> QED BY <1>1, <1>2, <1>3

-----------------------------------------------------------------------------
(* The invariant                                                           *)

\* A worker's step preserves the invariant.
LEMMA WorkerIInv ==
  ASSUME IInv, NEW w \in Workers, WorkerStep(w) PROVE IInv'
<1>1. CASE \E e \in Emails : Claim(w, e)
  BY <1>1, ClaimIInv
<1>2. CASE NoAccount(w) \/ Reject(w) \/ Trip(w) \/ Postpone(w)
  BY <1>2, VerdictIInv
<1>3. CASE Allow(w)
  BY <1>3, AllowIInv
<1>4. CASE \E reply \in Replies : Dispatch(w, reply)
  BY <1>4, DispatchIInv
<1>5. CASE CommitSent(w)
  BY <1>5, CommitSentIInv
<1>6. CASE CommitRetry(w)
  BY <1>6, CommitRetryIInv
<1>7. CASE CommitFailed(w)
  BY <1>7, CommitFailedIInv
<1>8. CASE CommitPostponed(w)
  BY <1>8, CommitPostponedIInv
<1>9. CASE Abort(w)
  BY <1>9, AbortIInv
<1> QED BY <1>1, <1>2, <1>3, <1>4, <1>5, <1>6, <1>7, <1>8, <1>9 DEF WorkerStep

\* A request's step preserves the invariant.
LEMMA RequestIInv ==
  ASSUME IInv, NEW r \in Requests, RequestStep(r) PROVE IInv'
  BY StartActivateIInv, StartSelectIInv, StartEnqueueIInv, StartAbortIInv DEF RequestStep

\* Doing nothing preserves the invariant.
LEMMA StutterIInv == IInv /\ UNCHANGED vars => IInv'
<1> SUFFICES ASSUME IInv, UNCHANGED vars PROVE IInv'
  OBVIOUS
<1> USE DEF IInv, vars, jobVars, entityVars, workerVars, requestVars, mailVars
<1>1. TypeOK'
  BY DEF TypeOK
<1>2. FlightIsCurrent'
  BY DEF FlightIsCurrent, Busy
<1>3. SelectionIsSafe' /\ JobMatchesEmail'
  BY DEF SelectionIsSafe, JobMatchesEmail
<1> QED BY <1>1, <1>2, <1>3

\* Every step preserves the invariant.
LEMMA NextIInv == IInv /\ [Next]_vars => IInv'
<1> SUFFICES ASSUME IInv, [Next]_vars PROVE IInv'
  OBVIOUS
<1>1. CASE \E e \in Emails : GenerateRead(e) \/ Generate(e) \/ GenerateAbort(e)
  BY <1>1, GenerateReadIInv, GenerateIInv
<1>9. CASE \E e \in Emails : EnqueueFollowup(e)
  BY <1>9, EnqueueFollowupIInv
<1>2. CASE \E c \in Campaigns : Pause(c)
  BY <1>2, PauseIInv
<1>3. CASE \E l \in Leads : OptOut(l)
  BY <1>3, OptOutIInv
<1>4. CASE \E r \in Requests : RequestStep(r)
  BY <1>4, RequestIInv
<1>5. CASE \E w \in Workers : WorkerStep(w)
  BY <1>5, WorkerIInv
<1>6. CASE \E old \in SUBSET Emails : Maintain(old)
  BY <1>6, MaintainIInv
<1>7. CASE Tick
  BY <1>7, TickIInv
<1>8. CASE UNCHANGED vars
  BY <1>8, StutterIInv
<1> QED BY <1>1, <1>2, <1>3, <1>4, <1>5, <1>6, <1>7, <1>8, <1>9 DEF Next

\* The inductive invariant holds in every reachable state.
LEMMA InductiveInvariant == Spec => []IInv
  BY InitIInv, NextIInv, PTL DEF Spec

\* Every reachable state is well-typed: in particular no retry is ever scheduled in
\* the past and no counter leaves the natural numbers.
THEOREM TypeCorrect == Spec => []TypeOK
  BY InductiveInvariant, PTL DEF IInv

\* Job and record never disagree, however starts, workers, scheduler and purge
\* interleave (enqueue_send_job, complete_send_job, fail_send_job).
THEOREM JobsMatchEmails == Spec => []JobMatchesEmail
  BY InductiveInvariant, PTL DEF IInv

\* What a worker read at the claim is what the database holds at its commit: the
\* lock of the claim query's join makes the cycle serializable.
THEOREM FlightsAreCurrent == Spec => []FlightIsCurrent
  BY InductiveInvariant, PTL DEF IInv

\* A late start request enqueues nothing that was ever enqueued before.
THEOREM SelectionsAreSafe == Spec => []SelectionIsSafe
  BY InductiveInvariant, PTL DEF IInv
=============================================================================
