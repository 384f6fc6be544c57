------------------------ MODULE SendQueueMail_proofs ------------------------
(***************************************************************************)
(* What becomes of the messages: on the inductive invariant IInv of        *)
(* SendQueue_proofs rest the action properties, the exactness of           *)
(* total_sent, the accounting of every accepted copy (MailAccounted), the  *)
(* number of duplicates, the audit trail, the bound on late mail, and      *)
(* the refinement of EmailDelivery under the mapping Stage.  The refinement*)
(* needs the accounting: a record is confirmed as SENT only when the       *)
(* provider has taken a copy, which may have happened two steps earlier.   *)
(***************************************************************************)
EXTENDS SendQueue_proofs

-----------------------------------------------------------------------------
(* Paused campaigns, finished records                                      *)

\* No action but the dispatch hands a message to the provider.
LEMMA OnlyDispatchSends ==
  ASSUME [Next]_vars
  PROVE  \/ copies' = copies
         \/ \E w \in Workers, reply \in Replies : Dispatch(w, reply)
<1> USE DEF mailVars
<1>1. CASE \E e \in Emails : GenerateRead(e) \/ Generate(e) \/ GenerateAbort(e)
                            \/ EnqueueFollowup(e)
  BY <1>1 DEF GenerateRead, Generate, GenerateAbort, EnqueueFollowup
<1>2. CASE \E c \in Campaigns : Pause(c)
  BY <1>2 DEF Pause
<1>3. CASE \E l \in Leads : OptOut(l)
  BY <1>3 DEF OptOut
<1>4. CASE \E r \in Requests : RequestStep(r)
  BY <1>4 DEF RequestStep, StartActivate, StartSelect, StartEnqueue, StartAbort
<1>5. CASE \E w \in Workers : WorkerStep(w)
  <2>1. PICK w \in Workers : WorkerStep(w)
    BY <1>5
  <2>2. CASE \E e \in Emails : Claim(w, e)
    BY <2>2 DEF Claim
  <2>3. CASE NoAccount(w) \/ Reject(w) \/ Trip(w) \/ Postpone(w) \/ Allow(w)
    BY <2>3 DEF NoAccount, Reject, Trip, Postpone, Allow
  <2>4. CASE CommitSent(w) \/ CommitRetry(w) \/ CommitFailed(w) \/ CommitPostponed(w) \/ Abort(w)
    BY <2>4 DEF CommitSent, CommitRetry, CommitFailed, CommitPostponed, Abort
  <2> QED BY <2>1, <2>2, <2>3, <2>4 DEF WorkerStep
<1>6. CASE \E old \in SUBSET Emails : Maintain(old)
  BY <1>6 DEF Maintain
<1>7. CASE Tick \/ UNCHANGED vars
  BY <1>7 DEF Tick, vars
<1> QED BY <1>1, <1>2, <1>3, <1>4, <1>5, <1>6, <1>7 DEF Next

\* A dispatch can only add a copy of its own, QUEUED, record in an ACTIVE campaign.
LEMMA DispatchTarget ==
  ASSUME IInv, NEW w \in Workers, NEW reply \in Replies, Dispatch(w, reply)
  PROVE  /\ tx[w].job \in Emails
         /\ emailStatus[tx[w].job] = "queued"
         /\ campaignStatus[CampaignOf[tx[w].job]] = "active"
         /\ \A e \in Emails : e # tx[w].job => copies'[e] = copies[e]
<1>1. Busy(w)
  BY DEF Dispatch, Busy
<1>2. /\ tx[w].job \in Emails
      /\ emailStatus[tx[w].job] = "queued"
      /\ campaignStatus[CampaignOf[tx[w].job]] = "active"
  BY <1>1 DEF IInv, FlightIsCurrent, JobMatchesEmail
<1>3. copies \in [Emails -> Nat]
  BY DEF IInv, TypeOK
<1>4. copies' = copies \/ copies' = [copies EXCEPT ![tx[w].job] = @ + 1]
  BY DEF Dispatch
<1> QED BY <1>2, <1>3, <1>4

\* After pause_campaign has answered, no message of the campaign leaves.
THEOREM PauseStopsMail == Spec => PausedCampaignIsQuiet
<1> DEFINE Quiet == \A e \in Emails : copies'[e] # copies[e] =>
                       campaignStatus[CampaignOf[e]] = "active"
<1>1. ASSUME IInv, [Next]_vars PROVE Quiet
  BY <1>1, OnlyDispatchSends, DispatchTarget
<1>2. IInv /\ [Next]_vars => [Quiet]_vars
  BY <1>1
<1> QED BY <1>2, InductiveInvariant, PTL DEF Spec, PausedCampaignIsQuiet

Final(e) == emailStatus[e] \in {"sent", "failed"} =>
               /\ emailStatus'[e] = emailStatus[e]
               /\ jobStatus'[e] \in {jobStatus[e], "none"}
               /\ copies'[e] = copies[e]

\* Enqueueing touches no finished record: its job exists, or it is not PENDING.
LEMMA EnqueueFinal ==
  ASSUME IInv, NEW S \in SUBSET Emails, Enqueue(S), UNCHANGED copies,
         \A e \in S : jobStatus[e] = "none" => emailStatus[e] = "pending",
         NEW e \in Emails
  PROVE  Final(e)
<1>1. /\ jobStatus[e] # "none" =>
            jobStatus'[e] = jobStatus[e] /\ emailStatus'[e] = emailStatus[e]
      /\ jobStatus[e] = "none" /\ e \notin S =>
            jobStatus'[e] = jobStatus[e] /\ emailStatus'[e] = emailStatus[e]
  BY DEF Enqueue, QueueJobs, QueueRecords
<1>2. jobStatus[e] = "none" /\ e \in S => emailStatus[e] = "pending"
  OBVIOUS
<1>3. CASE emailStatus[e] \in {"sent", "failed"}
  <2>1. jobStatus'[e] = jobStatus[e] /\ emailStatus'[e] = emailStatus[e]
    BY <1>1, <1>2, <1>3
  <2> QED BY <2>1 DEF Final
<1>4. CASE emailStatus[e] \notin {"sent", "failed"}
  BY <1>4 DEF Final
<1> QED BY <1>3, <1>4

\* A commit touches the record of its own live job only.
LEMMA CommitFinal ==
  ASSUME IInv, NEW w \in Workers,
         CommitSent(w) \/ CommitRetry(w) \/ CommitFailed(w) \/ CommitPostponed(w),
         NEW e \in Emails
  PROVE  Final(e)
<1>1. /\ Busy(w) /\ tx[w].job \in Emails
      /\ emailStatus[tx[w].job] = "queued"
  BY DEF CommitSent, CommitRetry, CommitFailed, CommitPostponed, Busy,
         IInv, FlightIsCurrent, JobMatchesEmail
<1>2. ASSUME NEW s, NEW d, CommitJob(tx[w], s, d), e # tx[w].job
      PROVE  jobStatus'[e] = jobStatus[e]
  BY <1>1, <1>2, NothingToReap DEF CommitJob, IInv, TypeOK
<1>4. e # tx[w].job => jobStatus'[e] = jobStatus[e]
  <2>1. CASE CommitSent(w)
    BY <2>1, <1>2 DEF CommitSent
  <2>2. CASE CommitRetry(w)
    BY <2>2, <1>2 DEF CommitRetry
  <2>3. CASE CommitFailed(w)
    BY <2>3, <1>2 DEF CommitFailed
  <2>4. CASE CommitPostponed(w)
    BY <2>4, <1>2 DEF CommitPostponed
  <2> QED BY <2>1, <2>2, <2>3, <2>4
<1>5. e # tx[w].job => emailStatus'[e] = emailStatus[e]
  BY <1>1 DEF CommitSent, CommitRetry, CommitFailed, CommitPostponed, IInv, TypeOK
<1>6. copies' = copies
  BY DEF CommitSent, CommitRetry, CommitFailed, CommitPostponed, mailVars
<1> QED BY <1>1, <1>4, <1>5, <1>6 DEF Final

\* SENT and FAILED are final, and nothing brings a finished record's job back.
THEOREM FinishedStaysFinished == Spec => FinishedIsFinal
<1>1. ASSUME IInv, [Next]_vars, NEW e \in Emails PROVE Final(e)
  <2> USE <1>1
  <2>1. CASE \E x \in Emails : GenerateRead(x) \/ Generate(x) \/ GenerateAbort(x)
    BY <2>1 DEF GenerateRead, Generate, GenerateAbort, IInv, TypeOK, jobVars, mailVars, Final
  <2>2. CASE \E x \in Emails : EnqueueFollowup(x)
    <3>1. PICK x \in Emails : EnqueueFollowup(x)
      BY <2>2
    <3> QED BY <3>1, EnqueueFinal DEF EnqueueFollowup, Selectable, mailVars
  <2>3. CASE \E c \in Campaigns : Pause(c)
    BY <2>3 DEF Pause, jobVars, mailVars, Final
  <2>4. CASE \E l \in Leads : OptOut(l)
    BY <2>4 DEF OptOut, jobVars, mailVars, Final
  <2>5. CASE \E r \in Requests : RequestStep(r)
    <3>1. PICK r \in Requests : RequestStep(r)
      BY <2>5
    <3>2. CASE StartEnqueue(r)
      <4>1. /\ batch[r] \in SUBSET Emails
            /\ \A x \in batch[r] : jobStatus[x] = "none" => emailStatus[x] = "pending"
        BY <3>2 DEF StartEnqueue, IInv, TypeOK, SelectionIsSafe
      <4> QED BY <3>2, <4>1, EnqueueFinal DEF StartEnqueue, mailVars
    <3>3. CASE ~StartEnqueue(r)
      BY <3>1, <3>3 DEF RequestStep, StartActivate, StartSelect, StartAbort,
                        jobVars, mailVars, Final
    <3> QED BY <3>2, <3>3
  <2>6. CASE \E w \in Workers : WorkerStep(w)
    <3>1. PICK w \in Workers : WorkerStep(w)
      BY <2>6
    <3>2. CASE \E x \in Emails : Claim(w, x)
      BY <3>2 DEF Claim, jobVars, mailVars, Final
    <3>3. CASE NoAccount(w) \/ Reject(w) \/ Trip(w) \/ Postpone(w) \/ Allow(w) \/ Abort(w)
      BY <3>3 DEF NoAccount, Reject, Trip, Postpone, Allow, Abort, jobVars, mailVars, Final
    <3>4. CASE \E reply \in Replies : Dispatch(w, reply)
      <4>1. UNCHANGED <<emailStatus, jobVars>>
        BY <3>4 DEF Dispatch
      <4> QED BY <3>4, <4>1, DispatchTarget DEF jobVars, Final
    <3>5. CASE CommitSent(w) \/ CommitRetry(w) \/ CommitFailed(w) \/ CommitPostponed(w)
      BY <3>5, CommitFinal
    <3> QED BY <3>1, <3>2, <3>3, <3>4, <3>5 DEF WorkerStep
  <2>7. CASE \E old \in SUBSET Emails : Maintain(old)
    BY <2>7, NothingToReap DEF Maintain, mailVars, Final
  <2>8. CASE Tick \/ UNCHANGED vars
    BY <2>8 DEF Tick, vars, jobVars, mailVars, Final
  <2> QED BY <1>1, <2>1, <2>2, <2>3, <2>4, <2>5, <2>6, <2>7, <2>8 DEF Next
<1>2. IInv /\ [Next]_vars => [\A e \in Emails : Final(e)]_vars
  BY <1>1
<1>3. Spec => [][\A e \in Emails : Final(e)]_vars
  BY <1>2, InductiveInvariant, PTL DEF Spec
<1> QED BY <1>3 DEF FinishedIsFinal, Final

-----------------------------------------------------------------------------
(* total_sent                                                              *)

\* The steps that leave the SENT records and the counters alone.
LEMMA OnlyCommitSentCounts ==
  ASSUME IInv, [Next]_vars, \A w \in Workers : ~CommitSent(w)
  PROVE  /\ totalSent' = totalSent
         /\ \A e \in Emails : emailStatus'[e] = "sent" <=> emailStatus[e] = "sent"
<1> USE DEF entityVars
<1>1. ASSUME NEW S \in SUBSET Emails, Enqueue(S),
             \A e \in S : jobStatus[e] = "none" => emailStatus[e] = "pending"
      PROVE  \A e \in Emails : emailStatus'[e] = "sent" <=> emailStatus[e] = "sent"
  BY <1>1 DEF Enqueue, QueueRecords
<1>2. CASE \E e \in Emails : GenerateRead(e) \/ Generate(e) \/ GenerateAbort(e)
  BY <1>2 DEF GenerateRead, Generate, GenerateAbort, IInv, TypeOK
<1>3. CASE \E e \in Emails : EnqueueFollowup(e)
  BY <1>1, <1>3 DEF EnqueueFollowup, Selectable
<1>4. CASE \E c \in Campaigns : Pause(c)
  BY <1>4 DEF Pause
<1>5. CASE \E l \in Leads : OptOut(l)
  BY <1>5 DEF OptOut
<1>6. CASE \E r \in Requests : RequestStep(r)
  <2>1. PICK r \in Requests : RequestStep(r)
    BY <1>6
  <2>2. CASE StartEnqueue(r)
    BY <1>1, <2>2 DEF StartEnqueue, IInv, TypeOK, SelectionIsSafe
  <2>3. CASE ~StartEnqueue(r)
    BY <2>1, <2>3 DEF RequestStep, StartActivate, StartSelect, StartAbort
  <2> QED BY <2>2, <2>3
<1>7. CASE \E w \in Workers : WorkerStep(w)
  <2>1. PICK w \in Workers : WorkerStep(w)
    BY <1>7
  <2>2. CASE \E e \in Emails : Claim(w, e)
    BY <2>2 DEF Claim
  <2>3. CASE NoAccount(w) \/ Reject(w) \/ Trip(w) \/ Postpone(w) \/ Allow(w)
    BY <2>3 DEF NoAccount, Reject, Trip, Postpone, Allow
  <2>4. CASE \E reply \in Replies : Dispatch(w, reply)
    BY <2>4 DEF Dispatch
  <2>5. CASE CommitRetry(w) \/ CommitPostponed(w) \/ Abort(w)
    BY <2>5 DEF CommitRetry, CommitPostponed, Abort
  <2>6. CASE CommitFailed(w)
    <3>1. tx[w].job \in Emails /\ emailStatus[tx[w].job] = "queued"
      BY <2>6 DEF CommitFailed, Busy, IInv, FlightIsCurrent, JobMatchesEmail
    <3> QED BY <2>6, <3>1 DEF CommitFailed, IInv, TypeOK
  <2> QED BY <2>1, <2>2, <2>3, <2>4, <2>5, <2>6 DEF WorkerStep
<1>8. CASE \E old \in SUBSET Emails : Maintain(old)
  BY <1>8 DEF Maintain
<1>9. CASE Tick \/ UNCHANGED vars
  BY <1>9 DEF Tick, vars
<1> QED BY <1>2, <1>3, <1>4, <1>5, <1>6, <1>7, <1>8, <1>9 DEF Next

SentOf(c) == {e \in Emails : CampaignOf[e] = c /\ emailStatus[e] = "sent"}

\* A sent message adds its record, which was not SENT yet, to the campaign's set.
LEMMA CommitSentCounts ==
  ASSUME IInv, TotalSentExact, NEW w \in Workers, CommitSent(w)
  PROVE  TotalSentExact'
<1> DEFINE e == tx[w].job
<1>1. /\ e \in Emails /\ CampaignOf[e] \in Campaigns /\ emailStatus[e] = "queued"
      /\ tx[w].sentSeen = totalSent[CampaignOf[e]]
  BY RowsAssumption
  DEF CommitSent, Busy, IInv, FlightIsCurrent, JobMatchesEmail
<1>2. /\ emailStatus' = [emailStatus EXCEPT ![e] = "sent"]
      /\ totalSent' = [totalSent EXCEPT ![CampaignOf[e]] = tx[w].sentSeen + 1]
  BY DEF CommitSent
<1> SUFFICES ASSUME NEW c \in Campaigns PROVE totalSent'[c] = Cardinality(SentOf(c)')
  BY DEF TotalSentExact, SentOf
<1>3. totalSent[c] = Cardinality(SentOf(c)) /\ IsFiniteSet(SentOf(c))
  BY RowsAssumption, FS_Subset DEF TotalSentExact, SentOf
<1>4. CASE c # CampaignOf[e]
  <2>1. SentOf(c)' = SentOf(c)
    BY <1>1, <1>2, <1>4 DEF SentOf, IInv, TypeOK
  <2>2. totalSent'[c] = totalSent[c]
    BY <1>2, <1>4 DEF IInv, TypeOK
  <2> QED BY <1>3, <2>1, <2>2
<1>5. CASE c = CampaignOf[e]
  <2>1. SentOf(c)' = SentOf(c) \cup {e} /\ e \notin SentOf(c)
    BY <1>1, <1>2, <1>5 DEF SentOf, IInv, TypeOK
  <2>2. Cardinality(SentOf(c)') = Cardinality(SentOf(c)) + 1
    BY <1>3, <2>1, FS_AddElement
  <2>3. totalSent'[c] = totalSent[c] + 1
    BY <1>1, <1>2, <1>5 DEF IInv, TypeOK
  <2> QED BY <1>3, <2>2, <2>3
<1> QED BY <1>4, <1>5

\* Campaign.total_sent counts the SENT records: the counter written as "value read
\* at the claim, plus one" loses no increment, because the campaign row is locked.
THEOREM TotalSentIsExact == Spec => []TotalSentExact
<1>1. Init => TotalSentExact
  <2>1. Init => \A c \in Campaigns : SentOf(c) = {} /\ totalSent[c] = 0
    BY DEF Init, SentOf
  <2> QED BY <2>1, FS_EmptySet DEF TotalSentExact, SentOf
<1>2. ASSUME IInv, TotalSentExact, [Next]_vars PROVE TotalSentExact'
  <2>1. CASE \E w \in Workers : CommitSent(w)
    BY <1>2, <2>1, CommitSentCounts
  <2>2. CASE \A w \in Workers : ~CommitSent(w)
    <3>1. \A c \in Campaigns : totalSent'[c] = totalSent[c] /\ SentOf(c)' = SentOf(c)
      BY <1>2, <2>2, OnlyCommitSentCounts DEF SentOf
    <3> QED BY <1>2, <3>1 DEF TotalSentExact, SentOf
  <2> QED BY <2>1, <2>2
<1>3. IInv /\ TotalSentExact /\ [Next]_vars => TotalSentExact'
  BY <1>2
<1> QED BY <1>1, <1>3, InductiveInvariant, PTL DEF Spec

-----------------------------------------------------------------------------
(* The audit trail                                                         *)

\* What AuditMatchesJob says of one job: its rows, its status, its attempts.
Trail(rows, status, count) ==
    /\ \A i \in 1..Len(rows) :
          /\ rows[i].number \in 1..count
          /\ i > 1 => rows[i - 1].number < rows[i].number
          /\ rows[i].status = "transient_failure" => rows[i].number < MaxAttempts
          /\ i < Len(rows) => rows[i].status = "transient_failure"
    /\ status \in {"sent", "failed"} <=>
          rows # <<>> /\ rows[Len(rows)].status # "transient_failure"
    /\ rows # <<>> => (status = "sent" <=> rows[Len(rows)].status = "success")

\* The status in which a job is left by the attempt with this outcome.
StatusAfter(outcome) ==
    CASE outcome = "success" -> "sent"
      [] outcome = "permanent_failure" -> "failed"
      [] outcome = "transient_failure" -> "retry_wait"

\* Without a row, a job that is not finished has a trail.
LEMMA NoTrail ==
  ASSUME NEW status, status \notin {"sent", "failed"}, NEW count
  PROVE  Trail(<<>>, status, count)
  BY DEF Trail

\* An unfinished job may be counted further and queued again.
LEMMA TrailGoesOn ==
  ASSUME NEW rows \in Seq(AuditRow), NEW status, NEW count \in Nat, NEW later \in Nat,
         Trail(rows, status, count), count <= later,
         NEW next, status \notin {"sent", "failed"}, next \notin {"sent", "failed"}
  PROVE  Trail(rows, next, later)
<1>1. rows # <<>> => rows[Len(rows)].status = "transient_failure"
  BY DEF Trail
<1>2. \A i \in 1..Len(rows) : rows[i].number \in 1..later
  BY DEF Trail
<1> QED BY <1>1, <1>2 DEF Trail

\* The row of a new attempt goes to the end of an unfinished job's trail.
LEMMA TrailGrows ==
  ASSUME NEW rows \in Seq(AuditRow), NEW status, NEW count \in Nat,
         Trail(rows, status, count), status \notin {"sent", "failed"},
         NEW outcome \in {"success", "transient_failure", "permanent_failure"},
         outcome = "transient_failure" => count + 1 < MaxAttempts
  PROVE  Trail(Append(rows, [number |-> count + 1, status |-> outcome]),
               StatusAfter(outcome), count + 1)
<1> DEFINE row == [number |-> count + 1, status |-> outcome]
           longer == Append(rows, row)
<1>1. /\ longer # <<>> /\ Len(longer) = Len(rows) + 1 /\ Len(rows) \in Nat
      /\ longer[Len(longer)] = row
      /\ \A i \in 1..Len(rows) : longer[i] = rows[i]
  OBVIOUS
<1>2. row.number = count + 1 /\ row.status = outcome
  OBVIOUS
<1>3. \A i \in 1..Len(rows) : /\ rows[i].number \in 1..count
                              /\ rows[i].status = "transient_failure"
  BY DEF Trail
<1> HIDE DEF row, longer
<1>4. ASSUME NEW i \in 1..Len(longer)
      PROVE  /\ longer[i].number \in 1..(count + 1)
             /\ i > 1 => longer[i - 1].number < longer[i].number
             /\ longer[i].status = "transient_failure" => longer[i].number < MaxAttempts
             /\ i < Len(longer) => longer[i].status = "transient_failure"
  <2>1. CASE i = Len(longer)
    BY <1>1, <1>2, <1>3, <2>1
  <2>2. CASE i # Len(longer)
    <3>1. i \in 1..Len(rows) /\ (i > 1 => i - 1 \in 1..Len(rows))
      BY <1>1, <2>2
    <3> QED BY <1>1, <1>3, <3>1, SMTT(30) DEF Trail
  <2> QED BY <2>1, <2>2
<1>5. /\ StatusAfter(outcome) \in {"sent", "failed"} <=> outcome # "transient_failure"
      /\ StatusAfter(outcome) = "sent" <=> outcome = "success"
  BY DEF StatusAfter
<1>6. Trail(longer, StatusAfter(outcome), count + 1)
  BY <1>1, <1>2, <1>4, <1>5 DEF Trail
<1> QED BY <1>6 DEF longer, row

\* The job of a record goes on: nothing is written, or it is queued for the first time.
JobGoesOn(e) ==
    /\ audit'[e] = audit[e] /\ attempts'[e] = attempts[e]
    /\ \/ jobStatus'[e] = jobStatus[e]
       \/ jobStatus[e] = "none" /\ jobStatus'[e] = "queued"

\* Only a worker's commit and the purge touch a job that is there.
LEMMA JobsGoOn ==
  ASSUME IInv, [Next]_vars, NEW e \in Emails,
         \A w \in Workers : ~(CommitSent(w) \/ CommitRetry(w) \/ CommitFailed(w)
                               \/ CommitPostponed(w)),
         \A old \in SUBSET Emails : ~Maintain(old)
  PROVE  JobGoesOn(e)
<1>1. ASSUME NEW S, Enqueue(S) PROVE JobGoesOn(e)
  BY <1>1 DEF Enqueue, QueueJobs, JobGoesOn
<1>2. CASE \E x \in Emails : EnqueueFollowup(x)
  BY <1>1, <1>2 DEF EnqueueFollowup
<1>3. CASE \E r \in Requests : RequestStep(r)
  <2>1. PICK r \in Requests : RequestStep(r)
    BY <1>3
  <2>2. CASE StartEnqueue(r)
    BY <1>1, <2>2 DEF StartEnqueue
  <2>3. CASE ~StartEnqueue(r)
    BY <2>1, <2>3 DEF RequestStep, StartActivate, StartSelect, StartAbort, jobVars, JobGoesOn
  <2> QED BY <2>2, <2>3
<1>4. CASE \E w \in Workers : WorkerStep(w)
  <2>1. PICK w \in Workers : WorkerStep(w)
    BY <1>4
  <2>2. UNCHANGED jobVars
    BY <2>1 DEF WorkerStep, Claim, NoAccount, Reject, Trip, Postpone, Allow, Dispatch, Abort
  <2> QED BY <2>2 DEF jobVars, JobGoesOn
<1>5. CASE \/ \E x \in Emails : GenerateRead(x) \/ Generate(x) \/ GenerateAbort(x)
           \/ \E c \in Campaigns : Pause(c)
           \/ \E l \in Leads : OptOut(l)
           \/ Tick \/ UNCHANGED vars
  BY <1>5 DEF GenerateRead, Generate, GenerateAbort, Pause, OptOut, Tick, vars, jobVars,
              JobGoesOn
<1> QED BY <1>2, <1>3, <1>4, <1>5 DEF Next

\* A commit extends the trail of its own live job only.
LEMMA CommitTrail ==
  ASSUME IInv, AuditMatchesJob, NEW w \in Workers, NEW e \in Emails,
         CommitSent(w) \/ CommitRetry(w) \/ CommitFailed(w) \/ CommitPostponed(w)
  PROVE  Trail(audit'[e], jobStatus'[e], attempts'[e])
<1> DEFINE j == tx[w].job
           n == tx[w].attempt
<1>1. Busy(w)
  BY DEF CommitSent, CommitRetry, CommitFailed, CommitPostponed, Busy
<1>2. /\ j \in Emails /\ n = attempts[j] + 1 /\ attempts[j] \in Nat
      /\ jobStatus[j] \in {"queued", "retry_wait"}
      /\ audit[j] \in Seq(AuditRow)
      /\ Trail(audit[e], jobStatus[e], attempts[e])
      /\ Trail(audit[j], jobStatus[j], attempts[j])
  BY <1>1 DEF IInv, TypeOK, FlightIsCurrent, AuditMatchesJob, Trail
<1> HIDE DEF j, n
<1>3. ASSUME NEW outcome \in {"success", "transient_failure", "permanent_failure"}, NEW delay,
             CommitJob(tx[w], StatusAfter(outcome), delay), Record(j, n, outcome),
             outcome = "transient_failure" => n < MaxAttempts
      PROVE  Trail(audit'[e], jobStatus'[e], attempts'[e])
  <2>1. /\ jobStatus' = [jobStatus EXCEPT ![j] = StatusAfter(outcome)]
        /\ attempts' = [attempts EXCEPT ![j] = n]
        /\ audit' = [audit EXCEPT ![j] = Append(@, [number |-> n, status |-> outcome])]
    BY <1>3, NothingToReap DEF CommitJob, Record, j, n
  <2>2. CASE e = j
    <3>1. Trail(Append(audit[j], [number |-> n, status |-> outcome]), StatusAfter(outcome), n)
      BY <1>2, <1>3, TrailGrows
    <3>2. /\ jobStatus'[e] = StatusAfter(outcome) /\ attempts'[e] = n
          /\ audit'[e] = Append(audit[j], [number |-> n, status |-> outcome])
      BY <1>2, <2>1, <2>2 DEF IInv, TypeOK
    <3> QED BY <3>1, <3>2
  <2>3. CASE e # j
    <3>1. jobStatus'[e] = jobStatus[e] /\ attempts'[e] = attempts[e] /\ audit'[e] = audit[e]
      BY <2>1, <2>3 DEF IInv, TypeOK
    <3> QED BY <1>2, <3>1
  <2> QED BY <2>2, <2>3
<1>4. CASE CommitSent(w)
  BY <1>3, <1>4 DEF CommitSent, StatusAfter, j, n
<1>5. CASE CommitRetry(w)
  BY <1>3, <1>5 DEF CommitRetry, CanRetry, StatusAfter, j, n
<1>6. CASE CommitFailed(w)
  BY <1>3, <1>6 DEF CommitFailed, StatusAfter, j, n
<1>7. CASE CommitPostponed(w)
  <2>1. /\ jobStatus' = [jobStatus EXCEPT ![j] = "queued"]
        /\ attempts' = [attempts EXCEPT ![j] = n]
        /\ audit' = audit
    BY <1>7, NothingToReap DEF CommitPostponed, CommitJob, j, n
  <2>2. CASE e = j
    <3>0. n \in Nat /\ attempts[j] <= n /\ jobStatus[j] \notin {"sent", "failed"}
      BY <1>2
    <3>1. Trail(audit[j], "queued", n)
      BY <1>2, <3>0, TrailGoesOn
    <3>2. jobStatus'[e] = "queued" /\ attempts'[e] = n /\ audit'[e] = audit[j]
      BY <1>2, <2>1, <2>2 DEF IInv, TypeOK
    <3> QED BY <3>1, <3>2
  <2>3. CASE e # j
    <3>1. jobStatus'[e] = jobStatus[e] /\ attempts'[e] = attempts[e] /\ audit'[e] = audit[e]
      BY <2>1, <2>3 DEF IInv, TypeOK
    <3> QED BY <1>2, <3>1
  <2> QED BY <2>2, <2>3
<1> QED BY <1>4, <1>5, <1>6, <1>7

\* send_attempts is a faithful history of every job: numbers grow, only the last row
\* is final, exactly when the job is, and nothing is retried beyond its budget.
THEOREM AuditsMatchJobs == Spec => []AuditMatchesJob
<1>1. Init => AuditMatchesJob
  BY DEF Init, AuditMatchesJob
<1>2. ASSUME IInv, AuditMatchesJob, [Next]_vars PROVE AuditMatchesJob'
  <2> SUFFICES ASSUME NEW e \in Emails PROVE Trail(audit'[e], jobStatus'[e], attempts'[e])
    BY DEF AuditMatchesJob, Trail
  <2>0. /\ Trail(audit[e], jobStatus[e], attempts[e])
        /\ audit[e] \in Seq(AuditRow) /\ attempts[e] \in Nat
    BY <1>2 DEF AuditMatchesJob, Trail, IInv, TypeOK
  <2>1. CASE \E w \in Workers : CommitSent(w) \/ CommitRetry(w) \/ CommitFailed(w)
                               \/ CommitPostponed(w)
    BY <1>2, <2>1, CommitTrail
  <2>2. CASE \E old \in SUBSET Emails : Maintain(old)
    <3>1. PICK old \in SUBSET Emails : Maintain(old)
      BY <2>2
    <3>2. CASE e \in old
      <4>1. audit'[e] = <<>> /\ jobStatus'[e] = "none"
        BY <3>1, <3>2 DEF Maintain
      <4> QED BY <4>1, NoTrail
    <3>3. CASE e \notin old
      <4>1. audit'[e] = audit[e] /\ jobStatus'[e] = jobStatus[e] /\ attempts'[e] = attempts[e]
        BY <1>2, <3>1, <3>3, NothingToReap DEF Maintain
      <4> QED BY <2>0, <4>1
    <3> QED BY <3>2, <3>3
  <2>3. CASE JobGoesOn(e)
    BY <2>0, <2>3, TrailGoesOn DEF JobGoesOn
  <2> QED BY <1>2, <2>1, <2>2, <2>3, JobsGoOn
<1>3. IInv /\ AuditMatchesJob /\ [Next]_vars => AuditMatchesJob'
  BY <1>2
<1> QED BY <1>1, <1>3, InductiveInvariant, PTL DEF Spec

USE DEF EmailStates, JobStates, CampaignStates, LeadStates, Outcomes

-----------------------------------------------------------------------------
(* The transactions that hold an accepted message                          *)

\* A record's unrecorded message can only be in the hands of the one worker that
\* works on it.
LEMMA OneUnrecorded ==
  ASSUME IInv, NEW w \in Workers, Busy(w)
  PROVE  Unrecorded(tx[w].job) =
            IF phase[w] = "settled" /\ tx[w].outcome = "sent" THEN {w} ELSE {}
<1>1. \A v \in Workers : Busy(v) /\ tx[v].job = tx[w].job => v = w
  BY DEF IInv, FlightIsCurrent
<1> QED BY <1>1 DEF Unrecorded, Busy

\* A step that hands over no message, records none and loses none.
LEMMA MailFrame ==
  ASSUME MailAccounted, copies' = copies, orphans' = orphans,
         \A e \in Emails : emailStatus'[e] = "sent" <=> emailStatus[e] = "sent",
         \A e \in Emails : Unrecorded(e)' = Unrecorded(e)
  PROVE  MailAccounted'
  BY DEF MailAccounted

\* A worker that finishes gives up its unrecorded message, if it has one.
LEMMA FinishUnrecorded ==
  ASSUME IInv, NEW w \in Workers, Finish(w), NEW e \in Emails
  PROVE  Unrecorded(e)' = Unrecorded(e) \ {w}
<1>1. \A v \in Workers : v # w => phase'[v] = phase[v] /\ tx'[v] = tx[v]
  BY DEF IInv, TypeOK, Finish
<1>2. phase'[w] = "idle"
  BY DEF IInv, TypeOK, Finish
<1> QED BY <1>1, <1>2 DEF Unrecorded

\* A step of a worker that does not settle as sent leaves the unrecorded messages.
LEMMA SettleUnrecorded ==
  ASSUME IInv, NEW w \in Workers, phase[w] \in {"claimed", "cleared"},
         NEW outcome \in Outcomes, NEW delay \in Nat, Settle(w, outcome, delay)
  PROVE  \A e \in Emails : Unrecorded(e)' =
            IF e = tx[w].job /\ outcome = "sent" THEN Unrecorded(e) \cup {w}
            ELSE Unrecorded(e)
<1>1. \A v \in Workers : v # w => phase'[v] = phase[v] /\ tx'[v] = tx[v]
  BY DEF IInv, TypeOK, Settle
<1>2. /\ phase'[w] = "settled"
      /\ tx'[w] = [tx[w] EXCEPT !.outcome = outcome, !.delay = delay]
  BY DEF IInv, TypeOK, Settle
<1>3. tx'[w].job = tx[w].job /\ tx'[w].outcome = outcome
  BY <1>2 DEF IInv, TypeOK, Transaction
<1> QED BY <1>1, <1>2, <1>3, ZenonT(60) DEF Unrecorded

-----------------------------------------------------------------------------
(* The steps                                                               *)

\* The steps of a worker before it dispatches.
LEMMA BeforeDispatch ==
  ASSUME IInv, MailAccounted, NEW w \in Workers,
         \/ \E e \in Emails : Claim(w, e)
         \/ NoAccount(w) \/ Reject(w) \/ Trip(w) \/ Postpone(w) \/ Allow(w)
  PROVE  MailAccounted'
<1>1. copies' = copies /\ orphans' = orphans /\ emailStatus' = emailStatus
  BY DEF Claim, NoAccount, Reject, Trip, Postpone, Allow, mailVars
<1>2. \A e \in Emails : Unrecorded(e)' = Unrecorded(e)
  <2>1. CASE \E e \in Emails : Claim(w, e)
    <3>1. phase[w] = "idle" /\ phase'[w] = "claimed"
      BY <2>1 DEF Claim, Busy, IInv, TypeOK
    <3>2. \A v \in Workers : v # w => phase'[v] = phase[v] /\ tx'[v] = tx[v]
      BY <2>1 DEF Claim, IInv, TypeOK
    <3> QED BY <3>1, <3>2 DEF Unrecorded
  <2>2. CASE NoAccount(w) \/ Reject(w) \/ Trip(w) \/ Postpone(w)
    <3>1. phase[w] = "claimed"
      BY <2>2 DEF NoAccount, Reject, Trip, Postpone
    <3>2. PICK outcome \in Outcomes \ {"sent"}, delay \in Nat : Settle(w, outcome, delay)
      BY <2>2, LimitsAssumption DEF NoAccount, Reject, Trip, Postpone
    <3> QED BY <3>1, <3>2, SettleUnrecorded
  <2>3. CASE Allow(w)
    BY <2>3 DEF Allow, Unrecorded, IInv, TypeOK
  <2> QED BY <2>1, <2>2, <2>3
<1> QED BY <1>1, <1>2, MailFrame

\* A dispatch: an accepted message is in the transaction, a lost one is an orphan.
LEMMA DispatchAccounted ==
  ASSUME IInv, MailAccounted, NEW w \in Workers, NEW reply \in Replies, Dispatch(w, reply)
  PROVE  MailAccounted'
<1>1. Busy(w) /\ phase[w] = "cleared"
  BY DEF Dispatch, Busy
<1>2. PICK e \in Emails : e = tx[w].job /\ emailStatus[e] = "queued"
  BY DispatchTarget
<1>3. /\ Settle(w, OutcomeOf(reply), 0)
      /\ OutcomeOf(reply) \in Outcomes
      /\ OutcomeOf(reply) = "sent" <=> reply = "accepted"
      /\ emailStatus' = emailStatus
  <2>1. Settle(w, OutcomeOf(reply), 0) /\ emailStatus' = emailStatus
    BY <1>2 DEF Dispatch
  <2>2. OutcomeOf(reply) \in Outcomes
    BY DEF OutcomeOf, Replies, Unconfirmed
  <2>3. CASE reply = "accepted"
    BY <2>1, <2>2, <2>3 DEF OutcomeOf
  <2>4. CASE reply # "accepted"
    BY <2>1, <2>2, <2>4 DEF OutcomeOf, Replies, Unconfirmed
  <2> QED BY <2>3, <2>4
<1>4. \A x \in Emails : Unrecorded(x)' = IF x = e /\ reply = "accepted" THEN Unrecorded(x) \cup {w}
                                         ELSE Unrecorded(x)
  BY <1>1, <1>2, <1>3, SettleUnrecorded
<1>5. /\ copies' = IF reply \in Unconfirmed \cup {"accepted"} THEN [copies EXCEPT ![e] = @ + 1] ELSE copies
      /\ orphans' = IF reply \in Unconfirmed THEN [orphans EXCEPT ![e] = @ + 1] ELSE orphans
  BY <1>2 DEF Dispatch
<1>6. Unrecorded(e) = {}
  BY <1>1, <1>2, OneUnrecorded
<1>7. copies \in [Emails -> Nat] /\ orphans \in [Emails -> Nat]
  BY DEF IInv, TypeOK
<1> SUFFICES ASSUME NEW x \in Emails
             PROVE  MailAccounted!(x)'
  BY DEF MailAccounted
<1>8. MailAccounted!(x)
  BY DEF MailAccounted
<1>9. CASE x # e
  <2>1. copies'[x] = copies[x] /\ orphans'[x] = orphans[x]
    BY <1>5, <1>7, <1>9
  <2>2. Unrecorded(x)' = Unrecorded(x)
    BY <1>4, <1>9
  <2> QED BY <1>3, <1>8, <2>1, <2>2
<1>10. CASE x = e
  <2>1. /\ Cardinality(Unrecorded(e)) = 0
        /\ Cardinality({w}) = 1
    BY <1>6, FS_EmptySet, FS_Singleton
  <2>2. copies[e] = orphans[e]
    BY <1>2, <1>7, <1>8, <1>10, <2>1
  <2>3. CASE reply = "accepted"
    <3>1. Unrecorded(e)' = {w}
      BY <1>2, <1>4, <1>6, <2>3
    <3>2. copies'[e] = copies[e] + 1 /\ orphans'[e] = orphans[e]
      BY <1>2, <1>5, <1>7, <2>3 DEF Unconfirmed
    <3> QED BY <1>2, <1>3, <1>7, <1>10, <2>1, <2>2, <3>1, <3>2
  <2>4. CASE reply # "accepted"
    <3>1. Unrecorded(e)' = {}
      BY <1>2, <1>4, <1>6, <2>4
    <3>2. copies'[e] - copies[e] = orphans'[e] - orphans[e]
      BY <1>2, <1>5, <1>7, <2>4 DEF Unconfirmed
    <3> QED BY <1>2, <1>3, <1>5, <1>6, <1>7, <1>10, <2>1, <2>2, <2>4, <3>1
  <2> QED BY <2>3, <2>4
<1> QED BY <1>9, <1>10

\* complete_send_job turns the unrecorded message into the SENT record.
LEMMA CommitSentAccounted ==
  ASSUME IInv, MailAccounted, NEW w \in Workers, CommitSent(w) PROVE MailAccounted'
<1>0. PICK e \in Emails : e = tx[w].job /\ emailStatus[e] = "queued"
  BY DEF CommitSent, Busy, IInv, FlightIsCurrent, JobMatchesEmail
<1>1. Busy(w) /\ phase[w] = "settled" /\ tx[w].outcome = "sent"
  BY DEF CommitSent, Busy
<1>2. /\ emailStatus' = [emailStatus EXCEPT ![e] = "sent"]
      /\ copies' = copies /\ orphans' = orphans /\ Finish(w)
  BY <1>0 DEF CommitSent, mailVars
<1>3. Unrecorded(e) = {w} /\ Cardinality({w}) = 1
  BY <1>0, <1>1, OneUnrecorded, FS_Singleton
<1>4. \A x \in Emails : Unrecorded(x)' = Unrecorded(x) \ {w}
  BY <1>2, FinishUnrecorded
<1> SUFFICES ASSUME NEW x \in Emails PROVE MailAccounted!(x)'
  BY DEF MailAccounted
<1>5. MailAccounted!(x) /\ copies \in [Emails -> Nat] /\ orphans \in [Emails -> Nat]
  BY DEF MailAccounted, IInv, TypeOK
<1>6. CASE x # e
  <2>1. emailStatus'[x] = emailStatus[x]
    BY <1>2, <1>6 DEF IInv, TypeOK
  <2>2. Unrecorded(x)' = Unrecorded(x)
    BY <1>0, <1>4, <1>6 DEF Unrecorded
  <2> QED BY <1>2, <1>5, <2>1, <2>2
<1>7. CASE x = e
  <2>1. emailStatus'[e] = "sent"
    BY <1>2 DEF IInv, TypeOK
  <2>2. Unrecorded(e)' = {} /\ Cardinality({}) = 0
    BY <1>3, <1>4, FS_EmptySet
  <2> QED BY <1>0, <1>2, <1>3, <1>5, <1>7, <2>1, <2>2, SMTT(30)
<1> QED BY <1>6, <1>7

\* The other commits hold no message.
LEMMA OtherCommitAccounted ==
  ASSUME IInv, [Next]_vars, MailAccounted, NEW w \in Workers,
         CommitRetry(w) \/ CommitFailed(w) \/ CommitPostponed(w)
  PROVE  MailAccounted'
<1>1. /\ phase[w] = "settled" /\ tx[w].outcome # "sent" /\ Finish(w)
      /\ copies' = copies /\ orphans' = orphans
  BY DEF CommitRetry, CommitFailed, CommitPostponed, mailVars
<1>2. \A e \in Emails : Unrecorded(e)' = Unrecorded(e)
  BY <1>1, FinishUnrecorded DEF Unrecorded
<1>3. \A e \in Emails : emailStatus'[e] = "sent" <=> emailStatus[e] = "sent"
  <2>1. /\ tx[w].job \in Emails
        /\ emailStatus[tx[w].job] = "queued"
    BY <1>1 DEF Busy, IInv, FlightIsCurrent, JobMatchesEmail
  <2> QED BY <2>1 DEF CommitRetry, CommitFailed, CommitPostponed, IInv, TypeOK
<1> QED BY <1>1, <1>2, <1>3, MailFrame

\* A rolled back cycle makes an orphan of the message it had handed over.
LEMMA AbortAccounted ==
  ASSUME IInv, MailAccounted, NEW w \in Workers, Abort(w) PROVE MailAccounted'
<1>0. PICK e \in Emails : e = tx[w].job /\ emailStatus[e] = "queued"
  BY DEF Abort, IInv, FlightIsCurrent, JobMatchesEmail
<1>a. PICK holds \in BOOLEAN : holds = (phase[w] = "settled" /\ tx[w].outcome = "sent")
  OBVIOUS
<1>1. Busy(w)
  BY DEF Abort
<1>2. /\ emailStatus' = emailStatus /\ copies' = copies /\ Finish(w)
      /\ orphans' = IF holds THEN [orphans EXCEPT ![e] = @ + 1] ELSE orphans
  BY <1>0, <1>a DEF Abort
<1>3. /\ Unrecorded(e) = IF holds THEN {w} ELSE {}
      /\ Cardinality({w}) = 1 /\ Cardinality({}) = 0
  BY <1>0, <1>a, <1>1, OneUnrecorded, FS_Singleton, FS_EmptySet
<1>4. \A x \in Emails : Unrecorded(x)' = Unrecorded(x) \ {w}
  BY <1>2, FinishUnrecorded
<1> SUFFICES ASSUME NEW x \in Emails PROVE MailAccounted!(x)'
  BY DEF MailAccounted
<1>5. MailAccounted!(x) /\ copies \in [Emails -> Nat] /\ orphans \in [Emails -> Nat]
  BY DEF MailAccounted, IInv, TypeOK
<1>6. CASE x # e
  <2>1. orphans'[x] = orphans[x]
    BY <1>2, <1>5, <1>6
  <2>2. Unrecorded(x)' = Unrecorded(x)
    BY <1>0, <1>4, <1>6 DEF Unrecorded
  <2> QED BY <1>2, <1>5, <2>1, <2>2
<1>7. CASE x = e
  <2>1. Unrecorded(e)' = {}
    BY <1>3, <1>4
  <2>2. orphans'[e] = orphans[e] + (IF holds THEN 1 ELSE 0)
    BY <1>2, <1>5
  <2>3. Cardinality(Unrecorded(e)) = IF holds THEN 1 ELSE 0
    BY <1>3
  <2> QED BY <1>0, <1>2, <1>3, <1>5, <1>7, <2>1, <2>2, <2>3
<1> QED BY <1>6, <1>7

\* Every accepted copy is accounted for: by the SENT record, by the one transaction
\* that is about to record it, or by a fault.  A prospect gets a second copy only
\* after a crash between send and commit, or a provider answer that was lost.
THEOREM MailIsAccounted == Spec => []MailAccounted
<1>1. Init => MailAccounted
  <2>1. Init => \A e \in Emails : Unrecorded(e) = {}
    BY DEF Init, Unrecorded
  <2>2. Init => \A e \in Emails : copies[e] = 0 /\ orphans[e] = 0 /\ emailStatus[e] = "absent"
    BY DEF Init
  <2> QED BY <2>1, <2>2, FS_EmptySet DEF MailAccounted
<1>2. ASSUME IInv, MailAccounted, [Next]_vars PROVE MailAccounted'
  <2> USE <1>2
  <2>1. CASE \E w \in Workers : WorkerStep(w)
    <3>1. PICK w \in Workers : WorkerStep(w)
      BY <2>1
    <3>2. CASE \/ \E e \in Emails : Claim(w, e)
               \/ NoAccount(w) \/ Reject(w) \/ Trip(w) \/ Postpone(w) \/ Allow(w)
      BY <3>2, BeforeDispatch
    <3>3. CASE \E reply \in Replies : Dispatch(w, reply)
      BY <3>3, DispatchAccounted
    <3>4. CASE CommitSent(w)
      BY <3>4, CommitSentAccounted
    <3>5. CASE CommitRetry(w) \/ CommitFailed(w) \/ CommitPostponed(w)
      BY <3>5, OtherCommitAccounted
    <3>6. CASE Abort(w)
      BY <3>6, AbortAccounted
    <3> QED BY <3>1, <3>2, <3>3, <3>4, <3>5, <3>6 DEF WorkerStep
  <2>2. CASE ~\E w \in Workers : WorkerStep(w)
    <3>1. workerVars' = workerVars /\ copies' = copies /\ orphans' = orphans
      BY <2>2 DEF Next, vars, GenerateRead, Generate, GenerateAbort, EnqueueFollowup, Pause,
                  OptOut, RequestStep,
                  StartActivate, StartSelect, StartEnqueue, StartAbort, Maintain, Tick, mailVars
    <3>2. \A e \in Emails : emailStatus'[e] = "sent" <=> emailStatus[e] = "sent"
      BY <2>2, OnlyCommitSentCounts DEF WorkerStep
    <3>3. \A e \in Emails : Unrecorded(e)' = Unrecorded(e)
      BY <3>1 DEF Unrecorded, workerVars
    <3> QED BY <3>1, <3>2, <3>3, MailFrame
  <2> QED BY <2>1, <2>2
<1>3. IInv /\ MailAccounted /\ [Next]_vars => MailAccounted'
  BY <1>2
<1> QED BY <1>1, <1>3, InductiveInvariant, PTL DEF Spec

-----------------------------------------------------------------------------
(* Duplicates and faults                                                   *)

\* The copies that the database never recorded, numbered for each record.
Orphaned == UNION {{e} \X (1..orphans[e]) : e \in Emails}

\* What README.md:25 ("never duplicate prospect emails") really amounts to: a record
\* has one copy more than it has orphans, and over all records, campaigns and workers
\* there are no more orphans than lost answers and rolled back cycles.
DuplicatesHaveFaults ==
    /\ \A e \in Emails : copies[e] <= orphans[e] + 1
    /\ Cardinality(Orphaned) <= faults

\* A step makes at most one orphan, and then it is a fault.
LEMMA OrphansAreFaults ==
  ASSUME IInv, [Next]_vars
  PROVE  \/ orphans' = orphans /\ faults' \in {faults, faults + 1}
         \/ /\ faults' = faults + 1
            /\ \E e \in Emails : orphans' = [orphans EXCEPT ![e] = @ + 1]
<1> USE DEF mailVars
<1>1. CASE \E w \in Workers : WorkerStep(w)
  <2>1. PICK w \in Workers : WorkerStep(w)
    BY <1>1
  <2>2. CASE \E reply \in Replies : Dispatch(w, reply)
    <3>1. PICK reply \in Replies : Dispatch(w, reply)
      BY <2>2
    <3>2. PICK e \in Emails : e = tx[w].job
      BY <3>1, DispatchTarget
    <3> QED BY <3>1, <3>2 DEF Dispatch
  <2>3. CASE Abort(w)
    <3>1. PICK e \in Emails : e = tx[w].job
      BY <2>3 DEF Abort, IInv, FlightIsCurrent
    <3> QED BY <2>3, <3>1 DEF Abort
  <2>4. CASE \/ \E e \in Emails : Claim(w, e)
             \/ NoAccount(w) \/ Reject(w) \/ Trip(w) \/ Postpone(w) \/ Allow(w)
    BY <2>4 DEF Claim, NoAccount, Reject, Trip, Postpone, Allow
  <2>5. CASE CommitSent(w) \/ CommitRetry(w) \/ CommitFailed(w) \/ CommitPostponed(w)
    BY <2>5 DEF CommitSent, CommitRetry, CommitFailed, CommitPostponed
  <2> QED BY <2>1, <2>2, <2>3, <2>4, <2>5 DEF WorkerStep
<1>2. CASE ~\E w \in Workers : WorkerStep(w)
  BY <1>2 DEF Next, vars, GenerateRead, Generate, GenerateAbort, EnqueueFollowup, Pause,
     OptOut, RequestStep, StartActivate, StartSelect, StartEnqueue, StartAbort, Maintain, Tick
<1> QED BY <1>1, <1>2

\* One orphan more is one more element.
LEMMA OneMoreOrphan ==
  ASSUME IInv, IsFiniteSet(Orphaned), NEW e \in Emails,
         orphans' = [orphans EXCEPT ![e] = @ + 1]
  PROVE  IsFiniteSet(Orphaned') /\ Cardinality(Orphaned') = Cardinality(Orphaned) + 1
<1>1. orphans \in [Emails -> Nat]
  BY DEF IInv, TypeOK
<1> DEFINE new == <<e, orphans[e] + 1>>
<1>2. \A x, n : <<x, n>> \in Orphaned <=> x \in Emails /\ n \in 1..orphans[x]
  BY DEF Orphaned
<1>3. \A x, n : <<x, n>> \in Orphaned' <=> x \in Emails /\ n \in 1..orphans'[x]
  BY DEF Orphaned
<1>4. new \notin Orphaned
  BY <1>1, <1>2
<1>5. \A x, n : <<x, n>> \in Orphaned' <=> <<x, n>> \in Orphaned \/ <<x, n>> = new
  <2> SUFFICES ASSUME NEW x \in Emails, NEW n
               PROVE  n \in 1..orphans'[x] <=> n \in 1..orphans[x] \/ <<x, n>> = new
    BY <1>2, <1>3
  <2>1. CASE x = e
    BY <1>1, <2>1
  <2>2. CASE x # e
    BY <1>1, <2>2
  <2> QED BY <2>1, <2>2
<1>6. \A m \in Orphaned \cup Orphaned' : m = <<m[1], m[2]>>
  BY DEF Orphaned
<1>7. Orphaned' = Orphaned \cup {new}
  BY <1>5, <1>6
<1> QED BY <1>4, <1>7, FS_AddElement

\* Every copy of a record beyond the first has a fault of its own.
THEOREM DuplicatesAreFaults == Spec => []DuplicatesHaveFaults
<1> DEFINE Few == IsFiniteSet(Orphaned) /\ Cardinality(Orphaned) <= faults
<1>1. Init => Few
  <2>1. Init => Orphaned = {}
    BY DEF Init, Orphaned
  <2>2. Init => faults = 0
    BY DEF Init
  <2> QED BY <2>1, <2>2, FS_EmptySet
<1>2. ASSUME IInv, [Next]_vars, Few PROVE Few'
  <2>1. faults \in Nat /\ Cardinality(Orphaned) \in Nat
    BY <1>2, FS_CardinalityType DEF IInv, TypeOK
  <2>2. CASE orphans' = orphans /\ faults' \in {faults, faults + 1}
    BY <1>2, <2>1, <2>2 DEF Orphaned
  <2>3. CASE faults' = faults + 1 /\ \E e \in Emails : orphans' = [orphans EXCEPT ![e] = @ + 1]
    <3>1. PICK e \in Emails : orphans' = [orphans EXCEPT ![e] = @ + 1]
      BY <2>3
    <3>2. IsFiniteSet(Orphaned') /\ Cardinality(Orphaned') = Cardinality(Orphaned) + 1
      BY <1>2, <3>1, OneMoreOrphan
    <3> QED BY <1>2, <2>1, <2>3, <3>2
  <2> QED BY <1>2, <2>2, <2>3, OrphansAreFaults
<1>3. ASSUME IInv, MailAccounted, NEW e \in Emails PROVE copies[e] <= orphans[e] + 1
  <2>1. /\ copies[e] \in Nat /\ orphans[e] \in Nat
        /\ copies[e] = orphans[e] + (IF emailStatus[e] = "sent" THEN 1 ELSE 0)
                                  + Cardinality(Unrecorded(e))
    BY <1>3 DEF IInv, TypeOK, MailAccounted
  <2>2. CASE Unrecorded(e) = {}
    BY <2>1, <2>2, FS_EmptySet
  <2>3. CASE Unrecorded(e) # {}
    <3>1. PICK w \in Workers : phase[w] = "settled" /\ tx[w].job = e /\ tx[w].outcome = "sent"
      BY <2>3 DEF Unrecorded
    <3>2. Unrecorded(e) = {w}
      BY <1>3, <3>1, OneUnrecorded DEF Busy
    <3>3. emailStatus[e] = "queued"
      BY <1>3, <3>1 DEF Busy, IInv, FlightIsCurrent, JobMatchesEmail
    <3> QED BY <2>1, <3>2, <3>3, FS_Singleton
  <2> QED BY <2>2, <2>3
<1>4. IInv /\ Few /\ [Next]_vars => Few'
  BY <1>2
<1>5. IInv /\ MailAccounted /\ Few => DuplicatesHaveFaults
  BY <1>3 DEF DuplicatesHaveFaults
<1> QED BY <1>1, <1>4, <1>5, InductiveInvariant, MailIsAccounted, PTL DEF Spec

-----------------------------------------------------------------------------
(* Messages after an opt-out                                               *)

\* The campaigns that write to the lead, and those with a cleared message for it.
Writers(l) == {CampaignOf[e] : e \in {x \in Emails : LeadOf[x] = l}}
Cleared(l) == {CampaignOf[tx[w].job] :
                  w \in {v \in Workers : phase[v] = "cleared" /\ LeadOf[tx[v].job] = l}}

\* A lead that opted out is in suppression_entries; the messages that left since and
\* those that may still leave are of different campaigns.
LateInv ==
    \A l \in Leads :
        /\ l \notin optedOut => late[l] = 0
        /\ l \in optedOut => /\ l \in suppressed
                             /\ late[l] + Cardinality(Cleared(l)) <= Cardinality(Writers(l))

\* The campaigns with a cleared message write to the lead; there are finitely many.
LEMMA ClearedWrite ==
  ASSUME IInv, NEW l \in Leads
  PROVE  /\ IsFiniteSet(Writers(l)) /\ IsFiniteSet(Cleared(l))
         /\ Cleared(l) \subseteq Writers(l)
         /\ Cardinality(Cleared(l)) <= Cardinality(Writers(l))
<1> DEFINE Mine == {x \in Emails : LeadOf[x] = l}
           f == [e \in Mine |-> CampaignOf[e]]
<1>1. IsFiniteSet(Mine)
  BY RowsAssumption, FS_Subset
<1>2. f \in Surjection(Mine, Writers(l))
  BY DEF Surjection, Writers
<1>3. IsFiniteSet(Writers(l))
  BY <1>1, <1>2, FS_Surjection
<1>4. Cleared(l) \subseteq Writers(l)
  BY DEF Cleared, Writers, IInv, FlightIsCurrent, Busy
<1> QED BY <1>3, <1>4, FS_Subset

\* A step that clears no message for a lead that has opted out, and sends none.
LEMMA LateFrame ==
  ASSUME IInv, LateInv, UNCHANGED <<late, optedOut, suppressed>>,
         \A w \in Workers : phase'[w] = "cleared" =>
            \/ phase[w] = "cleared" /\ tx'[w].job = tx[w].job
            \/ LeadOf[tx'[w].job] \notin optedOut
  PROVE  LateInv'
<1> SUFFICES ASSUME NEW l \in Leads, l \in optedOut
             PROVE  late[l] + Cardinality(Cleared(l)') <= Cardinality(Writers(l))
  BY DEF LateInv, Writers
<1>1. Cleared(l)' \subseteq Cleared(l)
  BY DEF Cleared
<1>2. IsFiniteSet(Cleared(l)) /\ IsFiniteSet(Writers(l))
  BY ClearedWrite
<1>3. Cardinality(Cleared(l)') <= Cardinality(Cleared(l)) /\ IsFiniteSet(Cleared(l)')
  BY <1>1, <1>2, FS_Subset
<1>4. late[l] + Cardinality(Cleared(l)) <= Cardinality(Writers(l)) /\ late[l] \in Nat
  BY DEF LateInv, IInv, TypeOK
<1>5. /\ Cardinality(Cleared(l)) \in Nat /\ Cardinality(Cleared(l)') \in Nat
      /\ Cardinality(Writers(l)) \in Nat
  BY <1>2, <1>3, FS_CardinalityType
<1> QED BY <1>3, <1>4, <1>5

\* The dispatch turns a cleared message, the only one of its campaign, into a late one.
LEMMA DispatchLate ==
  ASSUME IInv, LateInv, NEW w \in Workers, NEW reply \in Replies, Dispatch(w, reply)
  PROVE  LateInv'
<1> DEFINE e == tx[w].job
           c == CampaignOf[e]
<1>1. /\ phase[w] = "cleared" /\ phase' = [phase EXCEPT ![w] = "settled"]
      /\ UNCHANGED <<optedOut, suppressed>>
      /\ \/ late' = late
         \/ LeadOf[e] \in optedOut /\ late' = [late EXCEPT ![LeadOf[e]] = @ + 1]
      /\ \A v \in Workers : v # w => tx'[v] = tx[v]
  BY DEF Dispatch, Settle, entityVars, IInv, TypeOK
<1>2. /\ phase \in [Workers -> {"idle", "claimed", "cleared", "settled"}]
      /\ late \in [Leads -> Nat]
      /\ Busy(w) /\ e \in Emails /\ LeadOf[e] \in Leads
      /\ \A v \in Workers : phase[v] = "cleared" /\ CampaignOf[tx[v].job] = c => v = w
  BY <1>1, RowsAssumption, ZenonT(60) DEF IInv, TypeOK, Busy, FlightIsCurrent
<1>3. \A v \in Workers : phase'[v] = "cleared" <=> v # w /\ phase[v] = "cleared"
  BY <1>1, <1>2
<1>4. CASE late' = late
  BY <1>1, <1>3, <1>4, LateFrame
<1>5. CASE LeadOf[e] \in optedOut /\ late' = [late EXCEPT ![LeadOf[e]] = @ + 1]
  <2> SUFFICES ASSUME NEW l \in Leads
               PROVE  /\ l \notin optedOut => late'[l] = 0
                      /\ l \in optedOut =>
                            /\ l \in suppressed
                            /\ late'[l] + Cardinality(Cleared(l)') <= Cardinality(Writers(l))
    BY <1>1 DEF LateInv, Writers
  <2>1. /\ IsFiniteSet(Cleared(l)) /\ IsFiniteSet(Writers(l))
        /\ Cardinality(Cleared(l)) \in Nat /\ Cardinality(Writers(l)) \in Nat
    BY ClearedWrite, FS_CardinalityType
  <2>2. CASE l # LeadOf[e]
    <3>1. Cleared(l)' = Cleared(l)
      BY <1>1, <1>3, <2>2 DEF Cleared
    <3>2. late'[l] = late[l]
      BY <1>2, <1>5, <2>2
    <3> QED BY <3>1, <3>2 DEF LateInv
  <2>3. CASE l = LeadOf[e]
    <3>1. Cleared(l)' = Cleared(l) \ {c} /\ c \in Cleared(l)
      BY <1>1, <1>2, <1>3, <2>3 DEF Cleared
    <3>2. Cardinality(Cleared(l)') = Cardinality(Cleared(l)) - 1
      <4>1. Cardinality(Cleared(l) \ {c}) = Cardinality(Cleared(l)) - 1
        <5> HIDE DEF c
        <5> QED BY <2>1, <3>1, FS_RemoveElement
      <4> QED BY <3>1, <4>1
    <3>3. late'[l] = late[l] + 1 /\ late[l] \in Nat
      BY <1>2, <1>5, <2>3
    <3> QED BY <1>5, <2>1, <2>3, <3>2, <3>3 DEF LateInv
  <2> QED BY <2>2, <2>3
<1> QED BY <1>1, <1>4, <1>5

\* The policy clears nobody who is on the suppression list.
LEMMA AllowLate == ASSUME IInv, LateInv, NEW w \in Workers, Allow(w) PROVE LateInv'
<1>1. /\ phase' = [phase EXCEPT ![w] = "cleared"] /\ tx' = tx
      /\ LeadOf[tx[w].job] \notin suppressed
      /\ UNCHANGED <<late, optedOut, suppressed>>
      /\ Busy(w)
  BY DEF Allow, SeenOptedOut, entityVars, mailVars, Busy
<1>2. LeadOf[tx[w].job] \in Leads
  BY <1>1, RowsAssumption DEF IInv, FlightIsCurrent
<1>3. LeadOf[tx[w].job] \notin optedOut
  BY <1>1, <1>2 DEF LateInv
<1>4. \A v \in Workers : v # w => phase'[v] = phase[v]
  BY <1>1 DEF IInv, TypeOK
<1> QED BY <1>1, <1>3, <1>4, LateFrame

\* The other steps of a worker end messages or have none yet.
LEMMA WorkerLate ==
  ASSUME IInv, LateInv, NEW w \in Workers, WorkerStep(w) PROVE LateInv'
<1>1. CASE \E reply \in Replies : Dispatch(w, reply)
  BY <1>1, DispatchLate
<1>2. CASE Allow(w)
  BY <1>2, AllowLate
<1>3. CASE \/ \E e \in Emails : Claim(w, e)
           \/ NoAccount(w) \/ Reject(w) \/ Trip(w) \/ Postpone(w)
           \/ CommitSent(w) \/ CommitRetry(w) \/ CommitFailed(w) \/ CommitPostponed(w)
           \/ Abort(w)
  <2>1. UNCHANGED <<late, optedOut, suppressed>>
    BY <1>3 DEF Claim, NoAccount, Reject, Trip, Postpone, CommitSent, CommitRetry,
                CommitFailed, CommitPostponed, Abort, entityVars, mailVars
  <2>2. PICK p \in {"idle", "claimed", "settled"} : phase' = [phase EXCEPT ![w] = p]
    BY <1>3 DEF Claim, NoAccount, Reject, Trip, Postpone, CommitSent, CommitRetry,
                CommitFailed, CommitPostponed, Abort, Settle, Finish
  <2>3. \E t : tx' = [tx EXCEPT ![w] = t]
    BY <1>3 DEF Claim, NoAccount, Reject, Trip, Postpone, CommitSent, CommitRetry,
                CommitFailed, CommitPostponed, Abort, Settle, Finish
  <2>4. \A v \in Workers : phase'[v] = "cleared" =>
            phase[v] = "cleared" /\ tx'[v].job = tx[v].job
    BY <2>2, <2>3 DEF IInv, TypeOK
  <2> QED BY <2>1, <2>4, LateFrame
<1> QED BY <1>1, <1>2, <1>3 DEF WorkerStep

\* A lead opts out: whatever is cleared for it may still leave.
LEMMA OptOutLate ==
  ASSUME IInv, LateInv, OptOutRoutes = {"suppression"}, NEW k \in Leads, OptOut(k)
  PROVE  LateInv'
<1>1. /\ k \notin optedOut /\ optedOut' = optedOut \cup {k}
      /\ suppressed' = suppressed \cup {k} /\ UNCHANGED <<late, phase, tx>>
  BY DEF OptOut, mailVars, workerVars
<1> SUFFICES ASSUME NEW l \in Leads, l \in optedOut'
             PROVE  late[l] + Cardinality(Cleared(l)) <= Cardinality(Writers(l))
  BY <1>1 DEF LateInv, Cleared, Writers
<1>2. CASE l \in optedOut
  BY <1>2 DEF LateInv
<1>3. CASE l \notin optedOut
  <2>1. late[l] = 0
    BY <1>3 DEF LateInv
  <2>2. /\ Cardinality(Cleared(l)) <= Cardinality(Writers(l))
        /\ Cardinality(Cleared(l)) \in Nat
    BY ClearedWrite, FS_CardinalityType
  <2> QED BY <2>1, <2>2
<1> QED BY <1>2, <1>3

\* When opt-outs are recorded in suppression_entries, at most one message of each
\* campaign that writes to the lead leaves after its opt-out stands.
THEOREM LateMailIsBounded ==
  ASSUME OptOutRoutes = {"suppression"} PROVE Spec => []LateMailBounded
<1>1. Init => LateInv
  BY DEF Init, LateInv
<1>2. ASSUME IInv, LateInv, [Next]_vars PROVE LateInv'
  <2>1. CASE \E w \in Workers : WorkerStep(w)
    BY <1>2, <2>1, WorkerLate
  <2>2. CASE \E l \in Leads : OptOut(l)
    BY <1>2, <2>2, OptOutLate
  <2>3. CASE (~\E w \in Workers : WorkerStep(w)) /\ ~\E l \in Leads : OptOut(l)
    <3>1. UNCHANGED <<late, optedOut, suppressed, phase, tx>>
      BY <1>2, <2>3 DEF Next, vars, GenerateRead, Generate, GenerateAbort, EnqueueFollowup,
             Pause, RequestStep, StartActivate, StartSelect, StartEnqueue, StartAbort,
             Maintain, Tick, mailVars, entityVars, workerVars
    <3> QED BY <1>2, <3>1, LateFrame
  <2> QED BY <2>1, <2>2, <2>3
<1>3. IInv /\ LateInv => LateMailBounded
  <2> SUFFICES ASSUME IInv, LateInv, NEW l \in Leads
               PROVE  late[l] <= Cardinality(Writers(l))
    BY DEF LateMailBounded, Writers
  <2>1. /\ Cardinality(Cleared(l)) \in Nat /\ Cardinality(Writers(l)) \in Nat
        /\ late[l] \in Nat
    BY ClearedWrite, FS_CardinalityType DEF IInv, TypeOK
  <2> QED BY <2>1 DEF LateInv
<1>4. IInv /\ LateInv /\ [Next]_vars => LateInv'
  BY <1>2
<1> QED BY <1>1, <1>3, <1>4, InductiveInvariant, PTL DEF Spec

-----------------------------------------------------------------------------
(* The refinement                                                          *)

DInv == IInv /\ MailAccounted

\* Enqueueing records that were never enqueued is a submission.
LEMMA EnqueueSubmits ==
  ASSUME IInv, NEW S \in SUBSET Emails, Enqueue(S), UNCHANGED copies,
         \A e \in S : jobStatus[e] = "none" => emailStatus[e] = "pending"
  PROVE  \E T \in SUBSET Emails : Delivery!Submit(T)
<1> DEFINE T == {e \in S : jobStatus[e] = "none"}
<1>1. \A e \in T : Stage[e] = "draft"
  BY DEF Stage
<1>2. Stage' = [e \in Emails |-> IF e \in T THEN "queued" ELSE Stage[e]]
  BY DEF Enqueue, QueueRecords, Stage
<1> QED BY <1>1, <1>2 DEF Delivery!Submit

\* A step that changes neither the records' stages nor the copies is a stutter.
LEMMA SameStage ==
  ASSUME emailStatus' = emailStatus, copies' = copies
  PROVE  UNCHANGED <<Stage, copies>>
  BY DEF Stage

\* Every step of a worker is a step of the delivery or a stutter.
LEMMA WorkerDelivers ==
  ASSUME DInv, NEW w \in Workers, WorkerStep(w)
  PROVE  [Delivery!Next]_<<Stage, copies>>
<1> USE DEF DInv
<1>1. CASE \/ \E e \in Emails : Claim(w, e)
           \/ NoAccount(w) \/ Reject(w) \/ Trip(w) \/ Postpone(w) \/ Allow(w)
           \/ CommitRetry(w) \/ CommitPostponed(w) \/ Abort(w)
  <2>1. emailStatus' = emailStatus /\ copies' = copies
    BY <1>1 DEF Claim, NoAccount, Reject, Trip, Postpone, Allow, CommitRetry,
                CommitPostponed, Abort, mailVars
  <2> QED BY <2>1, SameStage
<1>2. CASE \E reply \in Replies : Dispatch(w, reply)
  <2>1. PICK reply \in Replies : Dispatch(w, reply)
    BY <1>2
  <2>2. PICK e \in Emails : e = tx[w].job /\ emailStatus[e] = "queued"
    BY <2>1, DispatchTarget
  <2>3. emailStatus' = emailStatus /\ Stage' = Stage
    BY <2>1 DEF Dispatch, Stage
  <2>4. copies' = copies \/ copies' = [copies EXCEPT ![e] = @ + 1]
    BY <2>1, <2>2 DEF Dispatch
  <2>5. Stage[e] = "queued"
    BY <2>2 DEF Stage
  <2>6. CASE copies' = copies
    BY <2>3, <2>6
  <2>7. CASE copies' = [copies EXCEPT ![e] = @ + 1]
    BY <2>3, <2>5, <2>7 DEF Delivery!Next, Delivery!Transmit
  <2> QED BY <2>4, <2>6, <2>7
<1>3. CASE CommitSent(w) \/ CommitFailed(w)
  <2>1. PICK e \in Emails : e = tx[w].job /\ emailStatus[e] = "queued"
    BY <1>3 DEF CommitSent, CommitFailed, Busy, IInv, FlightIsCurrent, JobMatchesEmail
  <2>2. copies' = copies /\ Stage[e] = "queued"
    BY <1>3, <2>1 DEF CommitSent, CommitFailed, mailVars, Stage
  <2>3. ASSUME NEW s \in {"sent", "failed"}, emailStatus' = [emailStatus EXCEPT ![e] = s]
        PROVE  Stage' = [Stage EXCEPT ![e] = s]
    BY <2>1, <2>3 DEF Stage, IInv, TypeOK
  <2>4. CASE CommitFailed(w)
    <3>1. emailStatus' = [emailStatus EXCEPT ![e] = "failed"]
      BY <2>1, <2>4 DEF CommitFailed
    <3> QED BY <2>2, <2>3, <3>1 DEF Delivery!Next, Delivery!GiveUp
  <2>5. CASE CommitSent(w)
    <3>1. emailStatus' = [emailStatus EXCEPT ![e] = "sent"]
      BY <2>1, <2>5 DEF CommitSent
    <3>2. Busy(w) /\ phase[w] = "settled" /\ tx[w].outcome = "sent"
      BY <2>5 DEF CommitSent, Busy
    <3>3. Cardinality(Unrecorded(e)) = 1
      BY <2>1, <3>2, OneUnrecorded, FS_Singleton
    <3>4. copies[e] > 0
      <4>1. copies[e] = orphans[e] + (IF emailStatus[e] = "sent" THEN 1 ELSE 0)
                                   + Cardinality(Unrecorded(e))
        BY DEF MailAccounted
      <4>2. orphans[e] \in Nat
        BY DEF IInv, TypeOK
      <4> QED BY <2>1, <3>3, <4>1, <4>2
    <3> QED BY <2>2, <2>3, <3>1, <3>4 DEF Delivery!Next, Delivery!Confirm
  <2> QED BY <1>3, <2>4, <2>5
<1> QED BY <1>1, <1>2, <1>3 DEF WorkerStep

\* The send queue implements the delivery: nothing is transmitted before it was
\* submitted or after its record is final, SENT means that a copy was accepted.
THEOREM QueueImplementsDelivery == Spec => ImplementsDelivery
<1>1. Init => Delivery!Init
  BY DEF Init, Delivery!Init, Stage
<1>2. ASSUME DInv, [Next]_vars PROVE [Delivery!Next]_<<Stage, copies>>
  <2> USE <1>2 DEF DInv
  <2>1. CASE \E e \in Emails : GenerateRead(e) \/ Generate(e) \/ GenerateAbort(e)
    <3>1. Stage' = Stage /\ copies' = copies
      BY <2>1 DEF GenerateRead, Generate, GenerateAbort, Stage, mailVars, IInv, TypeOK
    <3> QED BY <3>1
  <2>2. CASE \E e \in Emails : EnqueueFollowup(e)
    <3>1. PICK e \in Emails : EnqueueFollowup(e)
      BY <2>2
    <3>2. \E T \in SUBSET Emails : Delivery!Submit(T)
      BY <3>1, EnqueueSubmits DEF EnqueueFollowup, Selectable, mailVars
    <3> QED BY <3>2 DEF Delivery!Next
  <2>3. CASE \E r \in Requests : RequestStep(r)
    <3>1. PICK r \in Requests : RequestStep(r)
      BY <2>3
    <3>2. CASE StartEnqueue(r)
      <4>1. /\ batch[r] \in SUBSET Emails
            /\ \A e \in batch[r] : jobStatus[e] = "none" => emailStatus[e] = "pending"
        BY <3>2 DEF StartEnqueue, IInv, TypeOK, SelectionIsSafe
      <4>2. \E T \in SUBSET Emails : Delivery!Submit(T)
        BY <3>2, <4>1, EnqueueSubmits DEF StartEnqueue, mailVars
      <4> QED BY <4>2 DEF Delivery!Next
    <3>3. CASE ~StartEnqueue(r)
      <4>1. emailStatus' = emailStatus /\ copies' = copies
        BY <3>1, <3>3 DEF RequestStep, StartActivate, StartSelect, StartAbort, mailVars
      <4> QED BY <4>1, SameStage
    <3> QED BY <3>2, <3>3
  <2>4. CASE \E w \in Workers : WorkerStep(w)
    BY <2>4, WorkerDelivers
  <2>5. CASE \/ \E c \in Campaigns : Pause(c)
             \/ \E l \in Leads : OptOut(l)
             \/ \E old \in SUBSET Emails : Maintain(old)
             \/ Tick \/ UNCHANGED vars
    <3>1. emailStatus' = emailStatus /\ copies' = copies
      BY <2>5 DEF Pause, OptOut, Maintain, Tick, vars, mailVars
    <3> QED BY <3>1, SameStage
  <2> QED BY <2>1, <2>2, <2>3, <2>4, <2>5 DEF Next
<1>3. DInv /\ [Next]_vars => [Delivery!Next]_<<Stage, copies>>
  BY <1>2
<1>4. Spec => []DInv
  BY InductiveInvariant, MailIsAccounted, PTL DEF DInv
<1> QED BY <1>1, <1>3, <1>4, PTL DEF Spec, ImplementsDelivery, Delivery!Spec
=============================================================================
