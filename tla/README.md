# LeadFlow AI in TLA+

LeadFlow AI sends cold e-mail campaigns: leads are imported, enriched from their web sites, given a
generated message, queued, sent through a Gmail account under rate limits, and followed up. This directory
holds TLA+ models of its core, the TLC configurations that check them on small instances, and proofs
that TLAPS checks for every instance. Paths below are relative to `src/`.

## 1. Inventory

| Part | State it keeps | Operations | Correct when |
| --- | --- | --- | --- |
| Durable send queue, `core/queue.py` | `send_jobs`, `send_attempts` | enqueue, reap, claim, complete, fail, log the attempt | record and job never disagree; a record is sent only while queued and ends once; attempts respect the budget |
| Campaign worker, `workers/campaign_worker.py` | one database transaction per cycle | claim, select an account, ask the policy, send, commit | what it read is still true when it commits; nothing leaves a paused campaign |
| Campaign API, `api/routes.py` | `campaigns` | create, start (two transactions), pause, delete a lead | concurrent starts enqueue a record once; a pause is final for mail once it has answered |
| Sending policy, `services/sending_policy.py` | counters in `email_provider_accounts` | evaluate (7 rules), record_send | caps and pacing hold between resets |
| Maintenance worker, `workers/maintenance_worker.py` | markers of the last reset, in the process | reap, reset counters, refresh DNS, purge | no reset frees more than it should; the purge resurrects nothing |
| Provider adapter, `modules/email_sender/provider_interface.py` | none | send | every answer is classified |
| E-mail generation, `modules/ai_engine/` | `email_records` | generate one or a batch, generate a follow-up | one initial message per lead |
| Follow-up scheduler, `modules/scheduler/` | none | select due leads, generate, enqueue | follow-up 1, then 2, then none |
| Enrichment, `workers/enrichment_worker.py`, `modules/lead_enrichment/` | `enrichment_jobs`, `enrichment_results`, browser semaphore | request one or all pending, claim, fetch over HTTP hop by hop, fall back to a browser, extract, store | one fetch per lead at a time, an audit row for each, every job ends; at most three browsers per process |
| Lead ingestion, `modules/lead_ingestion/` | `leads` | parse, validate, eliminate duplicates, insert, delete | a response counts exactly what was inserted, no valid lead is lost between two imports |
| Reply tracking, `modules/reply_tracker/` | `replies` | classify, update the lead | an opt-out is never read as interest |
| Domain health, `services/domain_health.py`, `api/routes.py` | `domains` | inspect, save, refresh when stale | the stored flags, score and verdict belong to one report |
| Authentication and tenancy, `core/security.py`, `database/database.py`, `api/routes.py` | `organizations`, `users`, `memberships`, accounts | seed at startup, log in, authorize, register an account | the tenant appears whole; tokens say what the tables say |
| Dashboard, metrics, deployment | - | wiring | - |

**How they interact.** The API, the campaign workers, the enrichment worker and the maintenance worker are separate
operating-system processes (`deploy/systemd`). They share nothing but PostgreSQL at READ COMMITTED. There are no
messages between them: every interaction is a committed row read by another process, and every hard
behaviour is a question of which transaction saw which commit. The provider is the one party outside the
database: its effect is not rolled back.

**What is hard.**
- A worker's cycle is one transaction around a slow external call. A crash rolls back the claim itself, so
  PROCESSING is never committed and the lease and the reaper have nothing to do; the message, though, is out.
- `SELECT ... FOR UPDATE SKIP LOCKED` is on the join of jobs and campaigns. It locks the campaign row as well,
  which is why `total_sent = total_sent + 1` in Python is exact and why pause waits - and why a campaign
  has one message in flight whatever the number of workers.
- The account row and the lead row are read without a lock and written later: lost updates, overwritten opt-outs,
  undone resets.
- Every request is several transactions: start activates, commits, selects, enqueues, commits.
- The enrichment worker holds its job's row in one transaction and enriches the lead in another, on a second connection. Neither
  PostgreSQL nor Python sees that one waits for the other.
- Look-up and insert are separate statements (imports, accounts, domains, the seed of the tenant); only a unique key stands between them.
- The reset markers live in a process that can restart.

`PROJECT.json` lists the hazards one by one, each at its line and with the properties that would notice.

## 2. Modules

| Module | What it is |
| --- | --- |
| `SendQueue` | the queue, the start, pause, generation and follow-up requests, the campaign workers and the purge |
| `EmailDelivery` | the abstract promise to a prospect: at-least-once while queued, final outcomes |
| `MCSendQueue` | values for the rows of the small instances |
| `RateLimits` | one account row under workers and maintenance worker, with a clock |
| `LeadFunnel` | a lead's status under enrichment, batch generation, sending and follow-ups |
| `Enrichment` | request threads and enrichment workers with their locks, redirects and browser permits; deletion; deaths |
| `EnrichmentEffects` | the abstract promise to readers of the database: enriched with its audit row in one step, a job finished in one step |
| `LeadIngestion` | concurrent imports of CSV files and sheets, deletion of leads |
| `Tenancy` | processes that seed the tenant, logins, the context of a request, registration of an account |
| `DomainHealth` | domain checks and the maintenance worker's refresh over one row |
| `MCEnrichment`, `MCLeadIngestion`, `MCDomainHealth` | job numbers, files and reports of the instances |
| `SendQueue_proofs` | the inductive invariant of `SendQueue` and what follows from it |
| `SendQueueMail_proofs` | pause, finality, `total_sent`, mail accounting, duplicates, the audit trail, late mail, the refinement of `EmailDelivery` |
| `RateLimits_proofs` | types and limits of the row, for any number of workers; caps, pacing and the bound of a day, for one worker on the account |
| `LeadFunnel_proofs` | the funnel's invariants, and the bound on initial messages |
| `Enrichment_proofs` | permits, exclusive fetches, audit rows, the refinement of `EnrichmentEffects`, the bound on refetches, who waits for whom, the length of a call |
| `LeadIngestion_proofs`, `Tenancy_proofs`, `DomainHealth_proofs` | the safety properties of these modules; for `Tenancy`, that seeding cannot deadlock and never goes back |

### SendQueue

The variables are the committed database. A worker's uncommitted transaction is `tx[w]`: the job and the values it
read at the claim; `phase[w]` is its position in `_execute_job`:

    idle --Claim--> claimed --Allow--> cleared --Dispatch--> settled --Commit*--> idle
                       `--NoAccount, Reject, Trip, Postpone--> settled

`Abort` leaves any of these states without a trace in the database. `orphans` counts the accepted messages that the
database does not know of afterwards, because of an abort, of a lost provider answer, or of a success without a message id (the reply "unnamed": the worker wants both,
and ends the job FAILED). `Claim` contains the reap,
the claim query, the attempt increment and the reads of record, lead and campaign, which no other process can
separate in a way that matters (the rows but the lead's are locked, and the lead's read is one statement). Each
`Commit*` is the whole of `complete_send_job`, of `fail_send_job` or of the postponement, with the columns that the
ORM writes: the lead is not written when it was read as EMAILED already. Each way out of the policy is an action of its
own; whether an account exists, decrypts, or is at a limit is nondeterministic here (`RateLimits` models the
limits). `Claim` holds the locks of the job and of the campaign row until the transaction ends; `Locked(c)` therefore
guards every action that updates the campaign row or inserts a row with a foreign key to it.

A start request is `StartActivate` (commit), `StartSelect` (the SELECT), `StartEnqueue` (the INSERTs, one commit).
`StartAbort` is the second transaction failing on the unique key or the API process dying. A generator is
`GenerateRead`, then `Generate` or `GenerateAbort`, with the language model's answer in between.
`Maintain(old)` is one maintenance cycle as far as jobs are concerned; the records it may purge are those no
start request holds, because a request is not 30 days long.

A job is identified with its record, because its idempotency key is a function of the record and is unique.
Time is relative: `wait[e]` counts down. History variables (`copies`, `orphans`, `optedOut`, `late`, `faults`) record
what the outside world saw and no guard of the program reads them, `faults` apart, which bounds the faults.

Abstracted: organizations (every query is filtered by one; the model is one organization), the message
text, message ids (`status = SENT` stands for `status = SENT and provider_message_id`, which are written together),
the worker id in the lease, and two development modes: the SQLite branch, in which the claim takes no lock, and the mock provider that a worker without an account
uses outside production (campaign_worker.py:121-124), which also skips the policy (line 141). In the models a worker without an account retries, as in production.
Which leads the scheduler selects is left open here (`LeadFunnel` models it): it may follow up any lead that is not UNSUBSCRIBED when
the generator reads it.

### EmailDelivery

Each record is a draft, queued, sent or failed, with a number of copies the provider took. `Submit`, `Transmit`
(may repeat), `Confirm` (needs a copy) and `GiveUp` are its steps. The mapping takes PENDING and absent records for drafts
and drops jobs, workers, locks, retries and requests. The point of the abstraction is what it does not
allow: mail before the start, mail after an outcome, SENT without a copy, a change of outcome.

### RateLimits

`account` is the committed row; `seen[w]` and `draft[w]` are the row as the worker's session loaded and changed it, because
a session writes the columns that it changed, with absolute values. `Select` reads the row, `Evaluate` is the day reset and
rules 5 to 7, `Dispatch` the provider, `CommitSent` `record_send` and the commit, `CommitSettled` every other end of the
cycle. The maintenance cycle is `ResetBegin` (UPDATE; the markers move), then `ResetCommit` or `ResetRollback`: it keeps the
row lock in between, so a worker with something to write waits. `Restart` forgets the markers. The hour marker is the hour
of the day, the day marker the date, as in the code. `sinceDay` and `sinceHour` count the messages since the counter
was last reset by anyone; a reset by `Evaluate` counts when it is decided. `sentAt` is the sequence of the ticks at which a message
was accepted. All three are history.

### LeadFunnel

`SendQueue` asks what happens to a record; `LeadFunnel` asks which records come into being. Records are therefore counted, by lead,
kind and stage (`mail`), and the queue is reduced to one message in flight (`flight`), which `FlightIsCurrent` of `SendQueue` justifies for leads
of one campaign. `leadStatus` is what everybody reads and writes:

- `Enrich` is one `enrich_lead`, whose transaction locks the lead from its first flush; it writes ENRICHED whatever it finds.
- `GenSelect` is the first transaction of `generate_emails_batch`, `GenSkip` or `GenRead` the second's read of the lead, `GenCommit` its commit
  after the model's answer, `GenAbort` its failure, alone or with the whole request. `draft[g].seen` is the status as read, because the ORM
  emits no UPDATE for a value that has not changed.
- `Start`, `SendClaim` and `SendFail`, `SendCommit`, `SendAgain` are the queue, with the read of the lead at the claim.
- `SchedSelect` is the selection of a scheduler pass. For each lead, `FollowRead` reads lead and original and asks the model for a text, `FollowGenerate` stores the
  record, `FollowEnqueue` is the transaction that enqueues it. `FollowSkip`, `FollowFail` (no text, or a failing transaction, after which a stored record stays PENDING) and
  `SchedEnd` are the other ends of a lead, and of a pass. Nothing in the repository starts the scheduler; the model assumes that somebody does, from
  time to time.
- `Age` lets a SENT record pass the cutoff. `Answer` is an operator or a reply tracker.

The statuses that no running code assigns (QUEUED, FOLLOWUP_2_SENT) are left out; FOLLOWUP_1_SENT stays, because the scheduler asks for it.
`returned` is a history variable: the number of times an enrichment made a lead eligible again. Only the run's bound reads it.

### Enrichment

`lead`, `results` and `job` are the committed rows; `owner` and `holder` are the row locks of leads and jobs, because it is by locks that
requests, workers and deletions meet. `pc[a]` is the position of a thread or worker in `enrich_lead` and the pipeline:

    idle --Take--> open --> flush --Flush--> http --Answered--> useful | fallback --Acquire--> browser --Browse--> useful | useless
                      `--> mark --Mark-->     `--Redirected--> http    `--NoBrowser--> useless       --Store--> idle | succeeded | failed

`RequestOne`, `RequestPending` with `NextPending` are the two forms of the API's request, `Claim` and `CloseJob` the begin and the end of the
worker's transaction around the call. `Flush` is the UPDATE to ENRICHING: not committed, so that its only effect outside is the lock.
`Store` is the audit row and the lead in one commit, or its failure. The semaphore `free` belongs to a process; the model has one API process and any
number of worker processes, because API processes share nothing but rows, which threads share as well. `DeleteLead` locks the lead and
`Cascade` waits for the jobs. `Crash` rolls back what the process had open. The mapping to `EnrichmentEffects` is the identity on the committed rows:
what is hidden is the locks, the calls and the pool.

`Populations` says which leads an instance may have, `Listed` which of them have a website column that is not NULL, and `Sites` which of these
have an address in it: `RequestPending` selects an empty string, `Open` finds no website in it. A request for an id that does not exist ends at once with False and is left out.
A failing commit of the job's transaction is a `Crash` without a death: both roll the job back and leave the lead's commit. The statuses after ENRICHED are abstracted to
it (`LeadFunnel` has them), which `EnrichedIsAudited` relies on. `Stuck` is the one wait that nothing ends: a deletion that holds the lead, and the worker that holds the job of
the lead and waits, at the UPDATE of the lead, for the lead.

A page is of use or not; the response that decides whether a browser is tried is enumerated (`Responses`), and so are the features that make the
score (`Features`, `Confidence`). URL validation is an outcome (`Rejected`), also after a redirect.

### LeadIngestion

`Upload` takes a file, `Validate` is one turn of the loop of `validate_leads`, `LookUp` one turn of the loop of look-ups with its error path, `Commit` the flush
and commit against `uq_org_lead_email`, `Fail` every other end. `lead[e]` is the import that created the row, which serves as the row's id: one import creates an address once.
`FindLead` and `DeleteLead` are the two statements of a delete request. CSV headers go through the alias table, sheet headers do not. `gone` and `dropped`
record deletions; no guard reads them. That the requests of `Deleters` and `Imports` are made once each is the bound.

### Tenancy

`Start` to `SeedCommit` are `init_db` after the tables exist, one statement per action; `newOrg` and `newUser` are the uncommitted inserts, for which an insert of the same key waits.
`SeedFault` is the `except` that takes any error for a concurrent seed. `ReadUser` and `IssueToken` are the login, `Authorize` is `get_auth_context`
with a token or with the API key and `require_roles`, `FindAccount` and `InsertAccount` the registration of a sender account. Ids come from a
sequence that skips numbers after a rollback, hence the choice from `Ids`; the code's default id 1 need not be the tenant's.

### DomainHealth

`Inspect` asks DNS, `LoadDomain` reads the row, `SaveDomain` writes it: the ORM writes those columns that differ from what was read (`Updated`), and an insert is refused by
`uq_org_domain`. `ReadStale`, `CommitRefresh` and `AbandonRefresh` are the maintenance worker's refresh, which in this code commits two columns only (see the findings); `Age`
is the passing of a day. `basis` and `raced` are history: the check whose report the row should show, and the checks that another write has overtaken.

## 3. Runs

All runs explore their complete state space.

| Run | Instance | Shows |
| --- | --- | --- |
| `siblings` | 2 records of 1 campaign, 2 workers, 2 start requests, 1 follow-up record, 3 attempts, 2 faults | type and row invariants, `MailAccounted`, `AuditMatchesJob`, `PausedCampaignIsQuiet`, `FinishedIsFinal`, refinement of `EmailDelivery` |
| `rivals` | 2 records of 1 campaign for 1 lead, 2 workers, opt-out by suppression list, 1 fault, `FairSpec` | `LateMailBounded`, `JobsFinish` |
| `rates_single` | 1 worker, 2 days of 2 hours of 2 ticks, 1 fault, 1 restart | `CountersCover`, `EpochCapped`, `Paced`, `DayBounded` |
| `funnel_races` | 1 lead, 2 generators, the worker, the scheduler, 1 re-enrichment, 2 follow-ups of a kind | `TypeOK`, `InitialsBounded`, `StatusMatchesMail`, `FollowupsFollow` |
| `enrichment_pool` | 3 populations (2 leads with jobs, one with a website; 2 websites without jobs; an empty website), 2 threads, 1 worker, 1 permit, 1 redirect, 1 request per lead, 1 death, deletions, `FairSpec` | `PermitsConserved`, `OneFetchPerLead`, `EnrichedIsAudited`, `RefetchesBounded`, `CallsReturn`, `JobsFinish`, refinement of `EnrichmentEffects` |
| `imports` | 2 imports, 2 delete requests, 2 addresses, 1 fault | `ImportedIsExact`, `NothingIsLost`, `EveryRowIsReported`, `KeepsFirstValid`, `RowsAreNotReplaced` |
| `tenant_startup` | 3 processes, 1 login, 2 registrations, 2 ids, 1 fault, 1 death, `FairSpec` | `TenantIsWhole`, `ServingMeansSeeded`, `TokensAreOwners`, `CredentialsAreMine`, `ProcessesServe` |
| `domain_checks` | 3 checks, 4 reports, the maintenance worker | `RowShowsReport`, `LosersWereRaced` |
| `duplicate` | as siblings, 1 worker | violates README.md:25 "never duplicate prospect emails" |
| `rates_shared` | 2 workers, no fault | violates the caps "across multiple worker processes" (LLD.md:126) |
| `funnel_followup` | 1 lead, 1 generator, no re-enrichment | violates the flow EMAILED, FOLLOWUP_1_SENT, FOLLOWUP_2_SENT of PROJECT_REPORT.md:211 |
| `enrichment_delete` | the first population of `enrichment_pool`, 1 thread | violates "continuously pulls and processes EnrichmentJobs" (enrichment_worker.py:33) |

The last four state what the documentation says and find the behaviour that contradicts it; `PROJECT.json` quotes each
line under "findings", next to divergences that have no run of their own and name the code, and where there is one the action, that shows them.

**Bounds.** `MaxFaults` bounds aborts plus lost answers (a second fault on the retry is where the worst histories
lie), `MaxClaims` the attempt number up to which the policy may postpone (without it a job can be postponed for
ever, and `attempts` grows without limit), `MaxTime` the clock, `MaxRestarts` the restarts. Two records suffice: every
race of the queue is between two actors over one record, one campaign or one lead, and the proofs, which
have no such bound, confirm it for most properties. With 3 attempts a record sees a retry, a postponement and the exhaustion of its
budget. In `rivals` both records are of one campaign, so that its two workers compete for them; that several campaigns give one late message each is proved, for any
number. Two hours make a day and two ticks an hour, so that an hour rolls over without the day, and two days are needed
for the resets of one day to meet the mail of another. The bounds of the inequalities are tight: with one worker
`DayBounded` fails when its "+ 1" or its factor 2 is lowered, `EpochCapped` and `Paced` fail without the term for faults, and
`LateMailBounded` is reached. The daily cap of `rates_single` is one message and its hourly limit two, the smallest values for which `DayBounded` is tight: there the daily half of
`EpochCapped` is the one that can fail. A daily cap of two and an hourly limit of one were checked apart (3 hours of 2 ticks, one fault, one restart, 7.7 million states): all
four properties hold, and `EpochCapped` fails there without either of the two tests of the policy. The theorem covers both limits.

In `funnel_races`, `MaxReturns` bounds the re-enrichments and `MaxFollowups` the follow-ups, which the code does not bound. One lead
suffices because leads meet only in a generator's batch and in the message in flight, and the proofs hold for any set of leads. The bound of
`InitialsBounded` is reached: two generators and one return give four initial messages.

`DayBounded` is worth reading: a calendar day carries up to twice the daily cap, because worker and
maintenance worker each reset the counter once a day, plus the cap again for each restart of the maintenance worker. README.md:28 and PROJECT_REPORT.md:130 promise
the cap itself, which is why it is also a finding.

In `enrichment_pool`, one lead with a website and one without, each with a job, meet every branch of `enrich_lead`, and its deletion. A lead is fetched once at a time, so that
two threads meet at the pool only with two websites: this is the second population, where one call can be in the browser while the other finds no permit (`PermitsConserved` fails when `Acquire`
does not ask for one). The three populations are apart because together they are out of reach. One redirect is below, at and above the limit; a death can hit a fetch before or after the store. Several workers differ from a worker and a
thread only in the claim, which skips locked rows; the proofs cover them. In `imports` the files have up to three rows: a duplicate inside the file, an invalid first row, a
header with an alias that fails, a sheet without a column; two deletions can remove a row, let it be imported again and meet the new one. In `tenant_startup`
two processes race and a third starts after them or after a death. In `domain_checks`
three checks are needed for a mixture to arise and to be repaired.

**Fairness** (`FairSpec`). Everything assumed is weak fairness.
- `rivals`: a worker's steps within its cycle, because the loop in `run_worker_loop` runs on and provider and database calls have timeouts; the claim of each job; time.
  Weak fairness of the claim is enough, although a claim of a sibling disables it: each claim ends, and retries and postponements are
  bounded. Users, faults, generation and maintenance owe nothing. `JobsFinish` excuses a job whose campaign is paused (by a user or by the breaker).
- `enrichment_pool`, `enrichment_delete`: a call that runs goes on (every request, the wait for a browser and the statements have timeouts), a batch takes its next lead, a worker
  polls and closes its job, a delete request finishes when it can. `CallsReturn` and `JobsFinish` excuse only the deadlock that `enrichment_delete` exhibits (`Stuck`).
  Requests, deletions and deaths are not forced.
- `tenant_startup`: a process that seeds goes on. Nobody is obliged to start one, or to die.

Deadlock is checked in the runs over `SendQueue`, `RateLimits` and `LeadFunnel`: time ends (`MaxTime`) or waits end, but workers can always poll, and a start request can always be made. The
other modules make each request once or a bounded number of times, so their behaviours end, and their configurations say `CHECK_DEADLOCK FALSE`; that nobody waits
for ever is what `CallsReturn`, `JobsFinish` and `ProcessesServe` check.

**Mutants.** Each property of a passing run has a mutated definition that breaks it (`PROJECT.json`, "mutants"): a missing
campaign lock, a retry condition off by one, a start that also selects FAILED records, an enqueue without the look-up of the
key, a policy without the suppression look-up, a day reset without its test, and so on. They stand in the modules, marked "mutant".

## 4. Proofs

Assumptions: `RowsAssumption`, `LimitsAssumption` and `FunnelAssumption` (rows are finite sets with functions for their foreign keys, limits are
natural numbers, `None` is not a row, and the powers of two that the backoff uses are naturals), `PolicyAssumption`, `NoneAssumption`, and `EnrichmentAssumption`, `PopulationsAssumption`,
`IngestionAssumption`, `TenancyAssumption`, `DomainAssumption`, which say that identities are distinct, files and reports have their shape, jobs are numbered and there is a permit. TLC evaluates
them in every run of the module. Nothing else is assumed: any number of records, campaigns, workers, requests, attempts and faults, except where a theorem states a hypothesis.

- **`IInv`** in `SendQueue_proofs` = `TypeOK` /\ `FlightIsCurrent` /\ `SelectionIsSafe` /\ `JobMatchesEmail` is inductive. None of the
  last three is inductive alone: that the committed
  row can be overwritten from `tx[w]` needs that no other worker of the campaign is busy; that enqueueing an old selection is safe needs
  that a record without a job is PENDING, also after the purge, which deletes jobs of finished records; and that
  needs rows to agree. One lemma per action, then `NextIInv`, then the four theorems.
- **`PauseStopsMail`, `FinishedStaysFinished`**: action properties, from `IInv` and the fact that a busy worker's record is queued.
- **`TotalSentIsExact`**: `total_sent` is written from the value at the claim. By `FlightIsCurrent` this is the current value,
  and the commit adds exactly one record to the finite set of SENT records of the campaign.
- **`MailIsAccounted`**: adds to `IInv` that accepted mail equals orphans, plus the SENT record, plus the
  settled transactions with outcome "sent" for the record, of which there is at most one.
- **`DuplicatesAreFaults`** says what the run `duplicate` leaves of the documentation's "never": no record has more than one copy beyond its orphans, and
  over all records together there are no more orphans than faults (the orphans are numbered, so that each is one element more of a finite set).
- **`QueueImplementsDelivery`**: initial states map to initial states and every step to a step or a stutter. `Confirm` needs a copy,
  which is where `MailAccounted` is used.
- **`AuditsMatchJobs`**: each job's `Trail` is kept by every commit on its own: numbers increase and stay below the attempt count, a transient
  failure is followed by others or by the end, and the last row says how the job ended. `IInv` gives the attempt number in the transaction.
- **`LateMailIsBounded`**, for opt-outs that reach the suppression list: `LateInv` counts the late messages plus the campaigns that have a cleared one for the lead. A clearance
  after the opt-out is impossible, and each late message uses one up; a campaign has one at a time by `FlightIsCurrent`.
- **`RatesTypeOK`**, for any number of workers; **`OneWorkerIsCovered`, `OneWorkerIsCapped`** in `RateLimits_proofs`: for a single worker on the account. `LInv` relates the row the worker has
  read to the committed row and to the messages since the reset: the read is never higher than the mail it stands for, unless a fault hid
  some. The hypothesis `Workers = {w}` is needed: `rates_shared` is the counterexample with two.
- **`OneWorkerIsPaced`**: `PInv` adds that `last_send_at` is the one the worker read, that no more messages are younger than it than faults have hidden (one more
  while the worker has yet to record one), and that a cleared worker's delay is over. A new message shares its window only with messages younger than `last_send_at`, so with at most `faults` of them.
- **`OneWorkerIsDayBounded`**: a day's count is not bounded by anything in the row, because both resets set it back. `DInv` bounds what the row
  still allows today (`Left`) by what the day has not used up (`Spare`: two caps, one more for each restart, and the faults; less today's messages, less the
  cap that a maintenance reset still due or under way will open). A message lowers both by one; a reset by the maintenance worker trades what it was due for what it opens; a
  restart and a fault pay for themselves; the worker's own reset happens only to a row from before today, whose `Left` is a full cap already. The one message that may
  be cleared before midnight and leave after is the `+ 1`. At midnight all is new, and yesterday's count stays (`PastDays`). `HighestCap` exists because a finite set of
  caps is well-founded under strict inclusion of the caps above.
- **`RowNeverShowsOverrun`**, again for any number of workers: the committed counters never exceed their limits. With `rates_shared`, which sends more than that, it says that
  the excess is invisible in the row: increments were lost, and no check of the counters can find out.
- **`FunnelTypeOK`, `StatusIsTrue`, `FollowupsComeAfter`** in `LeadFunnel_proofs`: `FInv` adds to the three that a message in flight is
  counted as queued and that a lead is not NEW any more when a generator has read it as EMAIL_GENERATED; one lemma per action, over lemmas
  on what a new or a moved record does to the counts.
- **`InitialsAreBounded`**: a bound on the records that exist is not inductive, a bound on these plus the records to come is (`Covered`). A
  lead that is not eligible can still get one record from each generator that has selected it or is writing to it (its holders). An
  eligible lead can get one from every generator, which ends the eligibility, and before that one from each generator that read it as
  EMAIL_GENERATED, whose commit leaves the status alone (its keepers). Every commit uses up a holder, every return pays for all generators.

- **`EInv`** in `Enrichment_proofs` = `TypeOK` /\ `PermitLedger` /\ `CallsMatch` /\ `LocksMatch` /\ `JobsMatch`. A call that fetches holds the lock of its lead, whence
  **`FetchesAreExclusive`**; a worker's lead is the one of its job, and "succeeded" means that the lead reads as enriched, whence **`SentJobsAreEnriched`**. **`PermitsAreConserved`** is the
  cardinality of the browsing calls, lemma by lemma: free permits and browsing calls add up (`PermitLedger`), and as no permit count is negative, no more browsers run than there are permits. **`ReadersSeeEffects`** maps every step to a step of `EnrichmentEffects` or a stutter, and
  **`EnrichedLeadsAreAudited`** is then proved from the steps of the abstraction alone.
- **`RefetchesAreBounded`**: `RInv` is a ledger. Audit rows of a lead plus the threads that are enriching it are at most its requests plus its finished jobs plus the deaths. A call is
  entered when it is requested, a worker's when it has returned; a death cancels calls and may repeat a job, which it pays for.
- **`WaitsAreAlwaysServed`** and **`CallsAreFinite`** are the parts of `CallsReturn` that are not liveness. `LockedByFetch`, the converse of `LocksMatch`, gives who can hold
  a lead: a fetch, which waits for no row, or a deletion. Four cases are left, each of which occurs, and only one is a circle (`Deadlocked`: the one of `enrichment_delete`).
  `Remaining` counts the steps before a call from its label and its hops; every step of a call lowers it, and no other step but its death touches the call.
- **`ImportsAreExact`**, **`NoLeadIsLost`**, **`RowsAreReported`**, **`ValidationKeepsFirst`**, **`RowsStay`** in `LeadIngestion_proofs`: the invariant says what both loops have done up to `at` (`ReadMatches`,
  `LookedUp`) and that an answered import has created exactly what it had pending (`RowsMatch`), which a conflict on commit makes all or nothing.
  `NoLeadIsLost` speaks of imports without an error: one that reports an error is excused as a whole, because a failing look-up ends its transaction for all rows.
- **`TenantIsSeededWhole`**, **`ServingFindsTenant`**, **`AdministratorOwns`**, **`FirstCredentialsStay`** in `Tenancy_proofs`: `TInv` adds that at most one process has an uncommitted tenant and has then found none committed. The same fact
  gives **`SeedersDoNotDeadlock`**: whoever has inserted the organization waits for no other insert, and the insert of the user never waits. **`StartsAreFinite`** counts the statements that are left.
- **`RowsShowReports`**, **`OnlyRacedChecksLose`** in `DomainHealth_proofs`: `HInv` adds that a check nobody has overtaken has read what the row still holds, so that the columns it leaves alone are right already.

The type invariants of `RateLimits`, `LeadIngestion`, `Tenancy` and `DomainHealth` and `SentMeansEnriched` are proved and not spent on a run.

Only model-checked: the liveness properties `JobsFinish` (of `SendQueue` and of `Enrichment`), `CallsReturn` and `ProcessesServe`, because the prover handles neither liveness under
fairness nor ENABLED. Every invariant and action property of a passing run is stated by a theorem; the types that no run checks as well, and what the theorems without a run property state was
checked by TLC on small instances before it was proved (for `RowNeverShowsOverrun` the one of `rates_shared`, with a fault). That 2^n is a natural number is an assumption because the provers know nothing of exponentiation.

## 5. Not modelled

- `modules/reply_tracker/monitor.py`, `modules/email_sender/batch_sender.py` and `gmail_client.py`: not reached by the running program, the first two unable to run
  (unbound names, missing imports). The reply classifier is called from nowhere else.
- The language model provider and the template optimizer: calls to an external service and texts. That the service fails or is slow is in `SendQueue` and `LeadFunnel`.
- Dashboard, static files, settings, metrics, migrations, deployment and load-test scripts: no protocol. `Tenancy` takes the tables as created.
- Hashing, token signatures, encryption of credentials, URL and e-mail address syntax: pure functions of data, outcomes in the models.
- The tenant filter of every query: each model is the restriction to one organization.
- Redis: the workers do not use it for rate limits.
- The deletion of a lead in `SendQueue`: it cascades to records and jobs and waits for locked jobs. Deletion is modelled where it races with
  imports (`LeadIngestion`) and with enrichment (`Enrichment`); for a start request, `StartAbort` covers the failing insert.
- A waiting time for the maintenance worker's lock, which depends on DNS timeouts.
- Changes between models, such as an enrichment job while the lead's message is in flight, beyond the status, which `LeadFunnel` follows through all of them.

## 6. Plan

1. Done: `SendQueue`, `EmailDelivery`, `RateLimits`, `LeadFunnel`, their runs and proofs, the audit trail and late mail included.
2. Done: `Enrichment` with `EnrichmentEffects`, `LeadIngestion`, `Tenancy`, `DomainHealth`, their runs and proofs.
3. Done: `Paced` and `DayBounded` for every instance with one worker, the limits of the row for any number.
4. Done: `RefetchesBounded`, the waits and the lengths of calls in `Enrichment` and `Tenancy`, the number of duplicates in `SendQueue`.
5. Open: deletion of leads in `SendQueue`; liveness of an account's recovery from its limits in `RateLimits`.
6. Open: the API's generators and enrichment jobs over the same lead in one composition, beyond its status.
