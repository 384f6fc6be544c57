------------------------------ MODULE LeadFunnel ------------------------------
(***************************************************************************)
(* How a lead becomes a mailed lead: enrichment, generation of the initial *)
(* message, sending, follow-ups.  Each of these reads Lead.status in one   *)
(* transaction, works for seconds or minutes, and writes the status in     *)
(* another; the status is also their only memory of what was done.         *)
(*                                                                         *)
(* The records of a lead are counted by kind and stage, as their identity  *)
(* does not matter here (SendQueue has it): "sent" is EmailStatus.SENT, and*)
(* "old" is SENT for longer than the follow-up's cutoff.  All leads are in *)
(* one campaign, so that one message is in flight at a time (FlightIsCur-  *)
(* rent of SendQueue).  ENRICHING is set and replaced in one transaction   *)
(* and is never committed.                                                 *)
(***************************************************************************)
EXTENDS Integers, FiniteSets

CONSTANTS
    Leads,
    Generators,     \* API threads that can run generate_emails_batch
    None,
    MaxReturns,     \* bound: enrichments of a lead that was not NEW or ENRICHED
    MaxFollowups    \* bound: follow-up records of a lead and kind

ASSUME FunnelAssumption ==
    /\ IsFiniteSet(Generators)
    /\ MaxReturns \in Nat
    /\ MaxFollowups \in Nat

Followups == {"followup_1", "followup_2"}
Kinds == {"initial"} \cup Followups
Stages == {"pending", "queued", "sent", "old", "failed"}
Answers == {"replied", "bounced", "unsubscribed"}
LeadStates == {"new", "enriched", "email_generated", "emailed", "followup_1_sent"}
              \cup Answers

ASSUME NoneAssumption == None \notin [lead: Leads, seen: LeadStates]

VARIABLES
    leadStatus,
    mail,           \* numbers of records: lead -> kind -> stage -> Nat
    batch, draft,   \* a generator's selected leads; the lead it is writing to
    due, made,      \* the scheduler's selected leads; the record it makes
    flight,         \* the message the campaign's worker is executing
    returned        \* history: times a lead became eligible again

generatorVars == <<batch, draft>>
schedulerVars == <<due, made>>
vars == <<leadStatus, mail, generatorVars, schedulerVars, flight, returned>>

Eligible == {"new", "enriched"}
Delivered(l, k) == mail[l][k]["sent"] + mail[l][k]["old"]
Count(l, k) == mail[l][k]["pending"] + mail[l][k]["queued"] + Delivered(l, k)
                                     + mail[l][k]["failed"]

Add(l, k, s) == mail' = [mail EXCEPT ![l][k][s] = @ + 1]
Move(l, k, from, to) ==
    mail' = [mail EXCEPT ![l][k][from] = @ - 1, ![l][k][to] = @ + 1]
SetStatus(l, s) == leadStatus' = [leadStatus EXCEPT ![l] = s]

Init ==
    /\ leadStatus = [l \in Leads |-> "new"]
    /\ mail = [l \in Leads |-> [k \in Kinds |-> [s \in Stages |-> 0]]]
    /\ batch = [g \in Generators |-> {}]
    /\ draft = [g \in Generators |-> None]
    /\ due = None
    /\ made = None
    /\ flight = None
    /\ returned = [l \in Leads |-> 0]

-----------------------------------------------------------------------------
(* Enrichment                                                              *)

\* enrich_lead for one lead, at the request of a user or for a lead that
\* enrich_all_pending selected long ago: ENRICHED, whatever the status was.
Enrich(l) ==
    LET again == leadStatus[l] \notin Eligible
    IN /\ again => returned[l] < MaxReturns
       /\ SetStatus(l, "enriched")
       /\ returned' = IF again THEN [returned EXCEPT ![l] = @ + 1] ELSE returned
       /\ UNCHANGED <<mail, generatorVars, schedulerVars, flight>>

-----------------------------------------------------------------------------
(* Generation of the initial message                                       *)

\* generate_emails_batch, first transaction: the ids of the eligible leads.
GenSelect(g) ==
    LET eligible == {l \in Leads : leadStatus[l] \in Eligible}
    IN /\ batch[g] = {}
       /\ draft[g] = None
       /\ eligible # {}
       /\ batch' = [batch EXCEPT ![g] = eligible]
       /\ UNCHANGED <<leadStatus, mail, draft, schedulerVars, flight, returned>>

ReachedAlready(status) == status \in {"emailed", "replied", "bounced"}

\* generate_email_for_lead reads the lead again, and skips it ...
GenSkip(g, l) ==
    /\ l \in batch[g]
    /\ draft[g] = None
    /\ ReachedAlready(leadStatus[l])
    /\ batch' = [batch EXCEPT ![g] = @ \ {l}]
    /\ UNCHANGED <<leadStatus, mail, draft, schedulerVars, flight, returned>>

\* ... or asks the language model for a text.
GenRead(g, l) ==
    /\ l \in batch[g]
    /\ draft[g] = None
    /\ ~ReachedAlready(leadStatus[l])
    /\ batch' = [batch EXCEPT ![g] = @ \ {l}]
    /\ draft' = [draft EXCEPT ![g] = [lead |-> l, seen |-> leadStatus[l]]]
    /\ UNCHANGED <<leadStatus, mail, schedulerVars, flight, returned>>

MarkNothing(d) == UNCHANGED leadStatus   \* mutant: lead.status is not set
\* No UPDATE is emitted when the lead was read as EMAIL_GENERATED.
MarkGenerated(d) == IF d.seen = "email_generated" THEN UNCHANGED leadStatus
                    ELSE SetStatus(d.lead, "email_generated")

\* The PENDING record and the lead's status; the INSERT waits for the campaign.
GenCommit(g) ==
    /\ draft[g] # None
    /\ flight = None
    /\ Add(draft[g].lead, "initial", "pending")
    /\ MarkGenerated(draft[g])
    /\ draft' = [draft EXCEPT ![g] = None]
    /\ UNCHANGED <<batch, schedulerVars, flight, returned>>

\* No text, or the request dies with the rest of its batch.
GenAbort(g, lost) ==
    /\ draft[g] # None
    /\ lost \in {{}, batch[g]}
    /\ draft' = [draft EXCEPT ![g] = None]
    /\ batch' = [batch EXCEPT ![g] = @ \ lost]
    /\ UNCHANGED <<leadStatus, mail, schedulerVars, flight, returned>>

-----------------------------------------------------------------------------
(* Start, and the campaign's worker                                        *)

\* start_campaign enqueues every PENDING record.
Start ==
    /\ flight = None
    /\ mail' = [l \in Leads |-> [k \in Kinds |->
           [mail[l][k] EXCEPT !["queued"] = @ + mail[l][k]["pending"],
                              !["pending"] = 0]]]
    /\ UNCHANGED <<leadStatus, generatorVars, schedulerVars, flight, returned>>

\* Claim of a job, with the read of its lead.
SendClaim(l, k) ==
    /\ flight = None
    /\ mail[l][k]["queued"] > 0
    /\ flight' = [lead |-> l, kind |-> k, seen |-> leadStatus[l]]
    /\ UNCHANGED <<leadStatus, mail, generatorVars, schedulerVars, returned>>

Suppressed == {"unsubscribed", "bounced"}

\* The policy rejects a lead read as suppressed (REPLIED it lets pass), or the
\* provider refuses for good.
SendFail ==
    /\ flight # None
    /\ Move(flight.lead, flight.kind, "queued", "failed")
    /\ flight' = None
    /\ UNCHANGED <<leadStatus, generatorVars, schedulerVars, returned>>

\* complete_send_job: EMAILED, whatever the kind of the message; no UPDATE is
\* emitted when the lead was read as EMAILED.
SendCommit ==
    /\ flight # None
    /\ flight.seen \notin Suppressed
    /\ Move(flight.lead, flight.kind, "queued", "sent")
    /\ IF flight.seen = "emailed" THEN UNCHANGED leadStatus
       ELSE SetStatus(flight.lead, "emailed")
    /\ flight' = None
    /\ UNCHANGED <<generatorVars, schedulerVars, returned>>

\* Retry, postponement, rollback: the job goes back to the queue.
SendAgain ==
    /\ flight # None
    /\ flight' = None
    /\ UNCHANGED <<leadStatus, mail, generatorVars, schedulerVars, returned>>

-----------------------------------------------------------------------------
(* Follow-ups                                                              *)

\* The days of the cutoff pass for a SENT record.
Age(l, k) ==
    /\ mail[l][k]["sent"] > 0
    /\ Move(l, k, "sent", "old")
    /\ UNCHANGED <<leadStatus, generatorVars, schedulerVars, flight, returned>>

Predecessor(k) == IF k = "followup_1" THEN "initial" ELSE "followup_1"
StatusBefore(k) == IF k = "followup_1" THEN "emailed" ELSE "followup_1_sent"

DueUnsent(l, k) == leadStatus[l] \in {"email_generated", "emailed"}   \* mutant: no cutoff
Due(l, k) == leadStatus[l] = StatusBefore(k) /\ mail[l][Predecessor(k)]["old"] > 0

\* One pass of check_and_queue_followups selects its leads in one transaction ...
SchedSelect(k) ==
    /\ due = None
    /\ \E l \in Leads : Due(l, k)
    /\ due' = [kind |-> k, leads |-> {l \in Leads : Due(l, k)}]
    /\ UNCHANGED <<leadStatus, mail, generatorVars, made, flight, returned>>

Silent(l) == leadStatus[l] \notin Answers

HasOriginal(l) == Delivered(l, "initial") > 0

\* ... and for each of them, in a second, reads the lead and its original and asks
\* the language model for a text ...
FollowRead(l) ==
    /\ due # None
    /\ made = None
    /\ l \in due.leads
    /\ Silent(l) /\ HasOriginal(l)
    /\ made' = [lead |-> l, kind |-> due.kind, stored |-> FALSE]
    /\ due' = [due EXCEPT !.leads = @ \ {l}]
    /\ UNCHANGED <<leadStatus, mail, generatorVars, flight, returned>>

\* ... commits a PENDING record, whose INSERT waits for the campaign ...
FollowGenerate ==
    /\ made # None
    /\ ~made.stored
    /\ flight = None
    /\ Count(made.lead, made.kind) < MaxFollowups
    /\ Add(made.lead, made.kind, "pending")
    /\ made' = [made EXCEPT !.stored = TRUE]
    /\ UNCHANGED <<leadStatus, generatorVars, due, flight, returned>>

EnqueueBlindly(l, k) == Move(l, k, "pending", "queued")   \* mutant: whatever its status
EnqueuePending(l, k) == IF mail[l][k]["pending"] > 0 THEN Move(l, k, "pending", "queued")
                        ELSE UNCHANGED mail

\* ... and enqueues it in a third, unless a start was faster.
FollowEnqueue ==
    /\ made # None
    /\ made.stored
    /\ flight = None
    /\ EnqueuePending(made.lead, made.kind)
    /\ made' = None
    /\ UNCHANGED <<leadStatus, generatorVars, due, flight, returned>>

\* There is no text, or one of the two transactions fails, and the record, if it is
\* stored, stays PENDING: next lead.
FollowFail ==
    /\ made # None
    /\ made' = None
    /\ UNCHANGED <<leadStatus, mail, generatorVars, due, flight, returned>>

\* The lead has answered meanwhile, or cannot be read: next lead.
FollowSkip(l) ==
    /\ due # None
    /\ made = None
    /\ l \in due.leads
    /\ due' = [due EXCEPT !.leads = @ \ {l}]
    /\ UNCHANGED <<leadStatus, mail, generatorVars, made, flight, returned>>

\* The pass is over, or its process dies.
SchedEnd ==
    /\ due # None
    /\ due' = None
    /\ made' = None
    /\ UNCHANGED <<leadStatus, mail, generatorVars, flight, returned>>

\* An operator, or a reply tracker that is not part of the running program, records
\* that the lead has answered.
Answer(l, status) ==
    /\ \E k \in Kinds : Delivered(l, k) > 0
    /\ leadStatus[l] # status
    /\ SetStatus(l, status)
    /\ UNCHANGED <<mail, generatorVars, schedulerVars, flight, returned>>

LeadStep(l) ==
    \/ Enrich(l) \/ FollowRead(l) \/ FollowSkip(l)
    \/ \E k \in Kinds : SendClaim(l, k) \/ Age(l, k)
    \/ \E status \in Answers : Answer(l, status)

GeneratorStep(g) ==
    \/ GenSelect(g) \/ GenCommit(g) \/ \E lost \in SUBSET Leads : GenAbort(g, lost)
    \/ \E l \in Leads : GenSkip(g, l) \/ GenRead(g, l)

Next ==
    \/ \E l \in Leads : LeadStep(l)
    \/ \E g \in Generators : GeneratorStep(g)
    \/ Start
    \/ SendFail \/ SendCommit \/ SendAgain
    \/ \E k \in Followups : SchedSelect(k)
    \/ FollowGenerate \/ FollowEnqueue \/ FollowFail \/ SchedEnd

Spec == Init /\ [][Next]_vars

-----------------------------------------------------------------------------
(* Properties                                                              *)

TypeOK ==
    /\ leadStatus \in [Leads -> LeadStates]
    /\ mail \in [Leads -> [Kinds -> [Stages -> Nat]]]
    /\ batch \in [Generators -> SUBSET Leads]
    /\ draft \in [Generators -> [lead: Leads, seen: LeadStates] \cup {None}]
    /\ due \in [kind: Followups, leads: SUBSET Leads] \cup {None}
    /\ made \in [lead: Leads, kind: Followups, stored: BOOLEAN] \cup {None}
    /\ flight \in [lead: Leads, kind: Kinds, seen: LeadStates] \cup {None}
    /\ returned \in [Leads -> Nat]

\* How many initial messages a lead can get: one for each generator, and again for
\* each time an enrichment made the lead eligible again.  Not one, but not more
\* either, whatever stale selections and reads the generators hold.
InitialsBounded ==
    \A l \in Leads :
        Count(l, "initial") <= Cardinality(Generators) * (1 + returned[l])

\* What the status says of a lead is true of its records, although no two writers
\* of the status agree on an order: NEW has none, EMAIL_GENERATED has an initial
\* record, EMAILED has a delivered one.
StatusMatchesMail ==
    \A l \in Leads :
        /\ leadStatus[l] = "new" => \A k \in Kinds : Count(l, k) = 0
        /\ leadStatus[l] = "email_generated" => Count(l, "initial") > 0
        /\ leadStatus[l] = "emailed" => \E k \in Kinds : Delivered(l, k) > 0

\* A follow-up follows: none exists, is written or about to be, for a lead whose
\* initial message was not delivered, long enough ago, before.
FollowupsFollow ==
    \A l \in Leads :
        \/ \E k \in Followups : Count(l, k) > 0
        \/ due # None /\ l \in due.leads
        \/ made # None /\ made.lead = l
        => mail[l]["initial"]["old"] > 0

-----------------------------------------------------------------------------
(* What the documentation says and the code does not do                    *)

\* PROJECT_REPORT.md, lead status flow and section 5.6: a follow-up 1, after that
\* a follow-up 2, not a second follow-up 1.
FollowupOnce == \A l \in Leads : Count(l, "followup_1") <= 1
=============================================================================
