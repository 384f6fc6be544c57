----------------------------- MODULE RateLimits -----------------------------
(***************************************************************************)
(* The sending limits of one email_provider_accounts row: the campaign     *)
(* workers read it, ask SendingPolicyEngine.evaluate, send, and write it   *)
(* back in record_send; the maintenance worker resets its counters when    *)
(* the hour or the day rolls over.  The row is read without a lock and its *)
(* counters are written as absolute values.                                *)
(*                                                                         *)
(* account holds the committed row; seen[w] is the row as worker w read it *)
(* and draft[w] the row as its session has changed it.  The ORM writes a   *)
(* column only when the session changed it.  The maintenance cycle is one  *)
(* transaction too: it holds the row's lock from its UPDATE to its commit, *)
(* but its markers of the last reset live in the process.                  *)
(*                                                                         *)
(* Time is the tick count now; every worker always has a due job of some   *)
(* campaign of its own (SendQueue has the jobs).                           *)
(***************************************************************************)
EXTENDS Integers, FiniteSets, Sequences

CONSTANTS
    Workers,        \* campaign worker processes that share the account
    DailyCaps,      \* min(daily_limit, campaign.daily_limit), for each campaign
    HourlyLimit,    \* HOURLY_SEND_LIMIT
    MinDelay,       \* MIN_DELAY_SECONDS, in ticks
    TicksPerHour, HoursPerDay,
    None,
    MaxTime,        \* bound: the last tick
    MaxFaults,      \* bound: crashes, lost answers, rolled back cycles
    MaxRestarts     \* bound: restarts of the maintenance worker

ASSUME PolicyAssumption ==
    /\ DailyCaps \subseteq Nat \ {0}
    /\ DailyCaps # {}
    /\ IsFiniteSet(DailyCaps)
    /\ HourlyLimit \in Nat \ {0}
    /\ MinDelay \in Nat
    /\ TicksPerHour \in Nat \ {0}
    /\ HoursPerDay \in Nat \ {0}
    /\ MaxTime \in Nat
    /\ MaxFaults \in Nat
    /\ MaxRestarts \in Nat
    /\ None \notin Int

VARIABLES
    now,
    account,       \* [today, hour, last, day]: sends_today, sends_this_hour,
                   \* last_send_at, last_reset_date
    phase, seen, draft,  \* a worker's position, the row it read, the row it writes
    maint,         \* the maintenance process: markers and pending resets
    sentAt,        \* history: the ticks at which the provider accepted a message
    sinceDay, sinceHour, \* history: messages since the last reset of the counter
    faults, restarts     \* history

vars == <<now, account, phase, seen, draft, maint, sentAt, sinceDay, sinceHour,
          faults, restarts>>

Hour(t) == t \div TicksPerHour
Day(t) == Hour(t) \div HoursPerDay
HourOfDay(t) == Hour(t) % HoursPerDay

Row == [today: Nat, hour: Nat, last: Nat \cup {None}, day: Nat \cup {None}]
FreshRow == [today |-> 0, hour |-> 0, last |-> None, day |-> None]
FreshProcess == [busy |-> FALSE, hourMark |-> -1, dayMark |-> None,
                 resetHour |-> FALSE, resetDay |-> FALSE]

Init ==
    /\ now = 0
    /\ account = FreshRow
    /\ phase = [w \in Workers |-> "idle"]
    /\ seen = [w \in Workers |-> FreshRow]
    /\ draft = [w \in Workers |-> FreshRow]
    /\ maint = FreshProcess
    /\ sentAt = <<>>
    /\ sinceDay = 0
    /\ sinceHour = 0
    /\ faults = 0
    /\ restarts = 0

-----------------------------------------------------------------------------
(* The campaign worker                                                     *)

\* The account row of the cycle, read before the policy is asked.
Select(w) ==
    /\ phase[w] = "idle"
    /\ phase' = [phase EXCEPT ![w] = "selected"]
    /\ seen' = [seen EXCEPT ![w] = account]
    /\ draft' = [draft EXCEPT ![w] = account]
    /\ UNCHANGED <<now, account, maint, sentAt, sinceDay, sinceHour, faults, restarts>>

\* The day of the row is over: evaluate resets both counters, in its session.
DayChanged(row) == row.day # None /\ row.day # Day(now)
ResetOnly(row) == IF DayChanged(row) THEN [row EXCEPT !.today = 0, !.hour = 0] ELSE row
ResetAlways(row) == [row EXCEPT !.today = 0, !.hour = 0, !.day = Day(now)]   \* mutant: no test
ResetForDay(row) == [ResetOnly(row) EXCEPT !.day = Day(now)]

TooSoonIgnored(row) == FALSE   \* mutant: no pacing
TooSoon(row) == row.last # None /\ now - row.last < MinDelay

AtLimitByOne(row, cap) == row.today > cap \/ row.hour > HourlyLimit   \* mutant: off by one
AtLimit(row, cap) == row.today >= cap \/ row.hour >= HourlyLimit

\* Rules 5, 6 and 7 of evaluate for a job of a campaign with this cap.
Evaluate(w, cap) ==
    LET row == ResetForDay(seen[w])
    IN /\ phase[w] = "selected"
       /\ draft' = [draft EXCEPT ![w] = row]
       /\ phase' = [phase EXCEPT ![w] =
              IF AtLimit(row, cap) \/ TooSoon(row) THEN "settled" ELSE "cleared"]
       /\ sinceDay' = IF DayChanged(seen[w]) THEN 0 ELSE sinceDay
       /\ sinceHour' = IF DayChanged(seen[w]) THEN 0 ELSE sinceHour
       /\ UNCHANGED <<now, account, seen, maint, sentAt, faults, restarts>>

\* provider.send: accepted, accepted with the answer lost, or refused.
Dispatch(w, reply) ==
    /\ phase[w] = "cleared"
    /\ reply = "lost" => faults < MaxFaults
    /\ phase' = [phase EXCEPT ![w] = IF reply = "accepted" THEN "sent" ELSE "settled"]
    /\ faults' = IF reply = "lost" THEN faults + 1 ELSE faults
    /\ IF reply = "refused"
       THEN UNCHANGED <<sentAt, sinceDay, sinceHour>>
       ELSE /\ sentAt' = Append(sentAt, now)
            /\ sinceDay' = sinceDay + 1
            /\ sinceHour' = sinceHour + 1
    /\ UNCHANGED <<now, account, seen, draft, maint, restarts>>

\* The columns of draft that the session changed replace the committed ones.
Changed(w, column) == IF draft[w][column] # seen[w][column]
                      THEN draft[w][column] ELSE account[column]

\* The cycle ends without a message: only a reset for the day is written, and
\* only then does the commit wait for the maintenance worker's lock.
CommitSettled(w) ==
    /\ phase[w] = "settled"
    /\ maint.busy => draft[w] = seen[w]
    /\ phase' = [phase EXCEPT ![w] = "idle"]
    /\ account' = [account EXCEPT !.today = Changed(w, "today"),
                                  !.hour = Changed(w, "hour"),
                                  !.day = Changed(w, "day")]
    /\ UNCHANGED <<now, seen, draft, maint, sentAt, sinceDay, sinceHour, faults, restarts>>

RecordSendNothing(row) == row   \* mutant: record_send is not called
RecordSend(row) ==
    [row EXCEPT !.today = @ + 1, !.hour = @ + 1, !.last = now]

\* record_send and the commit, which waits for the maintenance worker's lock.
CommitSent(w) ==
    LET row == RecordSend(draft[w])
    IN /\ phase[w] = "sent"
       /\ ~maint.busy
       /\ phase' = [phase EXCEPT ![w] = "idle"]
       /\ account' = [row EXCEPT !.day = Changed(w, "day")]
       /\ UNCHANGED <<now, seen, draft, maint, sentAt, sinceDay, sinceHour,
                      faults, restarts>>

\* The cycle is rolled back or its process dies.
Crash(w) ==
    /\ phase[w] # "idle"
    /\ faults < MaxFaults
    /\ faults' = faults + 1
    /\ phase' = [phase EXCEPT ![w] = "idle"]
    /\ UNCHANGED <<now, account, seen, draft, maint, sentAt, sinceDay, sinceHour, restarts>>

-----------------------------------------------------------------------------
(* The maintenance worker                                                  *)

\* reset_provider_rate_limits: the markers move when the UPDATEs are issued ...
ResetBegin ==
    LET hourDue == HourOfDay(now) # maint.hourMark
        dayDue == Day(now) # maint.dayMark
    IN /\ ~maint.busy
       /\ hourDue \/ dayDue
       /\ maint' = [busy |-> TRUE, hourMark |-> HourOfDay(now), dayMark |-> Day(now),
                    resetHour |-> hourDue, resetDay |-> dayDue]
       /\ UNCHANGED <<now, account, phase, seen, draft, sentAt, sinceDay, sinceHour,
                      faults, restarts>>

\* ... the counters when the cycle commits, after DNS refresh and purge.
ResetCommit ==
    /\ maint.busy
    /\ account' = [account EXCEPT
           !.hour = IF maint.resetHour THEN 0 ELSE @,
           !.today = IF maint.resetDay THEN 0 ELSE @,
           !.day = IF maint.resetDay THEN maint.dayMark ELSE @]
    /\ sinceHour' = IF maint.resetHour THEN 0 ELSE sinceHour
    /\ sinceDay' = IF maint.resetDay THEN 0 ELSE sinceDay
    /\ maint' = [maint EXCEPT !.busy = FALSE]
    /\ UNCHANGED <<now, phase, seen, draft, sentAt, faults, restarts>>

\* The cycle fails and is rolled back; the markers keep the new hour and day.
ResetRollback ==
    /\ maint.busy
    /\ faults < MaxFaults
    /\ faults' = faults + 1
    /\ maint' = [maint EXCEPT !.busy = FALSE]
    /\ UNCHANGED <<now, account, phase, seen, draft, sentAt, sinceDay, sinceHour, restarts>>

\* A new process has no markers: it resets everything at once, at any time of day.
Restart ==
    /\ restarts < MaxRestarts
    /\ restarts' = restarts + 1
    /\ maint' = FreshProcess
    /\ UNCHANGED <<now, account, phase, seen, draft, sentAt, sinceDay, sinceHour, faults>>

Tick ==
    /\ now < MaxTime
    /\ now' = now + 1
    /\ UNCHANGED <<account, phase, seen, draft, maint, sentAt, sinceDay, sinceHour,
                   faults, restarts>>

WorkerStep(w) ==
    \/ Select(w)
    \/ \E cap \in DailyCaps : Evaluate(w, cap)
    \/ \E reply \in {"accepted", "lost", "refused"} : Dispatch(w, reply)
    \/ CommitSettled(w) \/ CommitSent(w) \/ Crash(w)

Next ==
    \/ \E w \in Workers : WorkerStep(w)
    \/ ResetBegin \/ ResetCommit \/ ResetRollback \/ Restart
    \/ Tick

Spec == Init /\ [][Next]_vars

-----------------------------------------------------------------------------
(* Properties                                                              *)

\* Type invariant.
TypeOK ==
    /\ now \in 0..MaxTime
    /\ account \in Row
    /\ phase \in [Workers -> {"idle", "selected", "cleared", "settled", "sent"}]
    /\ seen \in [Workers -> Row]
    /\ draft \in [Workers -> Row]
    /\ maint \in [busy: BOOLEAN, hourMark: Int, dayMark: Nat \cup {None},
                  resetHour: BOOLEAN, resetDay: BOOLEAN]
    /\ sentAt \in Seq(Nat)
    /\ sinceDay \in Nat
    /\ sinceHour \in Nat
    /\ faults \in Nat
    /\ restarts \in Nat

InFlight == {w \in Workers : phase[w] = "sent"}
HighestCap == CHOOSE cap \in DailyCaps : \A c \in DailyCaps : c <= cap
SentIn(ticks) == {i \in 1..Len(sentAt) : sentAt[i] \in ticks}
SentOn(d) == {i \in 1..Len(sentAt) : Day(sentAt[i]) = d}

\* The counters cover what was sent: whatever resets, stale writes and postponements
\* do, a message since the last reset is counted, on its way to be counted, or
\* was hidden by a fault.  (One worker on the account.)
CountersCover ==
    /\ sinceDay <= account.today + Cardinality(InFlight) + faults
    /\ sinceHour <= account.hour + Cardinality(InFlight) + faults

\* Between two resets of a counter at most its limit leaves, plus one message for
\* each fault that hid one: the policy's promise for one worker on the account.
EpochCapped ==
    /\ \E cap \in DailyCaps : sinceDay <= cap + faults
    /\ sinceHour <= HourlyLimit + faults

\* Two messages of the account are MinDelay apart, but for the ones a fault hid.
Paced ==
    \A t \in 0..MaxTime :
        Cardinality(SentIn(t..(t + MinDelay - 1))) <= 1 + faults

\* What the limits really promise for a calendar day.  The worker's own reset and
\* the maintenance worker's each open a full allowance, every restart of the
\* maintenance worker one more, and one message may have been cleared before midnight.
DayBounded ==
    \A d \in 0..Day(MaxTime) :
        Cardinality(SentOn(d)) <= HighestCap * (2 + restarts) + 1 + faults
=============================================================================
