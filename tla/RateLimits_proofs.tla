-------------------------- MODULE RateLimits_proofs --------------------------
(***************************************************************************)
(* For any number of workers the row, its copies and the markers have      *)
(* their types, and the row never shows more than the limits.  For one     *)
(* worker on the account, every value of the limits, any clock and any     *)
(* number of faults and restarts: the counters cover what was sent,        *)
(* between two resets no more leaves than the limit and the faults allow,  *)
(* messages are MinDelay apart, and a day carries what DayBounded says.    *)
(*                                                                         *)
(* CountersCover alone is not inductive: while the worker works, the row   *)
(* it read may be older than the committed one.  Covered(row) says of each *)
(* row in play that it is not behind; a reset can only help, because it    *)
(* lowers what has to be covered.  PInv says the same of the time of the   *)
(* last message, and DInv compares what the row still allows today with    *)
(* what the day's budget has left.                                         *)
(***************************************************************************)
EXTENDS RateLimits, FiniteSetTheorems, WellFoundedInduction, TLAPS

\* The row counts every message but the ones faults have hidden.
Covered(row) == sinceDay <= row.today + faults /\ sinceHour <= row.hour + faults

\* The same, when the worker still has a message to count.
CoveredButOne(row) == sinceDay <= row.today + 1 + faults /\ sinceHour <= row.hour + 1 + faults

LInv ==
    /\ TypeOK
    /\ EpochCapped
    /\ \A w \in Workers :
          /\ phase[w] # "sent" => Covered(account)
          /\ phase[w] = "sent" => CoveredButOne(account) /\ CoveredButOne(draft[w])
          /\ phase[w] = "selected" => Covered(seen[w])
          /\ phase[w] \in {"cleared", "settled"} => Covered(draft[w])
          /\ phase[w] = "cleared" => /\ \E cap \in DailyCaps : draft[w].today < cap
                                     /\ draft[w].hour < HourlyLimit

\* The invariant holds before the first cycle.
LEMMA InitLInv == Init => LInv
<1> SUFFICES ASSUME Init PROVE LInv
  OBVIOUS
<1>1. TypeOK
  BY PolicyAssumption DEF Init, TypeOK, FreshRow, FreshProcess, Row
<1>2. EpochCapped
  <2>1. PICK cap \in DailyCaps : cap \in Nat
    BY PolicyAssumption
  <2>2. sinceDay <= cap + faults /\ sinceHour <= HourlyLimit + faults
    BY <2>1, PolicyAssumption DEF Init
  <2> QED BY <2>2 DEF EpochCapped
<1>3. Covered(account)
  BY DEF Init, Covered, FreshRow
<1> QED BY <1>1, <1>2, <1>3 DEF LInv, Init

\* The calendar day of a tick is a number.
LEMMA DayType == ASSUME NEW t \in Nat PROVE Day(t) \in Nat /\ HourOfDay(t) \in Int
  BY PolicyAssumption DEF Day, Hour, HourOfDay

\* The row that evaluate makes is a row, and it covers what the row it was made from
\* covers, or nothing has to be covered any more.
LEMMA ResetRow ==
  ASSUME TypeOK, NEW row \in Row
  PROVE  /\ ResetForDay(row) \in Row
         /\ DayChanged(row) => ResetForDay(row).today = 0 /\ ResetForDay(row).hour = 0
         /\ ~DayChanged(row) => /\ ResetForDay(row).today = row.today
                                /\ ResetForDay(row).hour = row.hour
<1>1. Day(now) \in Nat
  <2>1. now \in Nat
    BY PolicyAssumption DEF TypeOK
  <2> QED BY <2>1, DayType
<1>2. row.today \in Nat /\ row.hour \in Nat /\ row.last \in Nat \cup {None}
  BY DEF Row
<1>3. row = [today |-> row.today, hour |-> row.hour, last |-> row.last, day |-> row.day]
  BY DEF Row
<1>4. CASE DayChanged(row)
  <2>1. ResetOnly(row) = [today |-> 0, hour |-> 0, last |-> row.last, day |-> row.day]
    BY <1>3, <1>4 DEF ResetOnly, Row
  <2>2. ResetForDay(row) = [today |-> 0, hour |-> 0, last |-> row.last, day |-> Day(now)]
    BY <2>1 DEF ResetForDay
  <2> QED BY <1>1, <1>2, <1>4, <2>2 DEF Row
<1>5. CASE ~DayChanged(row)
  <2>1. ResetForDay(row) =
           [today |-> row.today, hour |-> row.hour, last |-> row.last, day |-> Day(now)]
    BY <1>3, <1>5 DEF ResetForDay, ResetOnly
  <2> QED BY <1>1, <1>2, <1>5, <2>1 DEF Row
<1> QED BY <1>4, <1>5

\* A merged column is a column: both the drafts and the committed row are rows.
LEMMA MergedColumns ==
  ASSUME TypeOK, NEW w \in Workers
  PROVE  /\ Changed(w, "today") \in Nat
         /\ Changed(w, "hour") \in Nat
         /\ Changed(w, "day") \in Nat \cup {None}
  BY DEF TypeOK, Row, Changed

\* A hand-over adds the present tick to the history, or leaves it alone.
LEMMA DispatchHistory ==
  ASSUME TypeOK, NEW w \in Workers,
         NEW reply \in {"accepted", "lost", "refused"}, Dispatch(w, reply)
  PROVE  /\ sentAt' \in Seq(Nat)
         /\ reply = "refused" => sentAt' = sentAt
         /\ reply # "refused" =>
               /\ Len(sentAt') = Len(sentAt) + 1
               /\ sentAt'[Len(sentAt) + 1] = now
               /\ \A i \in 1..Len(sentAt) : sentAt'[i] = sentAt[i]
<1>1. now \in Nat /\ sentAt \in Seq(Nat)
  BY PolicyAssumption DEF TypeOK
<1>2. sentAt' = IF reply = "refused" THEN sentAt ELSE Append(sentAt, now)
  BY DEF Dispatch
<1> QED BY <1>1, <1>2

-----------------------------------------------------------------------------
(* Steps of the worker                                                     *)

\* The account row is read.
LEMMA SelectLInv == ASSUME LInv, NEW w \in Workers, Workers = {w}, Select(w) PROVE LInv'
<1> USE DEF LInv, Select
<1>1. TypeOK'
  BY DEF TypeOK
<1>2. EpochCapped'
  BY DEF EpochCapped
<1>3. phase'[w] = "selected" /\ seen'[w] = account
  BY DEF TypeOK
<1> QED BY <1>1, <1>2, <1>3 DEF Covered, CoveredButOne

\* The policy is asked.
LEMMA EvaluateLInv ==
  ASSUME LInv, NEW w \in Workers, Workers = {w}, NEW cap \in DailyCaps, Evaluate(w, cap)
  PROVE  LInv'
<1> DEFINE row == ResetForDay(seen[w])
<1>1. /\ TypeOK /\ seen[w] \in Row /\ phase[w] = "selected"
      /\ Covered(seen[w]) /\ Covered(account)
      /\ account \in Row /\ sinceDay \in Nat /\ sinceHour \in Nat /\ faults \in Nat
  BY DEF LInv, Evaluate, TypeOK
<1>2. /\ row \in Row
      /\ DayChanged(seen[w]) => row.today = 0 /\ row.hour = 0
      /\ ~DayChanged(seen[w]) => row.today = seen[w].today /\ row.hour = seen[w].hour
  BY <1>1, ResetRow
<1>3. /\ sinceDay' = IF DayChanged(seen[w]) THEN 0 ELSE sinceDay
      /\ sinceHour' = IF DayChanged(seen[w]) THEN 0 ELSE sinceHour
      /\ draft' = [draft EXCEPT ![w] = row]
      /\ phase' = [phase EXCEPT ![w] =
             IF AtLimit(row, cap) \/ TooSoon(row) THEN "settled" ELSE "cleared"]
      /\ UNCHANGED <<now, account, seen, maint, sentAt, faults, restarts>>
  BY DEF Evaluate
<1> HIDE DEF row
<1>4. /\ draft'[w] = row /\ phase'[w] \in {"settled", "cleared"}
      /\ phase'[w] = "cleared" => ~AtLimit(row, cap)
  BY <1>1, <1>3 DEF TypeOK
<1>5. TypeOK'
  <2>1. draft' \in [Workers -> Row]
    BY <1>1, <1>2, <1>3 DEF TypeOK
  <2> QED BY <1>1, <1>3, <2>1 DEF TypeOK
<1>6. sinceDay' <= row.today + faults /\ sinceHour' <= row.hour + faults
  BY <1>1, <1>2, <1>3 DEF Covered, Row
<1>7. Covered(account)'
  BY <1>1, <1>3 DEF Covered, Row
<1>8. EpochCapped'
  <2>1. PICK c \in DailyCaps : sinceDay <= c + faults
    BY DEF LInv, EpochCapped
  <2>2. sinceHour <= HourlyLimit + faults /\ c \in Nat /\ HourlyLimit \in Nat
    BY PolicyAssumption DEF LInv, EpochCapped
  <2>3. sinceDay' <= c + faults /\ sinceHour' <= HourlyLimit + faults
    BY <1>1, <1>3, <2>1, <2>2
  <2> QED BY <1>3, <2>3 DEF EpochCapped
<1>9. phase'[w] = "cleared" => row.today < cap /\ row.hour < HourlyLimit
  BY <1>2, <1>4, PolicyAssumption DEF AtLimit, Row
<1> QED BY <1>3, <1>4, <1>5, <1>6, <1>7, <1>8, <1>9 DEF LInv, Covered

\* A message is handed over: it stays to be counted, or a fault has hidden it.
LEMMA DispatchLInv ==
  ASSUME LInv, NEW w \in Workers, Workers = {w},
         NEW reply \in {"accepted", "lost", "refused"}, Dispatch(w, reply)
  PROVE  LInv'
<1>1. /\ TypeOK /\ draft[w] \in Row /\ account \in Row /\ phase[w] = "cleared"
      /\ sinceDay \in Nat /\ sinceHour \in Nat /\ faults \in Nat
      /\ Covered(account) /\ Covered(draft[w]) /\ draft[w].hour < HourlyLimit
  BY DEF LInv, Dispatch, TypeOK
<1>2. PICK cap \in DailyCaps : draft[w].today < cap
  BY <1>1 DEF LInv
<1>3. cap \in Nat /\ HourlyLimit \in Nat
  BY PolicyAssumption
<1>4. /\ UNCHANGED <<now, account, seen, draft, maint, restarts>>
      /\ phase'[w] = IF reply = "accepted" THEN "sent" ELSE "settled"
      /\ phase' \in [Workers -> {"idle", "selected", "cleared", "settled", "sent"}]
      /\ faults' = IF reply = "lost" THEN faults + 1 ELSE faults
      /\ sinceDay' = IF reply = "refused" THEN sinceDay ELSE sinceDay + 1
      /\ sinceHour' = IF reply = "refused" THEN sinceHour ELSE sinceHour + 1
  BY <1>1 DEF Dispatch, TypeOK
<1>5. sentAt' \in Seq(Nat)
  BY <1>1, DispatchHistory
<1>6. TypeOK'
  BY <1>1, <1>4, <1>5 DEF TypeOK
<1>7. EpochCapped'
  <2>1. CASE reply = "refused"
    BY <1>4, <2>1 DEF LInv, EpochCapped
  <2>2. CASE reply # "refused"
    <3>1. sinceDay' <= cap + faults' /\ sinceHour' <= HourlyLimit + faults'
      BY <1>1, <1>2, <1>3, <1>4, <2>2 DEF Covered, Row
    <3> QED BY <3>1 DEF EpochCapped
  <2> QED BY <2>1, <2>2
<1>8. reply = "accepted" => CoveredButOne(account)' /\ CoveredButOne(draft[w])'
  BY <1>1, <1>4 DEF Covered, CoveredButOne, Row
<1>9. reply # "accepted" => Covered(account)' /\ Covered(draft[w])'
  BY <1>1, <1>4 DEF Covered, Row
<1> QED BY <1>4, <1>6, <1>7, <1>8, <1>9 DEF LInv

\* The cycle ends without a message.
LEMMA CommitSettledLInv ==
  ASSUME LInv, NEW w \in Workers, Workers = {w}, CommitSettled(w) PROVE LInv'
<1>1. /\ TypeOK /\ account \in Row /\ phase[w] = "settled"
      /\ Covered(account) /\ Covered(draft[w])
  BY DEF LInv, CommitSettled, TypeOK
<1>2. /\ phase' \in [Workers -> {"idle", "selected", "cleared", "settled", "sent"}]
      /\ phase'[w] = "idle"
      /\ UNCHANGED <<now, seen, draft, maint, sentAt, sinceDay, sinceHour, faults, restarts>>
  BY <1>1 DEF CommitSettled, TypeOK
<1>3. account' = [today |-> Changed(w, "today"), hour |-> Changed(w, "hour"),
                  last |-> account.last, day |-> Changed(w, "day")]
  BY <1>1 DEF CommitSettled, Row
<1>4. account' \in Row
  BY <1>1, <1>3, MergedColumns DEF Row
<1>5. TypeOK'
  BY <1>1, <1>2, <1>4 DEF TypeOK
<1>6. Covered(account)'
  BY <1>1, <1>2, <1>3 DEF Covered, Changed
<1>7. EpochCapped'
  BY <1>2 DEF LInv, EpochCapped
<1> QED BY <1>2, <1>5, <1>6, <1>7 DEF LInv

\* record_send counts the message that was still to be counted.
LEMMA CommitSentLInv ==
  ASSUME LInv, NEW w \in Workers, Workers = {w}, CommitSent(w) PROVE LInv'
<1>1. /\ TypeOK /\ draft[w] \in Row /\ phase[w] = "sent" /\ CoveredButOne(draft[w])
      /\ now \in Nat
  BY PolicyAssumption DEF LInv, CommitSent, TypeOK
<1>2. /\ phase' \in [Workers -> {"idle", "selected", "cleared", "settled", "sent"}]
      /\ phase'[w] = "idle"
      /\ UNCHANGED <<now, seen, draft, maint, sentAt, sinceDay, sinceHour, faults, restarts>>
  BY <1>1 DEF CommitSent, TypeOK
<1>3. account' = [today |-> draft[w].today + 1, hour |-> draft[w].hour + 1,
                  last |-> now, day |-> Changed(w, "day")]
  BY <1>1 DEF CommitSent, RecordSend, Row
<1>4. account' \in Row
  BY <1>1, <1>3, MergedColumns DEF Row
<1>5. TypeOK'
  BY <1>1, <1>2, <1>4 DEF TypeOK
<1>6. Covered(account)'
  BY <1>1, <1>2, <1>3 DEF Covered, CoveredButOne
<1>7. EpochCapped'
  BY <1>2 DEF LInv, EpochCapped
<1> QED BY <1>2, <1>5, <1>6, <1>7 DEF LInv

\* A crash hides the message that was to be counted, and is itself counted.
LEMMA CrashLInv ==
  ASSUME LInv, NEW w \in Workers, Workers = {w}, Crash(w) PROVE LInv'
<1>1. /\ TypeOK /\ account \in Row /\ faults \in Nat /\ sinceDay \in Nat /\ sinceHour \in Nat
      /\ Covered(account) \/ CoveredButOne(account)
  BY DEF LInv, TypeOK
<1>2. /\ phase' \in [Workers -> {"idle", "selected", "cleared", "settled", "sent"}]
      /\ phase'[w] = "idle" /\ faults' = faults + 1
      /\ UNCHANGED <<now, account, seen, draft, maint, sentAt, sinceDay, sinceHour, restarts>>
  BY <1>1 DEF Crash, TypeOK
<1>3. TypeOK'
  BY <1>1, <1>2 DEF TypeOK
<1>4. Covered(account)'
  BY <1>1, <1>2 DEF Covered, CoveredButOne, Row
<1>5. EpochCapped'
  <2>1. PICK cap \in DailyCaps : sinceDay <= cap + faults
    BY DEF LInv, EpochCapped
  <2>2. sinceHour <= HourlyLimit + faults /\ cap \in Nat /\ HourlyLimit \in Nat
    BY PolicyAssumption DEF LInv, EpochCapped
  <2>3. sinceDay' <= cap + faults' /\ sinceHour' <= HourlyLimit + faults'
    BY <1>1, <1>2, <2>1, <2>2
  <2> QED BY <2>3 DEF EpochCapped
<1> QED BY <1>2, <1>3, <1>4, <1>5 DEF LInv

-----------------------------------------------------------------------------
(* Steps of the maintenance worker, and time                               *)

\* The counters and the worker's rows are not touched.
LEMMA FrameLInv ==
  ASSUME LInv, TypeOK',
         UNCHANGED <<account, phase, seen, draft, sinceDay, sinceHour>>,
         faults' = faults \/ faults' = faults + 1
  PROVE  LInv'
<1>1. /\ account \in Row /\ faults \in Nat /\ sinceDay \in Nat /\ sinceHour \in Nat
      /\ \A w \in Workers : seen[w] \in Row /\ draft[w] \in Row
  BY DEF LInv, TypeOK
<1>2. EpochCapped'
  <2>1. PICK cap \in DailyCaps : sinceDay <= cap + faults
    BY DEF LInv, EpochCapped
  <2>2. sinceHour <= HourlyLimit + faults /\ cap \in Nat /\ HourlyLimit \in Nat
    BY PolicyAssumption DEF LInv, EpochCapped
  <2>3. sinceDay' <= cap + faults' /\ sinceHour' <= HourlyLimit + faults'
    BY <1>1, <2>1, <2>2
  <2> QED BY <2>3 DEF EpochCapped
<1>3. \A row \in Row : /\ Covered(row) => sinceDay' <= row.today + faults'
                                          /\ sinceHour' <= row.hour + faults'
                       /\ CoveredButOne(row) => sinceDay' <= row.today + 1 + faults'
                                                /\ sinceHour' <= row.hour + 1 + faults'
  BY <1>1 DEF Covered, CoveredButOne, Row
<1> QED BY <1>1, <1>2, <1>3 DEF LInv, Covered, CoveredButOne

\* A committed reset lowers what has to be covered together with the counter.
LEMMA ResetCommitLInv == ASSUME LInv, ResetCommit PROVE LInv'
<1>1. /\ TypeOK /\ account \in Row /\ faults \in Nat /\ sinceDay \in Nat /\ sinceHour \in Nat
      /\ \A w \in Workers : seen[w] \in Row /\ draft[w] \in Row
      /\ maint.dayMark \in Nat \cup {None}
  BY DEF LInv, TypeOK
<1>2. account' = [today |-> IF maint.resetDay THEN 0 ELSE account.today,
                  hour |-> IF maint.resetHour THEN 0 ELSE account.hour,
                  last |-> account.last,
                  day |-> IF maint.resetDay THEN maint.dayMark ELSE account.day]
  BY <1>1 DEF ResetCommit, Row
<1>3. /\ sinceHour' = IF maint.resetHour THEN 0 ELSE sinceHour
      /\ sinceDay' = IF maint.resetDay THEN 0 ELSE sinceDay
      /\ UNCHANGED <<now, phase, seen, draft, sentAt, faults, restarts>>
  BY DEF ResetCommit
<1>4. TypeOK'
  <2>1. account' \in Row
    BY <1>1, <1>2 DEF Row
  <2>2. maint' \in [busy: BOOLEAN, hourMark: Int, dayMark: Nat \cup {None},
                    resetHour: BOOLEAN, resetDay: BOOLEAN]
    BY <1>1 DEF ResetCommit, TypeOK
  <2> QED BY <1>1, <1>3, <2>1, <2>2 DEF TypeOK
<1>5. EpochCapped'
  <2>1. PICK cap \in DailyCaps : sinceDay <= cap + faults
    BY DEF LInv, EpochCapped
  <2>2. sinceHour <= HourlyLimit + faults /\ cap \in Nat /\ HourlyLimit \in Nat
    BY PolicyAssumption DEF LInv, EpochCapped
  <2>3. sinceDay' <= cap + faults' /\ sinceHour' <= HourlyLimit + faults'
    BY <1>1, <1>3, <2>1, <2>2
  <2> QED BY <2>3 DEF EpochCapped
<1>6. /\ Covered(account) => Covered(account)'
      /\ CoveredButOne(account) => CoveredButOne(account)'
  BY <1>1, <1>2, <1>3 DEF Covered, CoveredButOne, Row
<1>7. \A row \in Row : /\ Covered(row) => sinceDay' <= row.today + faults'
                                          /\ sinceHour' <= row.hour + faults'
                       /\ CoveredButOne(row) => sinceDay' <= row.today + 1 + faults'
                                                /\ sinceHour' <= row.hour + 1 + faults'
  BY <1>1, <1>3 DEF Covered, CoveredButOne, Row
<1>8. \A w \in Workers :
         /\ Covered(seen[w]) => Covered(seen[w])'
         /\ Covered(draft[w]) => Covered(draft[w])'
         /\ CoveredButOne(draft[w]) => CoveredButOne(draft[w])'
  BY <1>1, <1>3, <1>7 DEF Covered, CoveredButOne
<1> QED BY <1>3, <1>4, <1>5, <1>6, <1>8 DEF LInv

\* The remaining steps only move the clock, the markers and the histories.
LEMMA OtherLInv ==
  ASSUME LInv, ResetBegin \/ ResetRollback \/ Restart \/ Tick \/ UNCHANGED vars
  PROVE  LInv'
<1>1. TypeOK /\ now \in Nat /\ faults \in Nat /\ restarts \in Nat
  BY PolicyAssumption DEF LInv, TypeOK
<1>2. CASE ResetBegin
  <2>1. HourOfDay(now) \in Int /\ Day(now) \in Nat
    BY <1>1, DayType
  <2>2. TypeOK'
    BY <1>1, <1>2, <2>1 DEF TypeOK, ResetBegin
  <2> QED BY <1>2, <2>2, FrameLInv DEF ResetBegin
<1>3. CASE ResetRollback
  <2>0. maint' \in [busy: BOOLEAN, hourMark: Int, dayMark: Nat \cup {None},
                    resetHour: BOOLEAN, resetDay: BOOLEAN]
    BY <1>1, <1>3 DEF ResetRollback, TypeOK
  <2>1. TypeOK'
    BY <1>1, <1>3, <2>0 DEF TypeOK, ResetRollback
  <2> QED BY <1>3, <2>1, FrameLInv DEF ResetRollback
<1>4. CASE Restart
  <2>1. TypeOK'
    BY <1>1, <1>4 DEF TypeOK, Restart, FreshProcess
  <2> QED BY <1>4, <2>1, FrameLInv DEF Restart
<1>5. CASE Tick
  <2>1. now' \in 0..MaxTime
    BY <1>1, <1>5, PolicyAssumption DEF Tick
  <2>2. TypeOK'
    BY <1>1, <1>5, <2>1 DEF TypeOK, Tick
  <2> QED BY <1>5, <2>2, FrameLInv DEF Tick
<1>6. CASE UNCHANGED vars
  <2>1. TypeOK'
    BY <1>1, <1>6 DEF TypeOK, vars
  <2> QED BY <1>6, <2>1, FrameLInv DEF vars
<1> QED BY <1>2, <1>3, <1>4, <1>5, <1>6

-----------------------------------------------------------------------------
(* The type invariant, for any number of workers                           *)

\* What a worker does up to the hand-over leaves the committed row alone.
LEMMA CycleTypeOK ==
  ASSUME TypeOK, NEW w \in Workers,
         \/ Select(w) \/ Crash(w)
         \/ \E cap \in DailyCaps : Evaluate(w, cap)
         \/ \E reply \in {"accepted", "lost", "refused"} : Dispatch(w, reply)
  PROVE  TypeOK'
<1>1. CASE Select(w)
  BY <1>1 DEF Select, TypeOK
<1>2. CASE Crash(w)
  BY <1>2 DEF Crash, TypeOK
<1>3. CASE \E cap \in DailyCaps : Evaluate(w, cap)
  <2>1. PICK cap \in DailyCaps : Evaluate(w, cap)
    BY <1>3
  <2>2. ResetForDay(seen[w]) \in Row
    BY ResetRow DEF TypeOK
  <2>3. draft' \in [Workers -> Row]
    BY <2>1, <2>2 DEF Evaluate, TypeOK
  <2>4. /\ phase' \in [Workers -> {"idle", "selected", "cleared", "settled", "sent"}]
        /\ sinceDay' \in Nat /\ sinceHour' \in Nat
    BY <2>1 DEF Evaluate, TypeOK
  <2> QED BY <2>1, <2>3, <2>4 DEF Evaluate, TypeOK
<1>4. CASE \E reply \in {"accepted", "lost", "refused"} : Dispatch(w, reply)
  <2>1. PICK reply \in {"accepted", "lost", "refused"} : Dispatch(w, reply)
    BY <1>4
  <2>2. sentAt' \in Seq(Nat)
    BY <2>1, DispatchHistory
  <2>3. /\ phase' \in [Workers -> {"idle", "selected", "cleared", "settled", "sent"}]
        /\ sinceDay' \in Nat /\ sinceHour' \in Nat /\ faults' \in Nat
    BY <2>1 DEF Dispatch, TypeOK
  <2> QED BY <2>1, <2>2, <2>3 DEF Dispatch, TypeOK
<1> QED BY <1>1, <1>2, <1>3, <1>4

\* A commit merges the columns its session changed: the result is a row again.
LEMMA CommitTypeOK ==
  ASSUME TypeOK, NEW w \in Workers, CommitSettled(w) \/ CommitSent(w)
  PROVE  TypeOK'
<1>1. /\ account \in Row /\ draft[w] \in Row /\ now \in Nat
      /\ phase' \in [Workers -> {"idle", "selected", "cleared", "settled", "sent"}]
      /\ UNCHANGED <<now, seen, draft, maint, sentAt, sinceDay, sinceHour, faults, restarts>>
  BY PolicyAssumption, SMTT(30) DEF CommitSettled, CommitSent, TypeOK
<1>2. account' \in Row
  <2>1. CASE CommitSettled(w)
    <3>1. account' = [today |-> Changed(w, "today"), hour |-> Changed(w, "hour"),
                      last |-> account.last, day |-> Changed(w, "day")]
      BY <1>1, <2>1 DEF CommitSettled, Row
    <3> QED BY <1>1, <3>1, MergedColumns DEF Row
  <2>2. CASE CommitSent(w)
    <3>1. account' = [today |-> draft[w].today + 1, hour |-> draft[w].hour + 1,
                      last |-> now, day |-> Changed(w, "day")]
      BY <1>1, <2>2 DEF CommitSent, RecordSend, Row
    <3> QED BY <1>1, <3>1, MergedColumns DEF Row
  <2> QED BY <2>1, <2>2
<1> QED BY <1>1, <1>2 DEF TypeOK

\* The steps of the maintenance worker, and the clock.
LEMMA MaintenanceTypeOK ==
  ASSUME TypeOK,
         ResetBegin \/ ResetCommit \/ ResetRollback \/ Restart \/ Tick \/ UNCHANGED vars
  PROVE  TypeOK'
<1> DEFINE Process == [busy: BOOLEAN, hourMark: Int, dayMark: Nat \cup {None},
                       resetHour: BOOLEAN, resetDay: BOOLEAN]
<1>0. now \in Nat /\ account \in Row /\ maint \in Process
  BY PolicyAssumption DEF TypeOK
<1>1. HourOfDay(now) \in Int /\ Day(now) \in Nat
  BY <1>0, DayType
<1>2. CASE ResetBegin
  BY <1>0, <1>1, <1>2 DEF ResetBegin, TypeOK
<1>3. CASE ResetCommit
  <2>1. account' = [today |-> IF maint.resetDay THEN 0 ELSE account.today,
                    hour |-> IF maint.resetHour THEN 0 ELSE account.hour,
                    last |-> account.last,
                    day |-> IF maint.resetDay THEN maint.dayMark ELSE account.day]
    BY <1>0, <1>3 DEF ResetCommit, Row
  <2>2. account' \in Row
    BY <1>0, <2>1 DEF Row
  <2>3. maint' \in Process
    BY <1>0, <1>3 DEF ResetCommit
  <2> QED BY <1>3, <2>2, <2>3 DEF ResetCommit, TypeOK
<1>4. CASE ResetRollback
  <2>1. maint' \in Process
    BY <1>0, <1>4 DEF ResetRollback
  <2> QED BY <1>4, <2>1 DEF ResetRollback, TypeOK
<1>5. CASE Restart
  BY <1>5 DEF Restart, FreshProcess, TypeOK
<1>6. CASE Tick
  <2>1. now' \in 0..MaxTime
    BY <1>6, PolicyAssumption DEF Tick, TypeOK
  <2> QED BY <1>6, <2>1 DEF Tick, TypeOK
<1>7. CASE UNCHANGED vars
  BY <1>7 DEF TypeOK, vars
<1> QED BY <1>2, <1>3, <1>4, <1>5, <1>6, <1>7

\* However many workers share the account: the row, every copy of it and the markers
\* have their types, so no merge of columns makes a counter negative or loses one.
THEOREM RatesTypeOK == Spec => []TypeOK
<1>1. Init => TypeOK
  BY InitLInv DEF LInv
<1>2. TypeOK /\ [Next]_vars => TypeOK'
  BY CycleTypeOK, CommitTypeOK, MaintenanceTypeOK DEF Next, WorkerStep
<1> QED BY <1>1, <1>2, PTL DEF Spec

-----------------------------------------------------------------------------
(* The theorems for one worker                                             *)

\* With one worker on the account every step preserves the invariant.
LEMMA NextLInv ==
  ASSUME NEW w, Workers = {w}, LInv, [Next]_vars PROVE LInv'
<1>1. CASE WorkerStep(w)
  BY <1>1, SelectLInv, EvaluateLInv, DispatchLInv, CommitSettledLInv, CommitSentLInv,
     CrashLInv DEF WorkerStep
<1>2. CASE ResetCommit
  BY <1>2, ResetCommitLInv
<1>3. CASE ResetBegin \/ ResetRollback \/ Restart \/ Tick \/ UNCHANGED vars
  BY <1>3, OtherLInv
<1> QED BY <1>1, <1>2, <1>3 DEF Next

\* With one worker on the account the invariant always holds.
LEMMA OneWorkerInvariant == ASSUME NEW w, Workers = {w} PROVE Spec => []LInv
<1>1. LInv /\ [Next]_vars => LInv'
  BY NextLInv
<1> QED BY <1>1, InitLInv, PTL DEF Spec

\* Between two resets of a counter at most its limit leaves, and one message more for
\* each fault that hid one, whatever the maintenance worker does meanwhile.
THEOREM OneWorkerIsCapped == ASSUME NEW w, Workers = {w} PROVE Spec => []EpochCapped
<1>1. Spec => []LInv
  BY OneWorkerInvariant
<1>2. LInv => EpochCapped
  BY DEF LInv
<1> QED BY <1>1, <1>2, PTL

\* No message since the last reset escapes the counters but by a fault.
THEOREM OneWorkerIsCovered == ASSUME NEW w, Workers = {w} PROVE Spec => []CountersCover
<1>1. LInv => CountersCover
  <2> SUFFICES ASSUME LInv PROVE CountersCover
    OBVIOUS
  <2>2. /\ account \in Row /\ faults \in Nat /\ sinceDay \in Nat /\ sinceHour \in Nat
    BY DEF LInv, TypeOK
  <2>3. CASE phase[w] = "sent"
    <3>1. InFlight = {w} /\ CoveredButOne(account)
      BY <2>3 DEF LInv, InFlight
    <3>2. Cardinality(InFlight) = 1
      BY <3>1, FS_Singleton
    <3> QED BY <2>2, <3>1, <3>2 DEF CountersCover, CoveredButOne, Row
  <2>4. CASE phase[w] # "sent"
    <3>1. InFlight = {} /\ Covered(account)
      BY <2>4 DEF LInv, InFlight
    <3>2. Cardinality(InFlight) = 0
      BY <3>1, FS_EmptySet
    <3> QED BY <2>2, <3>1, <3>2 DEF CountersCover, Covered, Row
  <2> QED BY <2>3, <2>4
<1>2. Spec => []LInv
  BY OneWorkerInvariant
<1> QED BY <1>1, <1>2, PTL

-----------------------------------------------------------------------------
(* Counting messages                                                       *)

\* Sets of messages, by their place in the history, are finite.
LEMMA SentFinite ==
  ASSUME NEW n \in Nat, NEW S \in SUBSET (1..n)
  PROVE  IsFiniteSet(S) /\ Cardinality(S) \in Nat
<1>1. IsFiniteSet(1..n)
  BY FS_Interval
<1>2. IsFiniteSet(S)
  BY <1>1, FS_Subset
<1> QED BY <1>2, FS_CardinalityType

\* A subset has no more messages.
LEMMA FewerSent ==
  ASSUME NEW n \in Nat, NEW S \in SUBSET (1..n), NEW T \in SUBSET S
  PROVE  Cardinality(T) \in Nat /\ Cardinality(T) <= Cardinality(S)
BY SentFinite, FS_Subset

\* A new message adds at most one to every count.
LEMMA OneMoreSent ==
  ASSUME NEW n \in Nat, NEW S \in SUBSET (1..n), NEW T \in SUBSET (S \cup {n + 1})
  PROVE  Cardinality(T) \in Nat /\ Cardinality(T) <= Cardinality(S) + 1
<1>1. /\ IsFiniteSet(S) /\ Cardinality(S) \in Nat
      /\ IsFiniteSet(S \cup {n + 1})
      /\ Cardinality(S \cup {n + 1}) = Cardinality(S) + 1
  BY SentFinite, FS_AddElement
<1>2. /\ IsFiniteSet(T)
      /\ Cardinality(T) <= Cardinality(S \cup {n + 1})
  BY <1>1, FS_Subset
<1>3. Cardinality(T) \in Nat
  BY <1>2, FS_CardinalityType
<1> QED BY <1>1, <1>2, <1>3

-----------------------------------------------------------------------------
(* Pacing                                                                  *)

Ended == \A i \in 1..Len(sentAt) : sentAt[i] <= now
SentAfter(last) == {i \in 1..Len(sentAt) : last = None \/ sentAt[i] > last}

\* last_send_at is not overwritten during the cycle of the only worker, and only
\* faults have hidden messages that are younger.
Pace(w) ==
    /\ phase[w] # "idle" => seen[w].last = account.last /\ draft[w].last = account.last
    /\ Cardinality(SentAfter(account.last))
          <= IF phase[w] = "sent" THEN faults + 1 ELSE faults
    /\ phase[w] = "cleared" => account.last = None \/ now - account.last >= MinDelay

PInv == TypeOK /\ Ended /\ Paced /\ \A w \in Workers : Pace(w)

LEMMA InitPInv == Init => PInv
<1> SUFFICES ASSUME Init PROVE PInv
  OBVIOUS
<1>1. TypeOK
  BY InitLInv DEF LInv
<1>2. Len(sentAt) = 0 /\ faults = 0
  BY DEF Init
<1>3. \A S : S \subseteq 1..Len(sentAt) => Cardinality(S) = 0
  <2>1. 1..0 = {}
    OBVIOUS
  <2> QED BY <1>2, <2>1, FS_EmptySet
<1>4. Paced
  BY <1>2, <1>3 DEF Paced, SentIn
<1>5. \A w \in Workers : Pace(w)
  BY <1>2, <1>3 DEF Pace, SentAfter, Init
<1>6. Ended
  BY <1>2 DEF Ended
<1> QED BY <1>1, <1>4, <1>5, <1>6 DEF PInv

\* Without a new message the pace is kept, whatever faults and time add.
LEMMA QuietPaced ==
  ASSUME TypeOK, Paced, Ended, sentAt' = sentAt, faults' \in Nat, faults <= faults',
         now' \in Nat, now <= now'
  PROVE  Paced' /\ Ended'
<1>1. /\ sentAt \in Seq(Nat) /\ Len(sentAt) \in Nat /\ now \in Nat /\ faults \in Nat
  BY PolicyAssumption DEF TypeOK
<1>2. Ended'
  BY <1>1 DEF Ended
<1>3. ASSUME NEW t \in 0..MaxTime
      PROVE  Cardinality(SentIn(t..(t + MinDelay - 1)))' <= 1 + faults'
  <2>1. Cardinality(SentIn(t..(t + MinDelay - 1))) <= 1 + faults
    BY DEF Paced
  <2>2. SentIn(t..(t + MinDelay - 1)) \in SUBSET (1..Len(sentAt))
    BY DEF SentIn
  <2>3. Cardinality(SentIn(t..(t + MinDelay - 1))) \in Nat
    BY <1>1, <2>2, SentFinite
  <2>4. SentIn(t..(t + MinDelay - 1))' = SentIn(t..(t + MinDelay - 1))
    BY DEF SentIn
  <2> QED BY <1>1, <2>1, <2>3, <2>4
<1> QED BY <1>2, <1>3 DEF Paced

LEMMA SelectPInv ==
  ASSUME PInv, TypeOK', NEW w \in Workers, Workers = {w}, Select(w) PROVE PInv'
<1>1. /\ TypeOK /\ Paced /\ Ended /\ Pace(w) /\ faults \in Nat /\ now \in Nat
      /\ phase[w] = "idle" /\ phase'[w] = "selected"
      /\ seen'[w] = account /\ draft'[w] = account
      /\ UNCHANGED <<now, account, sentAt, faults>>
  BY PolicyAssumption DEF PInv, TypeOK, Select
<1>2. Paced' /\ Ended'
  BY <1>1, QuietPaced
<1>3. Pace(w)'
  BY <1>1 DEF Pace, SentAfter
<1> QED BY <1>2, <1>3 DEF PInv

\* A message is cleared only when the delay since the last counted one is over.
LEMMA EvaluatePInv ==
  ASSUME PInv, TypeOK', NEW w \in Workers, Workers = {w}, NEW cap \in DailyCaps,
         Evaluate(w, cap)
  PROVE  PInv'
<1> DEFINE row == ResetForDay(seen[w])
<1>1. /\ TypeOK /\ Paced /\ Ended /\ Pace(w) /\ faults \in Nat /\ now \in Nat
      /\ phase[w] = "selected" /\ seen[w] \in Row
      /\ UNCHANGED <<now, account, seen, sentAt, faults>>
      /\ draft'[w] = row
      /\ phase'[w] = IF AtLimit(row, cap) \/ TooSoon(row) THEN "settled" ELSE "cleared"
  BY PolicyAssumption DEF PInv, TypeOK, Evaluate
<1>2. row.last = seen[w].last
  BY <1>1 DEF ResetForDay, ResetOnly, Row
<1>3. row.last \in Nat \cup {None}
  BY <1>1, <1>2 DEF Row
<1> HIDE DEF row
<1>4. phase'[w] = "cleared" => row.last = None \/ now - row.last >= MinDelay
  BY <1>1, <1>3, PolicyAssumption DEF TooSoon
<1>5. Paced' /\ Ended'
  BY <1>1, QuietPaced
<1>6. Pace(w)'
  BY <1>1, <1>2, <1>4 DEF Pace, SentAfter
<1> QED BY <1>5, <1>6 DEF PInv

\* A window that the new message falls into holds, besides it, only messages younger
\* than the last counted one: those that faults have hidden.
LEMMA DispatchPInv ==
  ASSUME PInv, TypeOK', NEW w \in Workers, Workers = {w},
         NEW reply \in {"accepted", "lost", "refused"}, Dispatch(w, reply)
  PROVE  PInv'
<1> DEFINE n == Len(sentAt)
<1>1. /\ TypeOK /\ Paced /\ Ended /\ Pace(w) /\ faults \in Nat /\ now \in Nat
      /\ phase[w] = "cleared" /\ account.last \in Nat \cup {None}
      /\ MinDelay \in Nat /\ sentAt \in Seq(Nat) /\ n \in Nat
      /\ UNCHANGED <<now, account, seen, draft>>
      /\ phase'[w] = IF reply = "accepted" THEN "sent" ELSE "settled"
      /\ faults' = IF reply = "lost" THEN faults + 1 ELSE faults
  BY PolicyAssumption DEF PInv, TypeOK, Dispatch, Row
<1>2. /\ Cardinality(SentAfter(account.last)) <= faults
      /\ account.last = None \/ now - account.last >= MinDelay
  BY <1>1 DEF Pace
<1>3. CASE reply = "refused"
  <2>1. sentAt' = sentAt
    BY <1>1, <1>3, DispatchHistory
  <2>2. Paced' /\ Ended'
    BY <1>1, <1>3, <2>1, QuietPaced
  <2>3. Pace(w)'
    BY <1>1, <1>3, <2>1 DEF Pace, SentAfter
  <2> QED BY <2>2, <2>3 DEF PInv
<1>4. CASE reply # "refused"
  <2>1. /\ sentAt' \in Seq(Nat) /\ Len(sentAt') = n + 1 /\ sentAt'[n + 1] = now
        /\ \A i \in 1..n : sentAt'[i] = sentAt[i]
    BY <1>1, <1>4, DispatchHistory
  <2>2. Ended'
    BY <1>1, <2>1, SMTT(30) DEF Ended
  <2>3. SentAfter(account.last) \in SUBSET (1..n)
    BY DEF SentAfter
  <2>4. Cardinality(SentAfter(account.last)) \in Nat
    BY <1>1, <2>3, SentFinite
  <2>5. ASSUME NEW t \in 0..MaxTime
        PROVE  Cardinality(SentIn(t..(t + MinDelay - 1)))' <= 1 + faults'
    <3> DEFINE window == t..(t + MinDelay - 1)
    <3> DEFINE old == SentIn(window)
    <3> DEFINE new == SentIn(window)'
    <3>0. t \in Nat /\ \A x \in Int : x \in window <=> t <= x /\ x <= t + MinDelay - 1
      BY <1>1, PolicyAssumption
    <3>1. Cardinality(old) <= 1 + faults
      BY <1>1 DEF Paced
    <3> HIDE DEF window
    <3>2. /\ old \in SUBSET (1..n)
          /\ \A i \in 1..n : i \in old <=> sentAt[i] \in window
      BY DEF SentIn
    <3>3. new = {i \in 1..(n + 1) : sentAt'[i] \in window}
      BY <2>1 DEF SentIn, window
    <3> HIDE DEF old, new, n
    <3>6. n \in Nat /\ \A i \in 1..(n + 1) : i = n + 1 \/ i \in 1..n
      BY <1>1 DEF n
    <3>7. \A i \in 1..n : i \in 1..(n + 1) /\ i # n + 1 /\ sentAt'[i] = sentAt[i]
      BY <2>1, <3>6
    <3>8. sentAt'[n + 1] = now /\ n + 1 \in 1..(n + 1)
      BY <2>1, <3>6
    <3>4. CASE now \in window
      <4>1. ASSUME NEW i \in old PROVE i \in SentAfter(account.last)
        <5>1. i \in 1..n /\ sentAt[i] \in Nat /\ sentAt[i] \in window
          BY <1>1, <3>2 DEF n
        <5>2. t <= sentAt[i] /\ now <= t + MinDelay - 1
          BY <1>1, <3>0, <3>4, <5>1
        <5>3. account.last = None \/ sentAt[i] > account.last
          BY <1>1, <1>2, <3>0, <5>1, <5>2
        <5> QED BY <5>1, <5>3 DEF SentAfter, n
      <4>2. new \in SUBSET (old \cup {n + 1})
        <5>1. ASSUME NEW i \in new, i # n + 1 PROVE i \in old
          <6>1. i \in 1..n /\ sentAt'[i] \in window
            BY <3>3, <3>6, <5>1
          <6> QED BY <3>2, <3>7, <6>1
        <5> QED BY <5>1
      <4>3. Cardinality(old) \in Nat /\ Cardinality(old) <= Cardinality(SentAfter(account.last))
        <5>1. old \in SUBSET SentAfter(account.last)
          BY <4>1
        <5> QED BY <1>1, <2>3, <5>1, FewerSent
      <4>4. Cardinality(new) \in Nat /\ Cardinality(new) <= Cardinality(old) + 1
        BY <1>1, <3>2, <4>2, OneMoreSent
      <4> QED BY <1>1, <1>2, <2>4, <4>3, <4>4 DEF new, window
    <3>5. CASE now \notin window
      <4>1. new = old
        <5>1. ASSUME NEW i \in new PROVE i \in old
          <6>1. i \in 1..n /\ sentAt'[i] \in window
            BY <3>3, <3>5, <3>6, <3>8, <5>1
          <6> QED BY <3>2, <3>7, <6>1
        <5>2. ASSUME NEW i \in old PROVE i \in new
          <6>1. i \in 1..n /\ sentAt[i] \in window
            BY <3>2, <5>2
          <6> QED BY <3>3, <3>7, <6>1
        <5> QED BY <5>1, <5>2
      <4>2. Cardinality(old) \in Nat
        BY <1>1, <3>2, SentFinite
      <4> QED BY <1>1, <3>1, <4>1, <4>2 DEF new, window
    <3> QED BY <3>4, <3>5
  <2>6. Paced'
    BY <2>5 DEF Paced
  <2>7. SentAfter(account.last)' \in SUBSET (SentAfter(account.last) \cup {n + 1})
    BY <1>1, <2>1 DEF SentAfter
  <2>8. /\ Cardinality(SentAfter(account.last)') \in Nat
        /\ Cardinality(SentAfter(account.last)') <= Cardinality(SentAfter(account.last)) + 1
    BY <1>1, <2>3, <2>7, OneMoreSent
  <2>9. Cardinality(SentAfter(account.last)') <= faults + 1
    BY <1>1, <1>2, <2>4, <2>8
  <2>10. Pace(w)'
    BY <1>1, <1>4, <2>9 DEF Pace
  <2> QED BY <2>2, <2>6, <2>10 DEF PInv
<1> QED BY <1>3, <1>4

\* record_send: no message is younger than the counted one.
LEMMA CommitSentPInv ==
  ASSUME PInv, TypeOK', NEW w \in Workers, Workers = {w}, CommitSent(w) PROVE PInv'
<1>1. /\ TypeOK /\ Paced /\ Ended /\ faults \in Nat /\ now \in Nat
      /\ draft[w] \in Row /\ sentAt \in Seq(Nat)
      /\ phase'[w] = "idle"
      /\ UNCHANGED <<now, seen, draft, sentAt, faults>>
  BY PolicyAssumption DEF PInv, TypeOK, CommitSent
<1>2. account'.last = now
  BY <1>1 DEF CommitSent, RecordSend, Row
<1>3. Paced' /\ Ended'
  BY <1>1, QuietPaced
<1>4. SentAfter(account.last)' = {}
  BY <1>1, <1>2, PolicyAssumption DEF SentAfter, Ended
<1>5. Cardinality(SentAfter(account.last)') = 0
  BY <1>4, FS_EmptySet
<1>6. Pace(w)'
  BY <1>1, <1>5 DEF Pace
<1> QED BY <1>3, <1>6 DEF PInv

\* The other steps leave last_send_at and the messages alone; a crash before the
\* commit of a message is a fault of its own.
LEMMA OtherPInv ==
  ASSUME PInv, TypeOK', NEW w \in Workers, Workers = {w},
         \/ CommitSettled(w) \/ Crash(w)
         \/ ResetBegin \/ ResetCommit \/ ResetRollback \/ Restart \/ Tick \/ UNCHANGED vars
  PROVE  PInv'
<1>1. /\ TypeOK /\ Paced /\ Ended /\ Pace(w) /\ faults \in Nat /\ now \in Nat
      /\ account \in Row /\ account.last \in Nat \cup {None} /\ Len(sentAt) \in Nat
  BY PolicyAssumption DEF PInv, TypeOK, Row
<1>2. /\ UNCHANGED <<seen, draft, sentAt>>
      /\ faults' = faults \/ faults' = faults + 1
      /\ now' = now \/ now' = now + 1
      /\ phase' = phase \/ phase'[w] = "idle"
      /\ phase'[w] # phase[w] => phase[w] = "settled" \/ faults' = faults + 1
      /\ account'.last = account.last
  BY <1>1 DEF CommitSettled, Crash, ResetBegin, ResetCommit, ResetRollback, Restart, Tick,
              vars, TypeOK, Row
<1>3. Paced' /\ Ended'
  BY <1>1, <1>2, QuietPaced
<1>4. SentAfter(account.last)' = SentAfter(account.last)
  BY <1>2 DEF SentAfter
<1>5. Cardinality(SentAfter(account.last)) \in Nat
  <2>1. SentAfter(account.last) \in SUBSET (1..Len(sentAt))
    BY DEF SentAfter
  <2> QED BY <1>1, <2>1, SentFinite
<1>6. Pace(w)'
  BY <1>1, <1>2, <1>4, <1>5, PolicyAssumption DEF Pace
<1> QED BY <1>3, <1>6 DEF PInv

\* Two messages of an account with one worker are MinDelay apart, in every window of
\* time, but for those that a lost answer or a rolled back cycle has hidden.
THEOREM OneWorkerIsPaced == ASSUME NEW w, Workers = {w} PROVE Spec => []Paced
<1>1. PInv /\ TypeOK' /\ [Next]_vars => PInv'
  BY SelectPInv, EvaluatePInv, DispatchPInv, CommitSentPInv, OtherPInv DEF Next, WorkerStep
<1>2. PInv => Paced
  BY DEF PInv
<1> QED BY <1>1, <1>2, InitPInv, RatesTypeOK, PTL DEF Spec

-----------------------------------------------------------------------------
(* Caps and days                                                           *)

\* Some campaign has the highest cap: finite sets of caps shrink strictly from a cap
\* to a higher one.
LEMMA HighestCapType ==
  /\ HighestCap \in Nat \ {0}
  /\ \A cap \in DailyCaps : cap <= HighestCap
<1> DEFINE Higher(cap) == {c \in DailyCaps : c > cap}
<1> DEFINE T == {Higher(cap) : cap \in DailyCaps}
<1> DEFINE R == StrictSubsetOrdering(DailyCaps)
<1>1. T \subseteq FiniteSubsetsOf(DailyCaps) /\ T # {}
  <2>1. \A cap \in DailyCaps : Higher(cap) \subseteq DailyCaps /\ IsFiniteSet(Higher(cap))
    BY PolicyAssumption, FS_Subset
  <2> QED BY <2>1, PolicyAssumption DEF FiniteSubsetsOf
<1>2. IsWellFoundedOn(R, FiniteSubsetsOf(DailyCaps))
  BY FS_StrictSubsetOrderingWellFounded
<1> HIDE DEF T, R
<1>3. PICK x \in T : \A y \in T : ~(<<y, x>> \in R)
  BY <1>1, <1>2, WFMin
<1>4. PICK cap \in DailyCaps : x = Higher(cap)
  BY <1>3 DEF T
<1>5. \A c \in DailyCaps : c <= cap
  <2> SUFFICES ASSUME NEW c \in DailyCaps, ~(c <= cap) PROVE FALSE
    OBVIOUS
  <2>1. c \in Nat /\ cap \in Nat /\ c > cap
    BY PolicyAssumption
  <2>2. c \in Higher(cap) /\ c \notin Higher(c)
    BY <2>1
  <2>3. \A d \in Higher(c) : d \in Higher(cap)
    BY <2>1, PolicyAssumption
  <2>4. Higher(c) \in SUBSET DailyCaps /\ Higher(cap) \in SUBSET DailyCaps
    OBVIOUS
  <2> HIDE DEF Higher
  <2>5. <<Higher(c), Higher(cap)>> \in R
    BY <2>2, <2>3, <2>4 DEF R, StrictSubsetOrdering
  <2>6. Higher(c) \in T
    BY DEF T
  <2> QED BY <1>3, <1>4, <2>5, <2>6
<1>6. HighestCap \in DailyCaps /\ \A c \in DailyCaps : c <= HighestCap
  BY <1>5 DEF HighestCap
<1> QED BY <1>6, PolicyAssumption

\* A quotient does not fall when the dividend rises.
LEMMA QuotientRises ==
  ASSUME NEW a \in Nat, NEW b \in Nat, a <= b, NEW c \in Nat \ {0}
  PROVE  a \div c \in Nat /\ b \div c \in Nat /\ a \div c <= b \div c
<1> DEFINE p == a \div c
<1> DEFINE q == b \div c
<1>1. /\ p \in Nat /\ q \in Nat
      /\ a = c * p + (a % c) /\ (a % c) \in 0..(c - 1)
      /\ b = c * q + (b % c) /\ (b % c) \in 0..(c - 1)
  OBVIOUS
<1> HIDE DEF p, q
<1>2. ASSUME q < p PROVE FALSE
  <2>1. c * p \in Nat /\ c * q \in Nat /\ c * (q + 1) = c * q + c
    BY <1>1
  <2>2. c * (q + 1) <= c * p
    BY <1>1, <1>2
  <2> QED BY <1>1, <2>1, <2>2
<1>3. p <= q
  BY <1>1, <1>2
<1> QED BY <1>1, <1>3 DEF p, q

\* Calendar days follow each other.
LEMMA DaysPass ==
  ASSUME NEW s \in Nat, NEW t \in Nat, s <= t
  PROVE  Day(s) \in Nat /\ Day(t) \in Nat /\ Day(s) <= Day(t)
<1>1. Hour(s) \in Nat /\ Hour(t) \in Nat /\ Hour(s) <= Hour(t)
  BY QuotientRises, PolicyAssumption DEF Hour
<1> QED BY <1>1, QuotientRises, PolicyAssumption DEF Day

-----------------------------------------------------------------------------
(* The allowance of a calendar day                                         *)

NoLater(d, e) == d = None \/ (e # None /\ d <= e)
Today == Day(now)

\* What a reset that is due or under way will give today; what the row gives today.
ResetLeft == IF maint.dayMark # Today \/ (maint.busy /\ maint.resetDay)
             THEN HighestCap ELSE 0
Left == IF account.day = Today \/ account.day = None
        THEN HighestCap - account.today ELSE HighestCap

\* What a day allows, and what is neither sent today nor left for a reset.
Budget == HighestCap * (2 + restarts) + faults
Spare == Budget - Cardinality(SentOn(Today)) - ResetLeft

RowKnown ==
    /\ account.today <= HighestCap
    /\ account.day = None => account.today = 0
    /\ NoLater(account.day, Today)
    /\ NoLater(maint.dayMark, Today)
    /\ maint.busy => maint.dayMark # None /\ NoLater(account.day, maint.dayMark)

\* A reset is all that can overtake the only worker: the row it read is the committed
\* one, or the counter is zero.
Reads(w) ==
    /\ account.today = 0 \/ (account.today = seen[w].today /\ account.day = seen[w].day)
    /\ NoLater(seen[w].day, account.day)
    /\ seen[w].day = None => seen[w].today = 0
    /\ seen[w].today <= HighestCap

Drafts(w) ==
    /\ draft[w].day # None
    /\ NoLater(seen[w].day, draft[w].day)
    /\ NoLater(draft[w].day, Today)
    /\ draft[w].today = seen[w].today \/ (draft[w].today = 0 /\ draft[w].day # seen[w].day)
    /\ phase[w] # "settled" => draft[w].today < HighestCap

\* A draft of today counts today; one from before midnight opens today's allowance.
Evaluated(w) == phase[w] \in {"cleared", "settled", "sent"}
Due(w) == Evaluated(w) /\ draft[w].day = Today

\* What the row leaves for today is covered, but for the message on its way.
Paid(w) ==
    /\ Left <= Spare + (IF phase[w] = "cleared" /\ ~Due(w) THEN 0
                        ELSE IF phase[w] = "sent" /\ Due(w) THEN 2 ELSE 1)
    /\ Due(w) => HighestCap - draft[w].today <= Spare + IF phase[w] = "sent" THEN 2 ELSE 1

PastDays == \A d \in Nat : d < Today => Cardinality(SentOn(d)) <= Budget + 1

DInv ==
    /\ TypeOK
    /\ Ended
    /\ RowKnown
    /\ \A w \in Workers : /\ phase[w] # "idle" => Reads(w)
                          /\ Evaluated(w) => Drafts(w)
                          /\ Paid(w)
    /\ PastDays

\* The days of a row that are no later than each other.
LEMMA NoLaterIsTransitive ==
  ASSUME NEW d \in Nat \cup {None}, NEW e \in Nat \cup {None}, NEW f \in Nat \cup {None},
         NoLater(d, e), NoLater(e, f)
  PROVE  NoLater(d, f)
BY PolicyAssumption DEF NoLater

\* The types of the quantities.
LEMMA Quantities ==
  ASSUME TypeOK
  PROVE  /\ now \in Nat /\ Today \in Nat /\ HighestCap \in Nat /\ HighestCap > 0
         /\ restarts \in Nat /\ faults \in Nat /\ sentAt \in Seq(Nat) /\ Len(sentAt) \in Nat
         /\ \A d : Cardinality(SentOn(d)) \in Nat
         /\ ResetLeft \in Nat /\ (ResetLeft = 0 \/ ResetLeft = HighestCap)
         /\ Budget \in Nat /\ Budget >= HighestCap + HighestCap
         /\ Spare \in Int /\ Spare = Budget - Cardinality(SentOn(Today)) - ResetLeft
         /\ account \in Row /\ account.today \in Nat /\ account.day \in Nat \cup {None}
         /\ maint.dayMark \in Nat \cup {None} /\ None \notin Int
         /\ Left \in Int
<1>1. /\ now \in Nat /\ restarts \in Nat /\ faults \in Nat
      /\ sentAt \in Seq(Nat) /\ Len(sentAt) \in Nat
      /\ account \in Row /\ maint.dayMark \in Nat \cup {None} /\ None \notin Int
  BY PolicyAssumption DEF TypeOK
<1>2. account.today \in Nat /\ account.day \in Nat \cup {None}
  BY <1>1 DEF Row
<1>3. Today \in Nat
  BY <1>1, DaysPass DEF Today
<1>4. HighestCap \in Nat /\ HighestCap > 0
  BY HighestCapType
<1>5. ASSUME NEW d PROVE Cardinality(SentOn(d)) \in Nat
  <2>1. SentOn(d) \in SUBSET (1..Len(sentAt))
    BY DEF SentOn
  <2> QED BY <1>1, <2>1, SentFinite
<1>6. ResetLeft \in Nat /\ (ResetLeft = 0 \/ ResetLeft = HighestCap)
  BY <1>4 DEF ResetLeft
<1>7. Budget \in Nat /\ Budget >= HighestCap + HighestCap
  <2>1. /\ HighestCap * restarts \in Nat
        /\ HighestCap * (2 + restarts) = HighestCap + HighestCap + HighestCap * restarts
    BY <1>1, <1>4
  <2> QED BY <1>1, <1>4, <2>1 DEF Budget
<1>8. Spare \in Int /\ Spare = Budget - Cardinality(SentOn(Today)) - ResetLeft
  BY <1>5, <1>6, <1>7 DEF Spare
<1>9. Left \in Int
  BY <1>2, <1>4 DEF Left
<1> QED BY <1>1, <1>2, <1>3, <1>4, <1>5, <1>6, <1>7, <1>8, <1>9

\* In a step that neither sends nor ends the day, faults and restarts add to the spare
\* messages, and so does a reset that is no longer due.
LEMMA StillToday ==
  ASSUME TypeOK, TypeOK', Ended, PastDays, now' = now, sentAt' = sentAt,
         faults <= faults', restarts' = restarts \/ restarts' = restarts + 1
  PROVE  /\ Ended' /\ PastDays' /\ Today' = Today
         /\ restarts' = restarts =>
               Spare' = Spare + (faults' - faults) + (ResetLeft - ResetLeft')
         /\ restarts' = restarts + 1 =>
               Spare' = Spare + HighestCap + (faults' - faults) + (ResetLeft - ResetLeft')
<1>1. /\ restarts \in Nat /\ faults \in Nat /\ faults' \in Nat
      /\ HighestCap \in Nat /\ Budget \in Nat /\ ResetLeft \in Nat
      /\ ResetLeft' \in Nat /\ Cardinality(SentOn(Today)) \in Nat
      /\ Spare = Budget - Cardinality(SentOn(Today)) - ResetLeft
      /\ \A d : Cardinality(SentOn(d)) \in Nat
  BY Quantities DEF TypeOK, ResetLeft
<1>2. Today' = Today /\ Ended'
  BY DEF Today, Ended
<1>3. \A d : SentOn(d)' = SentOn(d)
  BY DEF SentOn
<1>4. SentOn(Today)' = SentOn(Today)
  BY <1>2 DEF SentOn
<1>5. /\ restarts' = restarts => Budget' = Budget + (faults' - faults)
      /\ restarts' = restarts + 1 => Budget' = Budget + HighestCap + (faults' - faults)
  <2>1. /\ HighestCap * (2 + restarts) \in Nat
        /\ HighestCap * (2 + (restarts + 1)) = HighestCap * (2 + restarts) + HighestCap
    BY <1>1
  <2>2. Budget' = HighestCap * (2 + restarts') + faults'
    BY DEF Budget
  <2> QED BY <1>1, <2>1, <2>2 DEF Budget
<1>6. Spare' = Budget' - Cardinality(SentOn(Today)) - ResetLeft'
  BY <1>4 DEF Spare
<1>7. PastDays'
  BY <1>1, <1>2, <1>3, <1>5 DEF PastDays
<1> QED BY <1>1, <1>2, <1>5, <1>6, <1>7

\* Whatever is under way: at least the spare messages are not overdrawn by two.
LEMMA NotOverdrawn ==
  ASSUME DInv, NEW w \in Workers
  PROVE  Left \in 0..HighestCap /\ Spare >= -1 /\ (phase[w] = "idle" => Spare >= Left - 1)
<1>1. /\ HighestCap \in Nat /\ account.today \in Nat /\ account.today <= HighestCap
      /\ Spare \in Int /\ Left \in Int
  BY Quantities DEF DInv, RowKnown
<1>2. Left \in 0..HighestCap
  BY <1>1 DEF Left
<1>3. Paid(w) /\ (Evaluated(w) => Drafts(w))
  BY DEF DInv
<1>4. CASE phase[w] = "sent" /\ Due(w)
  <2>1. draft[w].today < HighestCap /\ HighestCap - draft[w].today <= Spare + 2
    BY <1>3, <1>4 DEF Paid, Drafts, Evaluated
  <2>2. draft[w].today \in Nat
    BY DEF DInv, TypeOK, Row
  <2> QED BY <1>1, <1>2, <1>4, <2>1, <2>2
<1>5. CASE ~(phase[w] = "sent" /\ Due(w))
  BY <1>1, <1>2, <1>3, <1>5 DEF Paid
<1> QED BY <1>2, <1>4, <1>5

LEMMA InitDInv == Init => DInv
<1> SUFFICES ASSUME Init PROVE DInv
  OBVIOUS
<1>1. TypeOK
  BY InitLInv DEF LInv
<1>2. Today = 0
  <2>1. \A n \in Nat \ {0} : 0 \div n = 0
    OBVIOUS
  <2> QED BY <2>1, PolicyAssumption DEF Today, Day, Hour, Init
<1>3. Len(sentAt) = 0 /\ 1..0 = {}
  BY DEF Init
<1>4. Ended /\ PastDays
  BY <1>2, <1>3 DEF Ended, PastDays
<1>5. SentOn(Today) = {}
  BY <1>3 DEF SentOn
<1>6. Cardinality(SentOn(Today)) = 0
  BY <1>5, FS_EmptySet
<1>7. Left <= Spare
  <2>1. Left = HighestCap
    BY <1>1, Quantities DEF Init, FreshRow, Left
  <2> QED BY <1>1, <1>6, <2>1, Quantities, SMTT(30)
<1>8. \A w \in Workers : phase[w] = "idle" /\ ~Due(w) /\ ~Evaluated(w)
  BY DEF Init, Due, Evaluated
<1>9. \A w \in Workers : Paid(w)
  BY <1>1, <1>7, <1>8, Quantities, SMTT(30) DEF Paid
<1>10. RowKnown
  BY <1>1, Quantities DEF RowKnown, Init, FreshRow, FreshProcess, NoLater
<1> QED BY <1>1, <1>4, <1>8, <1>9, <1>10 DEF DInv

\* The row is read: what the worker knows is what is committed.
LEMMA SelectDInv ==
  ASSUME DInv, TypeOK', NEW w \in Workers, Workers = {w}, Select(w) PROVE DInv'
<1>1. /\ phase[w] = "idle" /\ phase'[w] = "selected"
      /\ seen'[w] = account /\ draft'[w] = account
      /\ UNCHANGED <<now, account, maint, sentAt, faults, restarts>>
  BY DEF DInv, TypeOK, Select
<1>2. /\ TypeOK /\ Ended /\ RowKnown /\ PastDays /\ Paid(w)
  BY DEF DInv
<1>3. Ended' /\ PastDays' /\ Today' = Today
  BY <1>1, <1>2, StillToday, Quantities
<1>4. ResetLeft' = ResetLeft /\ Left' = Left
  BY <1>1, <1>3 DEF ResetLeft, Left
<1>5. Spare' = Spare
  BY <1>1, <1>2, <1>4, StillToday, Quantities, SMTT(30)
<1>6. RowKnown'
  BY <1>1, <1>2, <1>3 DEF RowKnown
<1>7. Reads(w)'
  BY <1>1, <1>2, Quantities DEF Reads, RowKnown, NoLater
<1>8. ~Evaluated(w)' /\ ~Due(w)'
  BY <1>1 DEF Evaluated, Due
<1>9. Paid(w)'
  BY <1>1, <1>2, <1>4, <1>5, <1>8 DEF Paid, Due, Evaluated
<1> QED BY <1>3, <1>6, <1>7, <1>8, <1>9 DEF DInv

\* The policy is asked: the draft opens today's allowance only where the committed row
\* does too.
LEMMA EvaluateDInv ==
  ASSUME DInv, TypeOK', NEW w \in Workers, Workers = {w}, NEW cap \in DailyCaps,
         Evaluate(w, cap)
  PROVE  DInv'
<1> DEFINE row == ResetForDay(seen[w])
<1>1. /\ phase[w] = "selected" /\ draft'[w] = row
      /\ phase'[w] = IF AtLimit(row, cap) \/ TooSoon(row) THEN "settled" ELSE "cleared"
      /\ UNCHANGED <<now, account, seen, maint, sentAt, faults, restarts>>
  BY DEF DInv, TypeOK, Evaluate
<1>2. /\ TypeOK /\ Ended /\ RowKnown /\ PastDays /\ Paid(w) /\ Reads(w)
      /\ seen[w] \in Row /\ seen[w].today \in Nat /\ seen[w].day \in Nat \cup {None}
  BY <1>1 DEF DInv, TypeOK, Row
<1>3. Ended' /\ PastDays' /\ Today' = Today
  BY <1>1, <1>2, StillToday, Quantities, SMTT(30)
<1>4. ResetLeft' = ResetLeft /\ Left' = Left
  BY <1>1, <1>3 DEF ResetLeft, Left
<1>5. Spare' = Spare
  BY <1>1, <1>2, <1>4, StillToday, Quantities, SMTT(30)
<1>6. RowKnown'
  BY <1>1, <1>2, <1>3 DEF RowKnown
<1>7. Reads(w)'
  BY <1>1, <1>2 DEF Reads
<1>8. /\ row \in Row /\ row.today \in Nat
      /\ row.day = Today
      /\ row.today = IF seen[w].day # None /\ seen[w].day # Today THEN 0 ELSE seen[w].today
  <2>1. /\ row \in Row
        /\ row.today = IF DayChanged(seen[w]) THEN 0 ELSE seen[w].today
    BY <1>2, ResetRow
  <2>2. row.day = Today
    BY <1>2, Quantities DEF ResetForDay, ResetOnly, Today, Row
  <2> QED BY <2>1, <2>2 DEF DayChanged, Today, Row
<1>9. phase'[w] \in {"settled", "cleared"} /\ (phase'[w] = "cleared" => row.today < HighestCap)
  <2>1. phase'[w] = "cleared" => row.today < cap
    BY <1>1, <1>8, PolicyAssumption DEF AtLimit
  <2>2. cap \in Nat /\ HighestCap \in Nat /\ cap <= HighestCap
    BY HighestCapType, PolicyAssumption
  <2> QED BY <1>1, <1>8, <2>1, <2>2
<1> HIDE DEF row
<1>10. Drafts(w)'
  <2>1. NoLater(seen[w].day, Today)
    <3>1. NoLater(seen[w].day, account.day) /\ NoLater(account.day, Today)
      BY <1>2 DEF Reads, RowKnown
    <3> QED BY <1>2, <3>1, Quantities, NoLaterIsTransitive
  <2>2. row.today = seen[w].today \/ (row.today = 0 /\ row.day # seen[w].day)
    BY <1>8
  <2> QED BY <1>1, <1>2, <1>3, <1>8, <1>9, <2>1, <2>2, Quantities DEF Drafts, NoLater
<1>11. Due(w)'
  BY <1>1, <1>3, <1>8, <1>9 DEF Due, Evaluated
<1>12. HighestCap - row.today <= Left
  <2>1. /\ HighestCap \in Nat /\ account.today \in Nat /\ Today \in Nat
        /\ account.day \in Nat \cup {None} /\ None \notin Int
    BY <1>2, Quantities
  <2>2. /\ account.today = 0 \/ (account.today = seen[w].today /\ account.day = seen[w].day)
        /\ account.day = None => account.today = 0
        /\ NoLater(seen[w].day, account.day) /\ NoLater(account.day, Today)
        /\ seen[w].day = None => seen[w].today = 0
    BY <1>2 DEF Reads, RowKnown
  <2>3. CASE account.today = 0
    BY <1>8, <2>1, <2>3 DEF Left
  <2>4. CASE account.today = seen[w].today /\ account.day = seen[w].day
    BY <1>8, <2>1, <2>2, <2>4 DEF Left
  <2> QED BY <2>2, <2>3, <2>4
<1>13. Left <= Spare + 1
  BY <1>1, <1>2 DEF Paid
<1>14. Paid(w)'
  <2>1. HighestCap - row.today <= Spare + 1
    <3>1. HighestCap \in Nat /\ Left \in Int /\ Spare \in Int
      BY <1>2, Quantities
    <3> QED BY <1>8, <1>12, <1>13, <3>1
  <2>2. phase'[w] # "sent"
    BY <1>9
  <2> QED BY <1>1, <1>4, <1>5, <1>11, <1>13, <2>1, <2>2 DEF Paid
<1> QED BY <1>3, <1>6, <1>7, <1>10, <1>14 DEF DInv

\* The message leaves, and one fewer is spare; or its answer is lost, which is a fault.
LEMMA DispatchDInv ==
  ASSUME DInv, TypeOK', NEW w \in Workers, Workers = {w},
         NEW reply \in {"accepted", "lost", "refused"}, Dispatch(w, reply)
  PROVE  DInv'
<1> DEFINE n == Len(sentAt)
<1>1. /\ phase[w] = "cleared"
      /\ phase'[w] = IF reply = "accepted" THEN "sent" ELSE "settled"
      /\ faults' = IF reply = "lost" THEN faults + 1 ELSE faults
      /\ UNCHANGED <<now, account, seen, draft, maint, restarts>>
  BY DEF DInv, TypeOK, Dispatch
<1>2. /\ TypeOK /\ Ended /\ RowKnown /\ PastDays /\ Paid(w) /\ Reads(w) /\ Drafts(w)
      /\ draft[w].today \in Nat
  BY <1>1 DEF DInv, TypeOK, Row, Evaluated
<1>0. /\ HighestCap \in Nat /\ Left \in Int /\ Spare \in Int /\ Budget \in Nat
      /\ restarts \in Nat /\ faults \in Nat /\ faults' \in Nat /\ now \in Nat /\ n \in Nat
      /\ Cardinality(SentOn(Today)) \in Nat /\ ResetLeft \in Nat
      /\ Spare = Budget - Cardinality(SentOn(Today)) - ResetLeft
  BY <1>2, Quantities DEF TypeOK
<1>3. /\ Today' = Today /\ ResetLeft' = ResetLeft /\ Left' = Left
      /\ Budget' = IF reply = "lost" THEN Budget + 1 ELSE Budget
  <2>1. Today' = Today
    BY <1>1 DEF Today
  <2>2. ResetLeft' = ResetLeft /\ Left' = Left
    BY <1>1, <2>1 DEF ResetLeft, Left
  <2>3. PICK caps \in Nat : caps = HighestCap * (2 + restarts)
    BY <1>0
  <2>4. Budget = caps + faults /\ Budget' = caps + faults'
    BY <1>1, <2>3 DEF Budget
  <2>5. Budget' = IF reply = "lost" THEN Budget + 1 ELSE Budget
    BY <1>0, <1>1, <2>4
  <2> QED BY <2>1, <2>2, <2>5
<1>4. RowKnown'
  BY <1>1, <1>2, <1>3 DEF RowKnown
<1>5. Reads(w)'
  BY <1>1, <1>2 DEF Reads
<1>6. Drafts(w)'
  BY <1>1, <1>2, <1>3 DEF Drafts
<1>7. Evaluated(w)' /\ Due(w)' = Due(w)
  BY <1>1, <1>3 DEF Due, Evaluated
<1>8. CASE reply = "refused"
  <2>1. sentAt' = sentAt
    BY <1>2, <1>8, DispatchHistory
  <2>2. /\ Ended' /\ PastDays' /\ Spare' = Spare /\ phase'[w] = "settled"
    <3>1. /\ faults' = faults /\ phase'[w] = "settled"
      BY <1>1, <1>8
    <3>2. Ended' /\ PastDays' /\ Spare' = Spare + (faults' - faults) + (ResetLeft - ResetLeft')
      BY <1>0, <1>1, <1>2, <2>1, <3>1, StillToday
    <3> QED BY <1>0, <1>3, <3>1, <3>2
  <2>3. Paid(w)'
    <3>1. /\ Left <= Spare + 1
          /\ Due(w) => HighestCap - draft[w].today <= Spare + 1
      BY <1>0, <1>1, <1>2 DEF Paid
    <3> QED BY <1>1, <1>3, <1>7, <2>2, <3>1 DEF Paid
  <2> QED BY <1>4, <1>5, <1>6, <2>2, <2>3 DEF DInv
<1>9. CASE reply # "refused"
  <2>1. /\ sentAt' \in Seq(Nat) /\ Len(sentAt') = n + 1 /\ sentAt'[n + 1] = now
        /\ \A i \in 1..n : sentAt'[i] = sentAt[i]
    BY <1>2, <1>9, DispatchHistory
  <2>2. n \in Nat /\ now \in Nat /\ \A i \in 1..(n + 1) : i = n + 1 \/ i \in 1..n
    BY <1>0
  <2>3. Ended'
    BY <1>1, <1>2, <2>1, <2>2 DEF Ended
  <2>4. \A d : SentOn(d) \in SUBSET (1..n)
    BY DEF SentOn
  <2>5. Cardinality(SentOn(Today)') \in Nat
        /\ Cardinality(SentOn(Today)') <= Cardinality(SentOn(Today)) + 1
    <3>1. SentOn(Today)' \in SUBSET (SentOn(Today) \cup {n + 1})
      BY <1>3, <2>1, <2>2 DEF SentOn
    <3> QED BY <2>2, <2>4, <3>1, OneMoreSent
  <2>6. ASSUME NEW d \in Nat, d < Today
        PROVE  Cardinality(SentOn(d)') <= Budget' + 1
    <3>1. SentOn(d)' = SentOn(d)
      <4>1. Day(sentAt'[n + 1]) # d
        BY <1>2, <2>1, <2>6, Quantities DEF Today
      <4> QED BY <2>1, <2>2, <4>1 DEF SentOn
    <3>2. Cardinality(SentOn(d)) <= Budget + 1
      BY <1>2, <2>6 DEF PastDays
    <3>3. Budget <= Budget' /\ Budget' \in Int
      BY <1>0, <1>1, <1>3
    <3>4. Cardinality(SentOn(d)) \in Nat
      BY <1>2, Quantities
    <3> QED BY <1>0, <3>1, <3>2, <3>3, <3>4
  <2>7. PastDays'
    BY <1>3, <2>6 DEF PastDays
  <2>8. /\ Spare' \in Int
        /\ reply = "lost" => Spare' >= Spare
        /\ reply = "accepted" => Spare' >= Spare - 1
    <3>1. Spare' = Budget' - Cardinality(SentOn(Today)') - ResetLeft'
      BY DEF Spare
    <3>2. Cardinality(SentOn(Today)') <= Cardinality(SentOn(Today)) + 1
      BY <2>5
    <3>3. CASE reply = "lost"
      <4>1. Spare' = (Budget + 1) - Cardinality(SentOn(Today)') - ResetLeft
        BY <1>3, <3>1, <3>3
      <4> QED BY <1>0, <2>5, <3>2, <3>3, <4>1
    <3>4. CASE reply = "accepted"
      <4>1. Spare' = Budget - Cardinality(SentOn(Today)') - ResetLeft
        BY <1>3, <3>1, <3>4
      <4> QED BY <1>0, <2>5, <3>2, <3>4, <4>1
    <3> QED BY <1>9, <3>3, <3>4
  <2>9. Paid(w)'
    <3>1. /\ Left <= Spare + 1
          /\ ~Due(w) => Left <= Spare
          /\ Due(w) => HighestCap - draft[w].today <= Spare + 1
      BY <1>0, <1>1, <1>2 DEF Paid
    <3>2. HighestCap - draft[w].today \in Int
      BY <1>0, <1>2
    <3>3. PICK s \in Int : s = Spare'
      BY <2>8
    <3>4. CASE reply = "lost"
      <4>1. phase'[w] = "settled" /\ s >= Spare
        BY <1>1, <2>8, <3>3, <3>4
      <4>2. /\ Left <= s + 1
            /\ Due(w) => HighestCap - draft[w].today <= s + 1
        BY <1>0, <3>1, <3>2, <4>1, SMTT(30)
      <4> QED BY <1>1, <1>3, <1>7, <3>3, <4>1, <4>2 DEF Paid
    <3>5. CASE reply = "accepted"
      <4>1. phase'[w] = "sent" /\ s >= Spare - 1
        BY <1>1, <2>8, <3>3, <3>5
      <4>2. /\ Left <= s + 2
            /\ ~Due(w) => Left <= s + 1
            /\ Due(w) => HighestCap - draft[w].today <= s + 2
        <5>1. Spare <= s + 1 /\ Left \in Int /\ Spare \in Int
          BY <1>0, <4>1
        <5>2. Left <= s + 2 /\ (~Due(w) => Left <= s + 1)
          BY <3>1, <5>1
        <5>3. ASSUME Due(w) PROVE HighestCap - draft[w].today <= s + 2
          BY <3>1, <3>2, <5>1, <5>3
        <5> QED BY <5>2, <5>3
      <4> QED BY <1>1, <1>3, <1>7, <3>3, <4>1, <4>2 DEF Paid
    <3> QED BY <1>9, <3>4, <3>5
  <2> QED BY <1>4, <1>5, <1>6, <2>3, <2>7, <2>9 DEF DInv
<1> QED BY <1>8, <1>9

\* When the counter of a late draft is behind, the row still gives a full allowance.
LEMMA LateDraft ==
  ASSUME DInv, NEW w \in Workers, Evaluated(w), draft[w].day # Today,
         draft[w].day # seen[w].day \/ account.day = Today
  PROVE  Left = HighestCap
<1>1. /\ Reads(w) /\ Drafts(w) /\ RowKnown /\ TypeOK
      /\ draft[w].day \in Nat \cup {None} /\ seen[w].day \in Nat \cup {None}
      /\ Today \in Nat /\ HighestCap \in Nat /\ account.today \in Nat
      /\ account.day \in Nat \cup {None} /\ None \notin Int
  BY Quantities DEF DInv, Evaluated, TypeOK, Row
<1>2. /\ draft[w].day \in Nat /\ draft[w].day < Today
      /\ seen[w].day = None \/ seen[w].day <= draft[w].day
  BY <1>1 DEF Drafts, NoLater
<1>3. CASE account.today = 0
  BY <1>1, <1>3 DEF Left
<1>4. CASE account.today # 0 /\ account.day = seen[w].day
  BY <1>1, <1>2, <1>4 DEF Left, RowKnown
<1> QED BY <1>1, <1>3, <1>4 DEF Reads

\* The cycle ends without a message: the draft opens no allowance that the row did not.
LEMMA CommitSettledDInv ==
  ASSUME DInv, TypeOK', NEW w \in Workers, Workers = {w}, CommitSettled(w) PROVE DInv'
<1>1. /\ phase[w] = "settled" /\ phase'[w] = "idle"
      /\ maint.busy => draft[w] = seen[w]
      /\ account'.today = IF draft[w].today # seen[w].today THEN draft[w].today
                                                            ELSE account.today
      /\ account'.day = IF draft[w].day # seen[w].day THEN draft[w].day ELSE account.day
      /\ UNCHANGED <<now, seen, draft, maint, sentAt, faults, restarts>>
  BY DEF DInv, TypeOK, Row, CommitSettled, Changed
<1>2. /\ TypeOK /\ Ended /\ RowKnown /\ PastDays /\ Paid(w) /\ Reads(w) /\ Drafts(w)
      /\ Evaluated(w)
  BY <1>1 DEF DInv, Evaluated
<1>3. /\ HighestCap \in Nat /\ Today \in Nat /\ Left \in Int /\ Spare \in Int
      /\ account.today \in Nat /\ account.day \in Nat \cup {None} /\ None \notin Int
      /\ seen[w].today \in Nat /\ seen[w].day \in Nat \cup {None}
      /\ draft[w].today \in Nat /\ draft[w].day \in Nat
  BY <1>2, Quantities DEF TypeOK, Row, Drafts
<1>4. Ended' /\ PastDays' /\ Today' = Today /\ ResetLeft' = ResetLeft
  <2>1. Ended' /\ PastDays' /\ Today' = Today
    BY <1>1, <1>2, <1>3, StillToday, Quantities
  <2> QED BY <1>1, <2>1 DEF ResetLeft
<1>5. Spare' = Spare
  BY <1>1, <1>2, <1>4, StillToday, Quantities, SMTT(30)
<1>6. Left' <= Spare + 1
  <2>1. Left <= Spare + 1 /\ (Due(w) => HighestCap - draft[w].today <= Spare + 1)
    BY <1>1, <1>2, <1>3 DEF Paid
  <2>2. CASE draft[w].day = seen[w].day
    <3>1. account'.today = account.today /\ account'.day = account.day
      BY <1>1, <1>2, <2>2 DEF Drafts
    <3>2. Left' = Left
      BY <1>4, <3>1 DEF Left
    <3> QED BY <2>1, <3>2
  <2>3. CASE draft[w].day # seen[w].day /\ draft[w].day # Today
    <3>1. Left = HighestCap
      BY <1>2, <2>3, LateDraft
    <3>2. Left' = HighestCap
      BY <1>1, <1>3, <1>4, <2>3 DEF Left
    <3> QED BY <2>1, <3>1, <3>2
  <2>4. CASE draft[w].day # seen[w].day /\ draft[w].day = Today
    <3>1. Left' = HighestCap - account'.today /\ Due(w)
      BY <1>1, <1>2, <1>3, <1>4, <2>4 DEF Left, Due
    <3>2. CASE account'.today = draft[w].today
      BY <2>1, <3>1, <3>2
    <3>3. CASE account'.today # draft[w].today
      <4>1. account'.today = 0 /\ account.today = 0
        BY <1>1, <1>2, <3>3 DEF Reads
      <4>2. Left = HighestCap /\ Left' = HighestCap
        BY <1>3, <3>1, <4>1 DEF Left
      <4> QED BY <2>1, <4>2
    <3> QED BY <3>2, <3>3
  <2> QED BY <2>2, <2>3, <2>4
<1>7. RowKnown'
  <2>1. account'.today <= HighestCap
    BY <1>1, <1>2, <1>3 DEF Drafts, RowKnown
  <2>2. account'.day = None => account'.today = 0
    BY <1>1, <1>2, <1>3 DEF Drafts, RowKnown, Reads, NoLater
  <2>3. NoLater(account'.day, Today)
    BY <1>1, <1>2 DEF Drafts, RowKnown
  <2>4. maint.busy => account'.day = account.day
    BY <1>1
  <2> QED BY <1>1, <1>2, <1>4, <2>1, <2>2, <2>3, <2>4 DEF RowKnown
<1>8. ~Evaluated(w)' /\ ~Due(w)'
  BY <1>1 DEF Evaluated, Due
<1>9. Paid(w)'
  BY <1>1, <1>5, <1>6, <1>8 DEF Paid
<1> QED BY <1>1, <1>4, <1>7, <1>8, <1>9 DEF DInv

\* record_send: the message is counted today, or in the day of a late draft.
LEMMA CommitSentDInv ==
  ASSUME DInv, TypeOK', NEW w \in Workers, Workers = {w}, CommitSent(w) PROVE DInv'
<1>1. /\ phase[w] = "sent" /\ phase'[w] = "idle" /\ ~maint.busy
      /\ account'.today = draft[w].today + 1
      /\ account'.day = IF draft[w].day # seen[w].day THEN draft[w].day ELSE account.day
      /\ UNCHANGED <<now, seen, draft, maint, sentAt, faults, restarts>>
  <2>1. draft[w] \in Row
    BY DEF DInv, TypeOK
  <2> QED BY <2>1 DEF DInv, TypeOK, Row, CommitSent, RecordSend, Changed
<1>2. /\ TypeOK /\ Ended /\ RowKnown /\ PastDays /\ Paid(w) /\ Reads(w) /\ Drafts(w)
      /\ Evaluated(w)
  BY <1>1 DEF DInv, Evaluated
<1>3. /\ HighestCap \in Nat /\ Today \in Nat /\ Left \in Int /\ Spare \in Int
      /\ account.today \in Nat /\ account.day \in Nat \cup {None} /\ None \notin Int
      /\ seen[w].today \in Nat /\ seen[w].day \in Nat \cup {None}
      /\ draft[w].today \in Nat /\ draft[w].day \in Nat
      /\ draft[w].today < HighestCap
  BY <1>1, <1>2, Quantities DEF TypeOK, Row, Drafts
<1>4. Ended' /\ PastDays' /\ Today' = Today /\ ResetLeft' = ResetLeft
  <2>1. Ended' /\ PastDays' /\ Today' = Today
    BY <1>1, <1>2, <1>3, StillToday, Quantities
  <2> QED BY <1>1, <2>1 DEF ResetLeft
<1>5. Spare' = Spare
  BY <1>1, <1>2, <1>4, StillToday, Quantities, SMTT(30)
<1>6. account'.day # None /\ NoLater(account'.day, Today)
  BY <1>1, <1>2, <1>3 DEF Drafts, RowKnown, Reads, NoLater
<1>7. Left' <= Spare + 1
  <2>1. CASE Due(w)
    <3>1. draft[w].day = Today /\ HighestCap - draft[w].today <= Spare + 2
      BY <1>1, <1>2, <2>1 DEF Due, Paid
    <3>2. account'.day = Today
      <4>1. CASE draft[w].day # seen[w].day
        BY <1>1, <3>1, <4>1
      <4>2. CASE draft[w].day = seen[w].day
        BY <1>1, <1>2, <1>3, <3>1, <4>2 DEF Reads, RowKnown, NoLater
      <4> QED BY <4>1, <4>2
    <3>3. Left' = HighestCap - (draft[w].today + 1)
      BY <1>1, <1>4, <3>2 DEF Left
    <3> QED BY <1>3, <3>1, <3>3
  <2>2. CASE ~Due(w)
    <3>1. draft[w].day # Today /\ Left <= Spare + 1
      BY <1>1, <1>2, <2>2 DEF Due, Paid
    <3>2. CASE account'.day = Today
      <4>1. Left = HighestCap
        BY <1>1, <1>2, <3>1, <3>2, LateDraft
      <4>2. Left' = HighestCap - (draft[w].today + 1)
        BY <1>1, <1>4, <3>2 DEF Left
      <4> QED BY <1>3, <3>1, <4>1, <4>2
    <3>3. CASE account'.day # Today
      <4>1. Left = HighestCap
        <5>1. CASE draft[w].day # seen[w].day
          BY <1>2, <3>1, <5>1, LateDraft
        <5>2. CASE draft[w].day = seen[w].day
          BY <1>1, <1>3, <1>6, <3>3, <5>2 DEF Left
        <5> QED BY <5>1, <5>2
      <4>2. Left' = HighestCap
        BY <1>4, <1>6, <3>3 DEF Left
      <4> QED BY <3>1, <4>1, <4>2
    <3> QED BY <3>2, <3>3
  <2> QED BY <2>1, <2>2
<1>8. RowKnown'
  BY <1>1, <1>2, <1>3, <1>4, <1>6 DEF RowKnown
<1>9. ~Evaluated(w)' /\ ~Due(w)'
  BY <1>1 DEF Evaluated, Due
<1>10. Paid(w)'
  BY <1>1, <1>5, <1>7, <1>9 DEF Paid
<1> QED BY <1>1, <1>4, <1>8, <1>9, <1>10 DEF DInv

\* The worker's cycle is undone, which is a fault.
LEMMA CrashDInv ==
  ASSUME DInv, TypeOK', NEW w \in Workers, Workers = {w}, Crash(w) PROVE DInv'
<1>1. /\ phase'[w] = "idle" /\ faults' = faults + 1
      /\ UNCHANGED <<now, account, seen, draft, maint, sentAt, restarts>>
  BY DEF DInv, TypeOK, Crash
<1>2. /\ TypeOK /\ Ended /\ RowKnown /\ PastDays /\ Paid(w)
      /\ HighestCap \in Nat /\ Left \in Int /\ Spare \in Int /\ faults \in Nat
      /\ ResetLeft \in Nat
  BY Quantities DEF DInv
<1>3. Ended' /\ PastDays' /\ Today' = Today
  BY <1>1, <1>2, StillToday
<1>4. ResetLeft' = ResetLeft /\ Left' = Left
  BY <1>1, <1>3 DEF ResetLeft, Left
<1>5. Spare' = Spare + 1
  <2>1. Spare' = Spare + (faults' - faults) + (ResetLeft - ResetLeft')
    BY <1>1, <1>2, StillToday
  <2> QED BY <1>1, <1>2, <1>4, <2>1
<1>6. RowKnown'
  BY <1>1, <1>2, <1>3 DEF RowKnown
<1>7. ~Evaluated(w)' /\ ~Due(w)'
  BY <1>1 DEF Evaluated, Due
<1>8. Left <= Spare + 2
  BY <1>2 DEF Paid
<1>9. Left' <= Spare' + 1
  BY <1>2, <1>4, <1>5, <1>8
<1>10. Paid(w)'
  BY <1>1, <1>7, <1>9 DEF Paid
<1> QED BY <1>1, <1>3, <1>6, <1>7, <1>10 DEF DInv

\* More spare messages are no harm to a worker whose cycle goes on.
LEMMA MoreSpare ==
  ASSUME DInv, NEW w \in Workers, TypeOK', Today' = Today, Left' = Left,
         UNCHANGED <<phase, draft>>, NEW s \in Int, Spare' = s, Spare <= s
  PROVE  Paid(w)'
<1>1. /\ HighestCap \in Nat /\ Left \in Int /\ Spare \in Int /\ draft[w].today \in Nat
      /\ Paid(w)
  BY Quantities DEF DInv, TypeOK, Row
<1>3. Due(w)' = Due(w)
  BY DEF Due, Evaluated
<1>4. HighestCap - draft[w].today \in Int
  BY <1>1
<1>6. ASSUME NEW x \in Int, NEW k \in {0, 1, 2}, x <= Spare + k PROVE x <= s + k
  BY <1>1, <1>6
<1>7. Left <= s + (IF phase[w] = "cleared" /\ ~Due(w) THEN 0
                   ELSE IF phase[w] = "sent" /\ Due(w) THEN 2 ELSE 1)
  BY <1>1, <1>6 DEF Paid
<1>8. Due(w) => HighestCap - draft[w].today <= s + IF phase[w] = "sent" THEN 2 ELSE 1
  BY <1>1, <1>4, <1>6 DEF Paid
<1> QED BY <1>3, <1>7, <1>8 DEF Paid

\* The maintenance worker's reset begins, fails, or is forgotten in a restart: what it
\* will still give today is paid for, by a fault or by the restart.
LEMMA ResetDInv ==
  ASSUME DInv, TypeOK', NEW w \in Workers, Workers = {w}, ResetBegin \/ ResetRollback \/ Restart
  PROVE  DInv'
<1>1. /\ UNCHANGED <<now, account, phase, seen, draft, sentAt>>
      /\ faults' = faults \/ faults' = faults + 1
      /\ restarts' = restarts \/ restarts' = restarts + 1
  BY DEF ResetBegin, ResetRollback, Restart
<1>2. /\ TypeOK /\ Ended /\ RowKnown /\ PastDays
      /\ (phase[w] # "idle" => Reads(w)) /\ (Evaluated(w) => Drafts(w))
  BY DEF DInv
<1>3. /\ HighestCap \in Nat /\ Today \in Nat /\ Spare \in Int /\ faults \in Nat
      /\ restarts \in Nat /\ ResetLeft \in Nat /\ None \notin Int
      /\ ResetLeft = 0 \/ ResetLeft = HighestCap
  BY <1>2, Quantities
<1>4. Ended' /\ PastDays' /\ Today' = Today
  BY <1>1, <1>2, <1>3, StillToday
<1>5. Left' = Left
  BY <1>1, <1>4 DEF Left
<1>6. RowKnown' /\ \E s \in Int : Spare' = s /\ Spare <= s
  <2>1. CASE ResetBegin
    <3>1. /\ ~maint.busy /\ maint'.dayMark = Today /\ maint'.busy
          /\ maint'.resetDay = (Today # maint.dayMark)
          /\ faults' = faults /\ restarts' = restarts
      BY <2>1 DEF ResetBegin, Today
    <3>2. ResetLeft' = ResetLeft
      BY <1>4, <3>1 DEF ResetLeft
    <3>3. Spare' = Spare
      <4>1. Spare' = Spare + (faults' - faults) + (ResetLeft - ResetLeft')
        BY <1>1, <1>2, <1>3, <3>1, StillToday
      <4> QED BY <1>3, <3>1, <3>2, <4>1
    <3>4. RowKnown'
      BY <1>1, <1>2, <1>3, <1>4, <3>1 DEF RowKnown, NoLater
    <3> QED BY <1>3, <3>3, <3>4
  <2>2. CASE ResetRollback
    <3>1. /\ maint.busy /\ maint'.dayMark = maint.dayMark /\ ~maint'.busy
          /\ faults' = faults + 1 /\ restarts' = restarts
      BY <1>2, <2>2 DEF ResetRollback, TypeOK
    <3>2. ResetLeft' = 0 \/ ResetLeft' = ResetLeft
      BY <1>4, <3>1 DEF ResetLeft
    <3>3. Spare' = Spare + (faults' - faults) + (ResetLeft - ResetLeft')
      BY <1>1, <1>2, <1>3, <3>1, StillToday
    <3>4. Spare' = Spare + 1 \/ Spare' = Spare + 1 + ResetLeft
      BY <1>3, <3>1, <3>2, <3>3
    <3>5. RowKnown'
      BY <1>1, <1>2, <1>4, <3>1 DEF RowKnown
    <3>6. /\ Spare + 1 \in Int /\ Spare <= Spare + 1
          /\ Spare + 1 + ResetLeft \in Int /\ Spare <= Spare + 1 + ResetLeft
      BY <1>3
    <3> QED BY <3>4, <3>5, <3>6
  <2>3. CASE Restart
    <3>1. /\ maint'.dayMark = None /\ ~maint'.busy
          /\ faults' = faults /\ restarts' = restarts + 1
      BY <2>3 DEF Restart, FreshProcess
    <3>2. ResetLeft' = HighestCap
      BY <1>3, <1>4, <3>1 DEF ResetLeft
    <3>3. Spare' = Spare + HighestCap + (faults' - faults) + (ResetLeft - ResetLeft')
      BY <1>1, <1>2, <1>3, <3>1, StillToday
    <3>4. Spare' = Spare + ResetLeft
      BY <1>3, <3>1, <3>2, <3>3
    <3>5. RowKnown'
      BY <1>1, <1>2, <1>4, <3>1 DEF RowKnown, NoLater
    <3>6. Spare + ResetLeft \in Int /\ Spare <= Spare + ResetLeft
      BY <1>3
    <3> QED BY <3>4, <3>5, <3>6
  <2> QED BY <2>1, <2>2, <2>3
<1>7. Paid(w)'
  BY <1>1, <1>4, <1>5, <1>6, MoreSpare
<1>8. (phase[w] # "idle" => Reads(w))' /\ (Evaluated(w) => Drafts(w))'
  BY <1>1, <1>2, <1>4 DEF Reads, Drafts, Evaluated
<1> QED BY <1>4, <1>6, <1>7, <1>8 DEF DInv

\* The reset commits: in its own day it uses the allowance that was kept for it; later
\* it finds a row that gives a full one anyway.
LEMMA ResetCommitDInv ==
  ASSUME DInv, TypeOK', NEW w \in Workers, Workers = {w}, ResetCommit PROVE DInv'
<1>1. /\ UNCHANGED <<now, phase, seen, draft, sentAt, faults, restarts>>
      /\ maint.busy /\ ~maint'.busy
      /\ maint'.dayMark = maint.dayMark /\ maint'.resetDay = maint.resetDay
      /\ account'.today = IF maint.resetDay THEN 0 ELSE account.today
      /\ account'.day = IF maint.resetDay THEN maint.dayMark ELSE account.day
  BY DEF DInv, TypeOK, Row, ResetCommit
<1>2. /\ TypeOK /\ Ended /\ RowKnown /\ PastDays
      /\ (phase[w] # "idle" => Reads(w)) /\ (Evaluated(w) => Drafts(w))
  BY DEF DInv
<1>3. /\ HighestCap \in Nat /\ HighestCap > 0 /\ Today \in Nat /\ Spare \in Int
      /\ faults \in Nat /\ restarts \in Nat /\ ResetLeft \in Nat /\ None \notin Int
      /\ account.today \in Nat /\ account.day \in Nat \cup {None}
      /\ maint.dayMark \in Nat \cup {None}
  BY <1>2, Quantities
<1>4. Ended' /\ PastDays' /\ Today' = Today
  BY <1>1, <1>2, <1>3, StillToday
<1>5. Spare' = Spare + (ResetLeft - ResetLeft')
  <2>1. Spare' = Spare + (faults' - faults) + (ResetLeft - ResetLeft')
    BY <1>1, <1>2, <1>3, StillToday
  <2>2. ResetLeft' \in Int
    BY <1>3 DEF ResetLeft
  <2> QED BY <1>1, <1>3, <2>1, <2>2
<1>6. RowKnown'
  BY <1>1, <1>2, <1>3, <1>4 DEF RowKnown, NoLater
<1>7. (phase[w] # "idle" => Reads(w))' /\ (Evaluated(w) => Drafts(w))'
  <2>1. ASSUME phase[w] # "idle" PROVE Reads(w)'
    <3>1. seen[w].day \in Nat \cup {None}
      BY <1>2 DEF TypeOK, Row
    <3>2. NoLater(seen[w].day, account'.day)
      <4>1. /\ NoLater(seen[w].day, account.day)
            /\ NoLater(account.day, maint.dayMark)
        BY <1>1, <1>2, <2>1 DEF Reads, RowKnown
      <4>2. NoLater(seen[w].day, maint.dayMark)
        BY <1>3, <3>1, <4>1, NoLaterIsTransitive
      <4> QED BY <1>1, <4>1, <4>2
    <3> QED BY <1>1, <1>2, <2>1, <3>2 DEF Reads
  <2> QED BY <1>1, <1>2, <1>4, <2>1 DEF Drafts, Evaluated
<1>8. CASE ~maint.resetDay \/ maint.dayMark # Today
  <2>1. ResetLeft' = ResetLeft
    BY <1>1, <1>4, <1>8 DEF ResetLeft
  <2>2. Left' = Left
    <3>1. CASE ~maint.resetDay
      <4>1. account'.today = account.today /\ account'.day = account.day
        BY <1>1, <3>1
      <4> QED BY <1>4, <4>1 DEF Left
    <3>2. CASE maint.resetDay
      <4>1. /\ account'.day = maint.dayMark /\ maint.dayMark # None /\ maint.dayMark # Today
            /\ NoLater(account.day, maint.dayMark) /\ NoLater(maint.dayMark, Today)
            /\ account.day = None => account.today = 0
        BY <1>1, <1>2, <1>8, <3>2 DEF RowKnown
      <4>2. account.day # Today
        BY <1>3, <4>1 DEF NoLater
      <4>3. Left = HighestCap
        BY <1>3, <4>1, <4>2 DEF Left
      <4>4. Left' = HighestCap
        BY <1>4, <4>1 DEF Left
      <4> QED BY <4>3, <4>4
    <3> QED BY <3>1, <3>2
  <2>3. Spare' = Spare /\ Spare <= Spare
    BY <1>3, <1>5, <2>1
  <2>4. Paid(w)'
    BY <1>1, <1>3, <1>4, <2>2, <2>3, MoreSpare
  <2> QED BY <1>4, <1>6, <1>7, <2>4 DEF DInv
<1>9. CASE maint.resetDay /\ maint.dayMark = Today
  <2>1. ResetLeft = HighestCap /\ ResetLeft' = 0
    BY <1>1, <1>4, <1>9 DEF ResetLeft
  <2>2. Spare' = Spare + HighestCap
    BY <1>3, <1>5, <2>1
  <2>3. Left' = HighestCap
    <3>1. account'.today = 0
      BY <1>1, <1>9
    <3> QED BY <1>3, <3>1 DEF Left
  <2>4. Paid(w) /\ Due(w)' = Due(w) /\ Left \in 0..HighestCap /\ draft[w].today \in Nat
    BY <1>1, <1>2, <1>4, NotOverdrawn DEF DInv, Due, Evaluated, TypeOK, Row
  <2>5. ASSUME NEW k \in {0, 1, 2}, Left <= Spare + k PROVE HighestCap <= (Spare + HighestCap) + k
    BY <1>3, <2>4, <2>5
  <2>6. HighestCap <= (Spare + HighestCap)
                        + (IF phase[w] = "cleared" /\ ~Due(w) THEN 0
                           ELSE IF phase[w] = "sent" /\ Due(w) THEN 2 ELSE 1)
    BY <2>4, <2>5 DEF Paid
  <2>7. ASSUME NEW k \in {0, 1, 2}, HighestCap - draft[w].today <= Spare + k
        PROVE  HighestCap - draft[w].today <= (Spare + HighestCap) + k
    BY <1>3, <2>4, <2>7
  <2>8. Due(w) => HighestCap - draft[w].today
                     <= (Spare + HighestCap) + IF phase[w] = "sent" THEN 2 ELSE 1
    BY <2>4, <2>7 DEF Paid
  <2>9. Paid(w)'
    BY <1>1, <2>2, <2>3, <2>4, <2>6, <2>8 DEF Paid
  <2> QED BY <1>4, <1>6, <1>7, <2>9 DEF DInv
<1> QED BY <1>8, <1>9

\* Nothing is sent on a day that has not come.
LEMMA NoneSentYet ==
  ASSUME TypeOK, Ended, NEW d \in Nat, d > Today PROVE Cardinality(SentOn(d)) = 0
<1>1. now \in Nat /\ sentAt \in Seq(Nat) /\ Len(sentAt) \in Nat /\ Today \in Nat
  BY Quantities
<1>2. ASSUME NEW i \in 1..Len(sentAt) PROVE Day(sentAt[i]) # d
  <2>1. sentAt[i] \in Nat /\ sentAt[i] <= now
    BY <1>1 DEF Ended
  <2>2. Day(sentAt[i]) \in Nat /\ Day(sentAt[i]) <= Today
    BY <1>1, <2>1, DaysPass DEF Today
  <2> QED BY <1>1, <2>2
<1>3. SentOn(d) = {}
  BY <1>2 DEF SentOn
<1> QED BY <1>3, FS_EmptySet

\* The clock: in a new day nothing is sent yet, and both a full allowance of the row
\* and the maintenance worker's reset are paid for.
LEMMA TickDInv ==
  ASSUME DInv, TypeOK', NEW w \in Workers, Workers = {w}, Tick PROVE DInv'
<1>1. /\ now' = now + 1
      /\ UNCHANGED <<account, phase, seen, draft, maint, sentAt, faults, restarts>>
  BY DEF Tick
<1>2. /\ TypeOK /\ Ended /\ RowKnown /\ PastDays /\ Paid(w)
      /\ (phase[w] # "idle" => Reads(w)) /\ (Evaluated(w) => Drafts(w))
  BY DEF DInv
<1>3. /\ HighestCap \in Nat /\ HighestCap > 0 /\ Today \in Nat /\ Spare \in Int /\ now \in Nat
      /\ faults \in Nat /\ restarts \in Nat /\ ResetLeft \in Nat /\ None \notin Int
      /\ account.today \in Nat /\ account.day \in Nat \cup {None}
      /\ maint.dayMark \in Nat \cup {None} /\ sentAt \in Seq(Nat) /\ Len(sentAt) \in Nat
      /\ Budget \in Nat /\ Budget >= HighestCap + HighestCap
      /\ Spare = Budget - Cardinality(SentOn(Today)) - ResetLeft
      /\ \A d : Cardinality(SentOn(d)) \in Nat
  BY <1>2, Quantities
<1>4. Today' \in Nat /\ Today <= Today'
  <2>1. Today' = Day(now + 1)
    BY <1>1 DEF Today
  <2> QED BY <1>3, <2>1, DaysPass DEF Today
<1>5. Ended'
  BY <1>1, <1>2, <1>3, SMTT(30) DEF Ended
<1>6. Budget' = Budget /\ \A d : SentOn(d)' = SentOn(d)
  BY <1>1 DEF Budget, SentOn
<1>7. \A d \in Nat \cup {None} : NoLater(d, Today) => NoLater(d, Today')
  BY <1>3, <1>4 DEF NoLater
<1>8. RowKnown'
  BY <1>1, <1>2, <1>3, <1>7 DEF RowKnown
<1>9. (phase[w] # "idle" => Reads(w))' /\ (Evaluated(w) => Drafts(w))'
  <2>1. draft[w].day \in Nat \cup {None}
    BY <1>2 DEF TypeOK, Row
  <2> QED BY <1>1, <1>2, <1>7, <2>1 DEF Reads, Drafts, Evaluated
<1>10. PastDays'
  <2>1. ASSUME NEW d \in Nat, d < Today' PROVE Cardinality(SentOn(d)) <= Budget + 1
    <3>1. CASE d < Today
      BY <1>2, <2>1, <3>1 DEF PastDays
    <3>2. CASE d = Today
      <4>1. Spare >= -1
        BY NotOverdrawn
      <4> QED BY <1>3, <3>2, <4>1
    <3>3. CASE d > Today
      <4>1. Cardinality(SentOn(d)) = 0
        BY <1>2, <3>3, NoneSentYet
      <4> QED BY <1>3, <4>1
    <3> QED BY <1>3, <2>1, <3>1, <3>2, <3>3
  <2> QED BY <1>6, <2>1 DEF PastDays
<1>11. CASE Today' = Today
  <2>1. Left' = Left /\ ResetLeft' = ResetLeft
    BY <1>1, <1>11 DEF Left, ResetLeft
  <2>2. SentOn(Today)' = SentOn(Today)
    BY <1>1, <1>11 DEF SentOn
  <2>3. Spare' = Spare /\ Spare <= Spare
    BY <1>3, <1>6, <2>1, <2>2 DEF Spare
  <2>4. Paid(w)'
    BY <1>1, <1>3, <1>11, <2>1, <2>3, MoreSpare
  <2> QED BY <1>5, <1>8, <1>9, <1>10, <2>4 DEF DInv
<1>12. CASE Today < Today'
  <2>1. Cardinality(SentOn(Today)') = 0
    <3>1. PICK d \in Nat : d = Today'
      BY <1>4
    <3>2. Cardinality(SentOn(d)) = 0
      BY <1>2, <1>3, <1>12, <3>1, NoneSentYet
    <3>3. SentOn(Today)' = SentOn(d)
      BY <1>1, <3>1 DEF SentOn
    <3> QED BY <3>2, <3>3
  <2>2. ResetLeft' = HighestCap
    <3>1. maint.dayMark # Today'
      BY <1>2, <1>3, <1>4, <1>12 DEF RowKnown, NoLater
    <3> QED BY <1>1, <3>1 DEF ResetLeft
  <2>3. Spare' = Budget - 0 - HighestCap
    <3>1. Spare' = Budget' - Cardinality(SentOn(Today)') - ResetLeft'
      BY DEF Spare
    <3> QED BY <1>6, <2>1, <2>2, <3>1
  <2>4. Left' = HighestCap \/ Left' = HighestCap - account.today
    BY <1>1 DEF Left
  <2>5. ~Due(w)'
    <3>1. ASSUME Evaluated(w) PROVE draft[w].day # Today'
      <4>1. draft[w].day \in Nat /\ draft[w].day <= Today
        BY <1>2, <1>3, <3>1 DEF Drafts, NoLater, TypeOK, Row
      <4> QED BY <1>3, <1>4, <1>12, <4>1
    <3> QED BY <1>1, <3>1 DEF Due, Evaluated
  <2>6. HighestCap <= Budget - 0 - HighestCap /\ HighestCap - account.today <= HighestCap
    BY <1>3
  <2>7. ASSUME NEW k \in {0, 1, 2} PROVE Left' <= Spare' + k
    <3>1. /\ HighestCap <= (Budget - 0 - HighestCap) + k
          /\ HighestCap - account.today <= (Budget - 0 - HighestCap) + k
      BY <1>3, <2>6, SMTT(30)
    <3> QED BY <2>3, <2>4, <3>1
  <2>8. Paid(w)'
    BY <2>5, <2>7 DEF Paid
  <2> QED BY <1>5, <1>8, <1>9, <1>10, <2>8 DEF DInv
<1> QED BY <1>3, <1>4, <1>11, <1>12

\* A calendar day of an account with one worker is bounded: the worker's own reset and
\* the maintenance worker's each open one allowance, each restart of the maintenance
\* worker one more, each fault one message, and midnight one.
THEOREM OneWorkerIsDayBounded == ASSUME NEW w, Workers = {w} PROVE Spec => []DayBounded
<1>1. DInv /\ TypeOK' /\ [Next]_vars => DInv'
  <2> SUFFICES ASSUME DInv, TypeOK', [Next]_vars PROVE DInv'
    OBVIOUS
  <2>1. CASE UNCHANGED vars
    BY <2>1 DEF vars, DInv, TypeOK, Ended, RowKnown, Reads, Drafts, Paid, Due, Evaluated,
                PastDays, Left, Spare, Budget, ResetLeft, Today, SentOn
  <2> QED BY <2>1, SelectDInv, EvaluateDInv, DispatchDInv, CommitSettledDInv, CommitSentDInv,
             CrashDInv, ResetDInv, ResetCommitDInv, TickDInv DEF Next, WorkerStep
<1>2. DInv => DayBounded
  <2> SUFFICES ASSUME DInv, NEW d \in 0..Day(MaxTime)
               PROVE  Cardinality(SentOn(d)) <= HighestCap * (2 + restarts) + 1 + faults
    BY DEF DayBounded
  <2>1. /\ TypeOK /\ Ended /\ PastDays /\ Today \in Nat /\ Spare >= -1
    BY NotOverdrawn, Quantities DEF DInv
  <2>2. /\ Spare = Budget - Cardinality(SentOn(Today)) - ResetLeft
        /\ Budget \in Nat /\ ResetLeft \in Nat /\ Spare \in Int
        /\ Cardinality(SentOn(d)) \in Nat
        /\ sentAt \in Seq(Nat) /\ Len(sentAt) \in Nat /\ now \in Nat
    BY <2>1, Quantities
  <2>3. d \in Nat
    BY DaysPass, PolicyAssumption
  <2>4. Cardinality(SentOn(d)) <= Budget + 1
    <3>1. CASE d < Today
      BY <2>1, <2>3, <3>1 DEF PastDays
    <3>2. CASE d = Today
      BY <2>1, <2>2, <3>2
    <3>3. CASE d > Today
      <4>1. Cardinality(SentOn(d)) = 0
        BY <2>1, <2>3, <3>3, NoneSentYet
      <4> QED BY <2>2, <4>1
    <3> QED BY <2>1, <2>3, <3>1, <3>2, <3>3
  <2>5. HighestCap * (2 + restarts) \in Nat /\ faults \in Nat
    <3>1. HighestCap \in Nat /\ restarts \in Nat /\ faults \in Nat
      BY <2>1, Quantities
    <3> QED BY <3>1
  <2> QED BY <2>2, <2>4, <2>5 DEF Budget
<1> QED BY <1>1, <1>2, InitDInv, RatesTypeOK, PTL DEF Spec
-----------------------------------------------------------------------------
(* What the row says when several workers share it                         *)

WithinLimits(row) == row.today <= HighestCap /\ row.hour <= HourlyLimit

\* The committed counters never exceed the limits (sending_policy.py:121-136).
RowWithinLimits == WithinLimits(account)

\* Neither do the copies, and a worker that may send leaves room for its message.
CopiesWithinLimits ==
    \A w \in Workers :
        /\ WithinLimits(seen[w]) /\ WithinLimits(draft[w])
        /\ phase[w] \in {"cleared", "sent"} =>
              draft[w].today < HighestCap /\ draft[w].hour < HourlyLimit

\* A reset for the day leaves a row within the limits.
LEMMA ResetWithinLimits ==
    ASSUME TypeOK, NEW row \in Row, WithinLimits(row)
    PROVE  WithinLimits(ResetForDay(row))
<1>1. HighestCap \in Nat /\ HourlyLimit \in Nat
  BY HighestCapType, PolicyAssumption
<1> QED BY <1>1, ResetRow DEF WithinLimits

\* Every step of any worker keeps the row and the copies within the limits.
LEMMA WorkerKeepsLimits ==
    ASSUME TypeOK, RowWithinLimits, CopiesWithinLimits, NEW w \in Workers, WorkerStep(w)
    PROVE  RowWithinLimits' /\ CopiesWithinLimits'
<1>1. /\ account \in Row /\ draft[w] \in Row /\ seen[w] \in Row
      /\ draft \in [Workers -> Row] /\ seen \in [Workers -> Row]
      /\ phase \in [Workers -> {"idle", "selected", "cleared", "settled", "sent"}]
      /\ HighestCap \in Nat /\ HourlyLimit \in Nat
  BY HighestCapType, PolicyAssumption DEF TypeOK
<1> USE <1>1 DEF RowWithinLimits, CopiesWithinLimits
<1>2. CASE Select(w)
  BY <1>2 DEF Select
<1>3. CASE \E cap \in DailyCaps : Evaluate(w, cap)
  <2>1. PICK cap \in DailyCaps : Evaluate(w, cap)
    BY <1>3
  <2> DEFINE row == ResetForDay(seen[w])
  <2>2. row \in Row /\ WithinLimits(row)
    BY ResetRow, ResetWithinLimits
  <2>3. draft' = [draft EXCEPT ![w] = row] /\ UNCHANGED <<account, seen>>
        /\ phase' = [phase EXCEPT ![w] =
                        IF AtLimit(row, cap) \/ TooSoon(row) THEN "settled" ELSE "cleared"]
    BY <2>1 DEF Evaluate
  <2>4. ~AtLimit(row, cap) => row.today < HighestCap /\ row.hour < HourlyLimit
    BY <2>2, HighestCapType, PolicyAssumption DEF AtLimit, Row
  <2> HIDE DEF row
  <2> QED BY <2>2, <2>3, <2>4
<1>4. CASE \E reply \in {"accepted", "lost", "refused"} : Dispatch(w, reply)
  <2>1. /\ phase[w] = "cleared" /\ UNCHANGED <<account, seen, draft>>
        /\ \A v \in Workers \ {w} : phase'[v] = phase[v]
    BY <1>4 DEF Dispatch
  <2> QED BY <2>1
<1>5. CASE CommitSettled(w)
  <2>1. /\ account'.today = Changed(w, "today") /\ account'.hour = Changed(w, "hour")
        /\ UNCHANGED <<seen, draft>> /\ phase' = [phase EXCEPT ![w] = "idle"]
    BY <1>5 DEF CommitSettled, Row
  <2>2. /\ Changed(w, "today") \in {draft[w].today, account.today}
        /\ Changed(w, "hour") \in {draft[w].hour, account.hour}
    BY DEF Changed
  <2>3. RowWithinLimits'
    BY <2>1, <2>2 DEF WithinLimits
  <2> QED BY <2>1, <2>3
<1>6. CASE CommitSent(w)
  <2>1. /\ account'.today = draft[w].today + 1 /\ account'.hour = draft[w].hour + 1
        /\ phase[w] = "sent"
        /\ UNCHANGED <<seen, draft>> /\ phase' = [phase EXCEPT ![w] = "idle"]
    BY <1>6 DEF CommitSent, RecordSend, Row
  <2>2. RowWithinLimits'
    BY <2>1 DEF WithinLimits, Row
  <2> QED BY <2>1, <2>2
<1>7. CASE Crash(w)
  BY <1>7 DEF Crash
<1> QED BY <1>2, <1>3, <1>4, <1>5, <1>6, <1>7 DEF WorkerStep

\* So do the maintenance worker, which only sets counters to zero, and the clock.
LEMMA OtherKeepsLimits ==
    ASSUME TypeOK, RowWithinLimits, CopiesWithinLimits,
           ResetBegin \/ ResetCommit \/ ResetRollback \/ Restart \/ Tick \/ UNCHANGED vars
    PROVE  RowWithinLimits' /\ CopiesWithinLimits'
<1>1. account \in Row /\ HighestCap \in Nat /\ HourlyLimit \in Nat
  BY HighestCapType, PolicyAssumption DEF TypeOK
<1>2. UNCHANGED <<phase, seen, draft>>
  BY DEF ResetBegin, ResetCommit, ResetRollback, Restart, Tick, vars
<1>3. \/ account' = account
      \/ account'.today \in {0, account.today} /\ account'.hour \in {0, account.hour}
  BY <1>1 DEF ResetBegin, ResetCommit, ResetRollback, Restart, Tick, vars, Row
<1> QED BY <1>1, <1>2, <1>3 DEF RowWithinLimits, CopiesWithinLimits, WithinLimits, Row

\* However many workers share the account, its row never shows more than the limits
\* allow: where RateLimits_shared.cfg exceeds a cap, increments were lost, and no
\* reader of the counters can tell.
THEOREM RowNeverShowsOverrun == Spec => []RowWithinLimits
<1>1. Init => RowWithinLimits /\ CopiesWithinLimits
  BY HighestCapType, PolicyAssumption
     DEF Init, RowWithinLimits, CopiesWithinLimits, WithinLimits, FreshRow
<1>2. /\ TypeOK /\ RowWithinLimits /\ CopiesWithinLimits /\ [Next]_vars
      => RowWithinLimits' /\ CopiesWithinLimits'
  BY WorkerKeepsLimits, OtherKeepsLimits DEF Next
<1> QED BY <1>1, <1>2, RatesTypeOK, PTL DEF Spec
=============================================================================
