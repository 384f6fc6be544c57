--------------------------- MODULE LeadFunnel_proofs ---------------------------
(***************************************************************************)
(* Proofs about the lead funnel, for any numbers of leads and generators.  *)
(*                                                                         *)
(* FInv is inductive.  TypeOK needs that a message in flight is counted as *)
(* queued (FlightIsQueued); StatusMatchesMail needs that a lead is not NEW *)
(* any more when a generator has read it as EMAIL_GENERATED (DraftsAreOld).*)
(***************************************************************************)
EXTENDS LeadFunnel, FiniteSetTheorems, TLAPS

FlightIsQueued == flight # None => mail[flight.lead][flight.kind]["queued"] > 0
DraftsAreOld ==
    \A g \in Generators : draft[g] # None /\ draft[g].seen = "email_generated"
                          => leadStatus[draft[g].lead] # "new"

\* The generators that have selected the lead and not yet written to it; of these, the
\* ones whose commit will leave the status alone.
Holders(l) == {g \in Generators : \/ l \in batch[g]
                                  \/ draft[g] # None /\ draft[g].lead = l}
Keepers(l) == {g \in Generators : /\ draft[g] # None
                                  /\ draft[g].lead = l
                                  /\ draft[g].seen = "email_generated"}
Budget(l) == Cardinality(Generators) * (1 + returned[l])

DraftsAreOut == \A g \in Generators : draft[g] # None => draft[g].lead \notin batch[g]

\* What InitialsBounded needs to be inductive: the records still to come.  Of a lead
\* that is not eligible each holder writes one more; of an eligible lead every generator
\* may write one that ends the eligibility, and a keeper one before that.
Covered(l) ==
    /\ leadStatus[l] \in Eligible =>
          Count(l, "initial") + Cardinality(Generators) + Cardinality(Keepers(l))
              <= Budget(l)
    /\ leadStatus[l] \notin Eligible =>
          Count(l, "initial") + Cardinality(Holders(l)) <= Budget(l)

BInv == DraftsAreOut /\ \A l \in Leads : Covered(l)

FInv == /\ TypeOK /\ FlightIsQueued /\ DraftsAreOld
        /\ StatusMatchesMail /\ FollowupsFollow

-----------------------------------------------------------------------------
(* What the two steps of a record do to the numbers                        *)

\* A new record is one more of its lead, kind and stage.
LEMMA AddOne ==
    ASSUME TypeOK, NEW l \in Leads, NEW k \in Kinds, NEW s \in Stages, Add(l, k, s)
    PROVE  /\ mail' \in [Leads -> [Kinds -> [Stages -> Nat]]]
           /\ \A m \in Leads, j \in Kinds, t \in Stages :
                 mail'[m][j][t] = IF m = l /\ j = k /\ t = s THEN mail[m][j][t] + 1
                                  ELSE mail[m][j][t]
<1> USE DEF TypeOK
<1>1. \A m \in Leads, j \in Kinds, t \in Stages :
         mail'[m][j][t] = IF m = l /\ j = k /\ t = s THEN mail[m][j][t] + 1
                          ELSE mail[m][j][t]
  BY DEF Add
<1>2. mail' \in [Leads -> [Kinds -> [Stages -> Nat]]]
  BY DEF Add
<1> QED BY <1>1, <1>2

\* A record that changes its stage leaves one and enters the other.
LEMMA MoveOne ==
    ASSUME TypeOK, NEW l \in Leads, NEW k \in Kinds,
           NEW from \in Stages, NEW to \in Stages, from # to,
           mail[l][k][from] > 0, Move(l, k, from, to)
    PROVE  /\ mail' \in [Leads -> [Kinds -> [Stages -> Nat]]]
           /\ \A m \in Leads, j \in Kinds, t \in Stages :
                 mail'[m][j][t] =
                     IF m = l /\ j = k /\ t = from THEN mail[m][j][t] - 1
                     ELSE IF m = l /\ j = k /\ t = to THEN mail[m][j][t] + 1
                     ELSE mail[m][j][t]
<1> USE DEF TypeOK
<1>1. \A m \in Leads, j \in Kinds, t \in Stages :
         mail'[m][j][t] =
             IF m = l /\ j = k /\ t = from THEN mail[m][j][t] - 1
             ELSE IF m = l /\ j = k /\ t = to THEN mail[m][j][t] + 1
             ELSE mail[m][j][t]
  BY DEF Move
<1>2. mail' \in [Leads -> [Kinds -> [Stages -> Nat]]]
  BY DEF Move
<1> QED BY <1>1, <1>2

\* A new record that nobody has sent counts for its lead and kind only.
LEMMA AddCounts ==
    ASSUME TypeOK, NEW l \in Leads, NEW k \in Kinds, Add(l, k, "pending")
    PROVE  \A m \in Leads, j \in Kinds :
              /\ Count(m, j)' = IF m = l /\ j = k THEN Count(m, j) + 1 ELSE Count(m, j)
              /\ Delivered(m, j)' = Delivered(m, j)
              /\ mail'[m][j]["old"] = mail[m][j]["old"]
<1>1. \A m \in Leads, j \in Kinds, t \in Stages :
         mail'[m][j][t] = IF m = l /\ j = k /\ t = "pending" THEN mail[m][j][t] + 1
                          ELSE mail[m][j][t]
  BY AddOne DEF Stages
<1>2. \A m \in Leads, j \in Kinds, t \in Stages : mail[m][j][t] \in Nat
  BY DEF TypeOK
<1> QED BY <1>1, <1>2 DEF Count, Delivered, Stages

\* The changes of stage there are.
Moves == {<<"pending", "queued">>, <<"queued", "sent">>, <<"queued", "failed">>,
          <<"sent", "old">>}

\* A record that changes its stage counts as before, and what is delivered stays so.
LEMMA MoveCounts ==
    ASSUME TypeOK, NEW l \in Leads, NEW k \in Kinds,
           NEW from, NEW to, <<from, to>> \in Moves,
           mail[l][k][from] > 0, Move(l, k, from, to)
    PROVE  \A m \in Leads, j \in Kinds :
              /\ Count(m, j)' = Count(m, j)
              /\ Delivered(m, j)' >= Delivered(m, j)
              /\ mail'[m][j]["old"] >= mail[m][j]["old"]
<1>1. from \in Stages /\ to \in Stages /\ from # to
  BY DEF Moves, Stages
<1>2. \A m \in Leads, j \in Kinds, t \in Stages :
         mail'[m][j][t] =
             IF m = l /\ j = k /\ t = from THEN mail[m][j][t] - 1
             ELSE IF m = l /\ j = k /\ t = to THEN mail[m][j][t] + 1
             ELSE mail[m][j][t]
  BY <1>1, MoveOne
<1>3. \A m \in Leads, j \in Kinds, t \in Stages : mail[m][j][t] \in Nat
  BY DEF TypeOK
<1>4. CASE from = "pending" /\ to = "queued"
  BY <1>2, <1>3, <1>4 DEF Count, Delivered, Stages
<1>5. CASE from = "queued" /\ to = "sent"
  BY <1>2, <1>3, <1>5 DEF Count, Delivered, Stages
<1>6. CASE from = "queued" /\ to = "failed"
  BY <1>2, <1>3, <1>6, SMTT(30) DEF Count, Delivered, Stages
<1>7. CASE from = "sent" /\ to = "old"
  BY <1>2, <1>3, <1>7 DEF Count, Delivered, Stages
<1> QED BY <1>4, <1>5, <1>6, <1>7 DEF Moves

\* A start moves every pending record and changes no number but these.
LEMMA StartCounts ==
    ASSUME TypeOK, Start
    PROVE  /\ mail' \in [Leads -> [Kinds -> [Stages -> Nat]]]
           /\ \A m \in Leads, j \in Kinds :
                 /\ Count(m, j)' = Count(m, j)
                 /\ Delivered(m, j)' = Delivered(m, j)
                 /\ mail'[m][j]["old"] = mail[m][j]["old"]
<1> USE DEF TypeOK, Start
<1>1. mail' \in [Leads -> [Kinds -> [Stages -> Nat]]]
  <2>1. \A m \in Leads, j \in Kinds :
           [mail[m][j] EXCEPT !["queued"] = @ + mail[m][j]["pending"], !["pending"] = 0]
               \in [Stages -> Nat]
    <3> TAKE m \in Leads, j \in Kinds
    <3>1. mail[m][j] \in [Stages -> Nat]
      OBVIOUS
    <3> QED BY ONLY <3>1 DEF Stages
  <2> QED BY <2>1
<1>2. ASSUME NEW m \in Leads, NEW j \in Kinds
      PROVE  /\ Count(m, j)' = Count(m, j)
             /\ Delivered(m, j)' = Delivered(m, j)
             /\ mail'[m][j]["old"] = mail[m][j]["old"]
  <2>1. mail'[m][j] = [mail[m][j] EXCEPT !["queued"] = @ + mail[m][j]["pending"],
                                         !["pending"] = 0]
    OBVIOUS
  <2>2. mail[m][j] \in [Stages -> Nat]
    OBVIOUS
  <2> QED BY ONLY <2>1, <2>2 DEF Count, Delivered, Stages
<1> QED BY <1>1, <1>2

-----------------------------------------------------------------------------
(* FInv is inductive                                                       *)

LEMMA InitFInv == Init => FInv
<1> SUFFICES ASSUME Init PROVE FInv
  OBVIOUS
<1> USE DEF Init
<1>1. TypeOK
  BY DEF TypeOK, LeadStates
<1>2. FlightIsQueued /\ DraftsAreOld
  BY DEF FlightIsQueued, DraftsAreOld
<1>3. \A l \in Leads, k \in Kinds : Count(l, k) = 0 /\ Delivered(l, k) = 0
  BY DEF Count, Delivered, Stages
<1>4. StatusMatchesMail
  BY <1>3 DEF StatusMatchesMail
<1>5. FollowupsFollow
  <2>1. \A l \in Leads, k \in Followups : Count(l, k) = 0
    BY <1>3 DEF Kinds
  <2>2. \A l \in Leads, k \in Followups : ~(Count(l, k) > 0)
    BY <2>1
  <2> QED BY <2>2 DEF FollowupsFollow
<1> QED BY <1>1, <1>2, <1>4, <1>5 DEF FInv

\* Steps that leave the records alone and set no status that says anything of them.
LEMMA SameMail ==
    ASSUME FInv, UNCHANGED mail,
           \A l \in Leads : \/ leadStatus'[l] = leadStatus[l]
                            \/ leadStatus'[l] \in {"enriched"} \cup Answers,
           due' = due \/ due' = None
             \/ \E l \in Leads : due # None /\ due' = [due EXCEPT !.leads = @ \ {l}],
           \/ made' \in {made, None}
           \/ \E l \in Leads : due # None /\ l \in due.leads /\ made'.lead = l
    PROVE  StatusMatchesMail' /\ FollowupsFollow'
<1>1. \A l \in Leads, k \in Kinds : /\ Count(l, k)' = Count(l, k)
                                    /\ Delivered(l, k)' = Delivered(l, k)
  BY DEF Count, Delivered
<1>2. StatusMatchesMail'
  BY <1>1 DEF FInv, StatusMatchesMail, Kinds, Answers
<1>3. \A l \in Leads : due' # None /\ l \in due'.leads => due # None /\ l \in due.leads
  BY DEF FInv, TypeOK
<1>4. \A l \in Leads : made' # None /\ made'.lead = l
                     => \/ made # None /\ made.lead = l
                        \/ due # None /\ l \in due.leads
  OBVIOUS
<1>5. FollowupsFollow'
  BY <1>1, <1>3, <1>4 DEF FInv, FollowupsFollow, Kinds
<1> QED BY <1>2, <1>5

LEMMA EnrichFInv ==
    ASSUME FInv, NEW l \in Leads, Enrich(l) PROVE FInv'
<1> USE DEF FInv
<1>1. TypeOK'
  <2>1. leadStatus' \in [Leads -> LeadStates]
    BY DEF Enrich, SetStatus, TypeOK, LeadStates
  <2>2. returned' \in [Leads -> Nat]
    BY DEF Enrich, TypeOK
  <2> QED BY <2>1, <2>2 DEF Enrich, TypeOK, generatorVars, schedulerVars
<1>2. FlightIsQueued'
  BY DEF Enrich, FlightIsQueued
<1>3. DraftsAreOld'
  BY DEF Enrich, SetStatus, DraftsAreOld, TypeOK, generatorVars
<1>4. StatusMatchesMail' /\ FollowupsFollow'
  BY SameMail DEF Enrich, SetStatus, TypeOK, schedulerVars
<1> QED BY <1>1, <1>2, <1>3, <1>4

LEMMA GeneratorFInv ==
    ASSUME FInv, NEW g \in Generators, GeneratorStep(g) PROVE FInv'
<1> USE DEF FInv
<1>1. CASE GenSelect(g)
  <2> USE <1>1 DEF GenSelect, schedulerVars
  <2>1. TypeOK'
    BY DEF TypeOK
  <2>2. FlightIsQueued' /\ DraftsAreOld'
    BY DEF FlightIsQueued, DraftsAreOld
  <2>3. StatusMatchesMail' /\ FollowupsFollow'
    BY SameMail
  <2> QED BY <2>1, <2>2, <2>3
<1>2. ASSUME NEW l \in Leads, GenSkip(g, l) PROVE FInv'
  <2> USE <1>2 DEF GenSkip, schedulerVars
  <2>1. TypeOK'
    BY DEF TypeOK
  <2>2. FlightIsQueued' /\ DraftsAreOld'
    BY DEF FlightIsQueued, DraftsAreOld
  <2>3. StatusMatchesMail' /\ FollowupsFollow'
    BY SameMail
  <2> QED BY <2>1, <2>2, <2>3
<1>3. ASSUME NEW l \in Leads, GenRead(g, l) PROVE FInv'
  <2> USE <1>3 DEF GenRead, schedulerVars
  <2>1. TypeOK'
    BY DEF TypeOK
  <2>2. FlightIsQueued'
    BY DEF FlightIsQueued
  <2>3. DraftsAreOld'
    BY DEF DraftsAreOld, TypeOK
  <2>4. StatusMatchesMail' /\ FollowupsFollow'
    BY SameMail
  <2> QED BY <2>1, <2>2, <2>3, <2>4
<1>4. CASE GenCommit(g)
  <2>1. PICK l \in Leads : draft[g].lead = l
    BY <1>4 DEF GenCommit, TypeOK
  <2>2. "initial" \in Kinds /\ "pending" \in Stages
    BY DEF Kinds, Stages
  <2>3. Add(l, "initial", "pending")
    BY <1>4, <2>1 DEF GenCommit
  <2>4. \A m \in Leads : \/ leadStatus'[m] = leadStatus[m] /\ (m = l => leadStatus[m] # "new")
                         \/ m = l /\ leadStatus'[m] = "email_generated"
    BY <1>4, <2>1 DEF GenCommit, MarkGenerated, SetStatus, TypeOK, DraftsAreOld
  <2>5. TypeOK'
    <3>1. mail' \in [Leads -> [Kinds -> [Stages -> Nat]]]
      BY <2>2, <2>3, AddOne
    <3>2. leadStatus' \in [Leads -> LeadStates]
      BY <1>4 DEF GenCommit, MarkGenerated, SetStatus, TypeOK, LeadStates
    <3>3. draft' \in [Generators -> [lead: Leads, seen: LeadStates] \cup {None}]
      BY <1>4 DEF GenCommit, TypeOK
    <3> QED BY <1>4, <3>1, <3>2, <3>3 DEF GenCommit, TypeOK, schedulerVars
  <2>6. FlightIsQueued'
    BY <1>4 DEF GenCommit, FlightIsQueued
  <2>7. DraftsAreOld'
    BY <1>4, <2>4 DEF GenCommit, DraftsAreOld, TypeOK
  <2>8. \A m \in Leads, j \in Kinds :
           /\ Count(m, j)' = IF m = l /\ j = "initial" THEN Count(m, j) + 1 ELSE Count(m, j)
           /\ Delivered(m, j)' = Delivered(m, j)
           /\ mail'[m][j]["old"] = mail[m][j]["old"]
    BY <2>2, <2>3, AddCounts
  <2>9. \A m \in Leads, j \in Kinds : Count(m, j) \in Nat
    BY DEF Count, Delivered, TypeOK, Stages
  <2>10. StatusMatchesMail'
    BY <2>2, <2>4, <2>8, <2>9 DEF StatusMatchesMail
  <2>11. FollowupsFollow'
    BY <1>4, <2>2, <2>8 DEF GenCommit, schedulerVars, FollowupsFollow, Kinds, Followups
  <2> QED BY <2>5, <2>6, <2>7, <2>10, <2>11
<1>5. ASSUME NEW lost \in SUBSET Leads, GenAbort(g, lost) PROVE FInv'
  <2> USE <1>5 DEF GenAbort, schedulerVars
  <2>1. TypeOK'
    BY DEF TypeOK
  <2>2. FlightIsQueued' /\ DraftsAreOld'
    BY DEF FlightIsQueued, DraftsAreOld, TypeOK
  <2>3. StatusMatchesMail' /\ FollowupsFollow'
    BY SameMail
  <2> QED BY <2>1, <2>2, <2>3
<1> QED BY <1>1, <1>2, <1>3, <1>4, <1>5 DEF GeneratorStep

\* Steps that move one record on, and set at most the lead's status, to EMAILED and
\* only if the record enters "sent".
LEMMA MovedMail ==
    ASSUME FInv, NEW l \in Leads, NEW k \in Kinds, NEW from, NEW to,
           <<from, to>> \in Moves, mail[l][k][from] > 0, Move(l, k, from, to),
           \/ UNCHANGED leadStatus
           \/ to = "sent" /\ leadStatus' = [leadStatus EXCEPT ![l] = "emailed"],
           UNCHANGED due, made' = made \/ made' = None
    PROVE  /\ mail' \in [Leads -> [Kinds -> [Stages -> Nat]]]
           /\ StatusMatchesMail' /\ FollowupsFollow'
<1> USE DEF FInv
<1>1. \A m \in Leads, j \in Kinds : /\ Count(m, j)' = Count(m, j)
                                    /\ Delivered(m, j)' >= Delivered(m, j)
                                    /\ mail'[m][j]["old"] >= mail[m][j]["old"]
  BY MoveCounts
<1>2. from \in Stages /\ to \in Stages /\ from # to
  BY DEF Moves, Stages
<1>3. mail' \in [Leads -> [Kinds -> [Stages -> Nat]]]
  BY <1>2, MoveOne
<1>4. \A m \in Leads, j \in Kinds :
         /\ Delivered(m, j) \in Nat /\ Delivered(m, j)' \in Nat
         /\ mail[m][j]["old"] \in Nat /\ mail'[m][j]["old"] \in Nat
  BY <1>3 DEF Delivered, TypeOK, Stages
<1>5. to = "sent" => Delivered(l, k)' > 0
  <2>1. SUFFICES ASSUME to = "sent" PROVE Delivered(l, k)' > 0
    OBVIOUS
  <2>2. mail'[l][k]["sent"] = mail[l][k]["sent"] + 1
    BY <1>2, <2>1, MoveOne, SMTT(30)
  <2>3. mail[l][k]["sent"] \in Nat /\ mail'[l][k]["old"] \in Nat
    BY <1>4 DEF TypeOK, Stages
  <2> QED BY <2>2, <2>3 DEF Delivered
<1>6. \A m \in Leads, j \in Kinds : Delivered(m, j) > 0 => Delivered(m, j)' > 0
  BY <1>1, <1>4
<1>7. StatusMatchesMail'
  <2>1. CASE UNCHANGED leadStatus
    BY <1>1, <1>6, <2>1 DEF StatusMatchesMail, Kinds
  <2>2. CASE to = "sent" /\ leadStatus' = [leadStatus EXCEPT ![l] = "emailed"]
    BY <1>1, <1>5, <1>6, <2>2 DEF StatusMatchesMail, Kinds, TypeOK
  <2> QED BY <2>1, <2>2
<1>8. FollowupsFollow'
  <2>1. \A m \in Leads : /\ mail[m]["initial"]["old"] > 0 => mail'[m]["initial"]["old"] > 0
                        /\ \A j \in Followups : Count(m, j)' = Count(m, j)
    <3>1. "initial" \in Kinds /\ \A j \in Followups : j \in Kinds
      BY DEF Kinds
    <3> QED BY ONLY <1>1, <1>4, <3>1
  <2> QED BY <2>1 DEF FollowupsFollow
<1> QED BY <1>3, <1>7, <1>8

LEMMA StartFInv == ASSUME FInv, Start PROVE FInv'
<1> USE DEF FInv
<1>1. TypeOK'
  BY StartCounts DEF Start, TypeOK, generatorVars, schedulerVars
<1>2. FlightIsQueued' /\ DraftsAreOld'
  BY DEF Start, FlightIsQueued, DraftsAreOld, generatorVars
<1>3. /\ UNCHANGED <<leadStatus, due, made>>
      /\ "initial" \in Kinds /\ \A j \in Followups : j \in Kinds
      /\ \A m \in Leads, j \in Kinds :
            /\ Count(m, j)' = Count(m, j)
            /\ Delivered(m, j)' = Delivered(m, j)
            /\ mail'[m][j]["old"] = mail[m][j]["old"]
  BY StartCounts DEF Start, schedulerVars, Kinds
<1>4. StatusMatchesMail'
  BY ONLY FInv, <1>3 DEF FInv, StatusMatchesMail
<1>5. FollowupsFollow'
  BY ONLY FInv, <1>3 DEF FInv, FollowupsFollow
<1> QED BY <1>1, <1>2, <1>4, <1>5

LEMMA ClaimFInv ==
    ASSUME FInv, NEW l \in Leads, NEW k \in Kinds, SendClaim(l, k) PROVE FInv'
<1> USE DEF FInv
<1>1. TypeOK'
  BY DEF SendClaim, TypeOK, generatorVars, schedulerVars
<1>2. FlightIsQueued' /\ DraftsAreOld'
  BY DEF SendClaim, FlightIsQueued, DraftsAreOld, generatorVars
<1>3. StatusMatchesMail' /\ FollowupsFollow'
  BY SameMail DEF SendClaim, schedulerVars
<1> QED BY <1>1, <1>2, <1>3

LEMMA WorkerFInv == ASSUME FInv, SendFail \/ SendCommit \/ SendAgain PROVE FInv'
<1> USE DEF FInv
<1>1. CASE SendAgain
  <2> USE <1>1 DEF SendAgain, generatorVars, schedulerVars
  <2>1. TypeOK'
    BY DEF TypeOK
  <2>2. FlightIsQueued' /\ DraftsAreOld'
    BY DEF FlightIsQueued, DraftsAreOld
  <2>3. StatusMatchesMail' /\ FollowupsFollow'
    BY SameMail
  <2> QED BY <2>1, <2>2, <2>3
<1>2. CASE SendFail \/ SendCommit
  <2>1. PICK l \in Leads, k \in Kinds : flight.lead = l /\ flight.kind = k
    BY <1>2 DEF SendFail, SendCommit, TypeOK
  <2>2. mail[l][k]["queued"] > 0
    BY <1>2, <2>1 DEF SendFail, SendCommit, FlightIsQueued
  <2>3. PICK to \in {"failed", "sent"} :
           /\ Move(l, k, "queued", to)
           /\ \/ UNCHANGED leadStatus
              \/ to = "sent" /\ leadStatus' = [leadStatus EXCEPT ![l] = "emailed"]
    BY <1>2, <2>1 DEF SendFail, SendCommit, SetStatus
  <2>4. <<"queued", to>> \in Moves
    BY DEF Moves
  <2>5. UNCHANGED <<due, made>>
    BY <1>2 DEF SendFail, SendCommit, schedulerVars
  <2>6. /\ mail' \in [Leads -> [Kinds -> [Stages -> Nat]]]
        /\ StatusMatchesMail' /\ FollowupsFollow'
    BY <2>2, <2>3, <2>4, <2>5, MovedMail
  <2>7. TypeOK'
    <3>1. leadStatus' \in [Leads -> LeadStates]
      BY <2>3 DEF TypeOK, LeadStates
    <3> QED BY <1>2, <2>6, <3>1
            DEF SendFail, SendCommit, TypeOK, generatorVars, schedulerVars
  <2>8. FlightIsQueued'
    BY <1>2 DEF SendFail, SendCommit, FlightIsQueued
  <2>9. DraftsAreOld'
    BY <1>2, <2>3 DEF SendFail, SendCommit, DraftsAreOld, TypeOK, generatorVars
  <2> QED BY <2>6, <2>7, <2>8, <2>9
<1> QED BY <1>1, <1>2

LEMMA AgeFInv ==
    ASSUME FInv, NEW l \in Leads, NEW k \in Kinds, Age(l, k) PROVE FInv'
<1> USE DEF FInv
<1>1. <<"sent", "old">> \in Moves /\ "sent" \in Stages /\ "old" \in Stages
  BY DEF Moves, Stages
<1>2. /\ mail' \in [Leads -> [Kinds -> [Stages -> Nat]]]
      /\ StatusMatchesMail' /\ FollowupsFollow'
  BY <1>1, MovedMail DEF Age, schedulerVars
<1>3. TypeOK'
  BY <1>2 DEF Age, TypeOK, generatorVars, schedulerVars
<1>4. FlightIsQueued'
  <2>1. \A m \in Leads, j \in Kinds : mail'[m][j]["queued"] = mail[m][j]["queued"]
    <3>1. Move(l, k, "sent", "old") /\ mail[l][k]["sent"] > 0
      BY DEF Age
    <3>2. "queued" \in Stages
      BY DEF Stages
    <3> QED BY <1>1, <3>1, <3>2, MoveOne, SMTT(30)
  <2> QED BY <2>1 DEF Age, FlightIsQueued, TypeOK
<1>5. DraftsAreOld'
  BY DEF Age, DraftsAreOld, generatorVars
<1> QED BY <1>2, <1>3, <1>4, <1>5

LEMMA AnswerFInv ==
    ASSUME FInv, NEW l \in Leads, NEW status \in Answers,
           Answer(l, status)
    PROVE  FInv'
<1> USE DEF FInv
<1>1. TypeOK'
  BY DEF Answer, SetStatus, TypeOK, LeadStates, generatorVars, schedulerVars
<1>2. FlightIsQueued'
  BY DEF Answer, FlightIsQueued
<1>3. DraftsAreOld'
  BY DEF Answer, SetStatus, DraftsAreOld, TypeOK, generatorVars, Answers
<1>4. StatusMatchesMail' /\ FollowupsFollow'
  BY SameMail DEF Answer, SetStatus, TypeOK, schedulerVars
<1> QED BY <1>1, <1>2, <1>3, <1>4

\* A selected lead has an old initial message: for a second follow-up, because it has a
\* first one.
LEMMA SelectFInv == ASSUME FInv, NEW k \in Followups, SchedSelect(k) PROVE FInv'
<1> USE DEF FInv
<1>1. TypeOK'
  BY DEF SchedSelect, TypeOK, generatorVars
<1>2. FlightIsQueued' /\ DraftsAreOld'
  BY DEF SchedSelect, FlightIsQueued, DraftsAreOld, generatorVars
<1>3. \A l \in Leads, j \in Kinds : /\ Count(l, j)' = Count(l, j)
                                    /\ Delivered(l, j)' = Delivered(l, j)
  BY DEF SchedSelect, Count, Delivered
<1>4. StatusMatchesMail'
  BY <1>3 DEF SchedSelect, StatusMatchesMail, Kinds
<1>5. ASSUME NEW l \in Leads, Due(l, k) PROVE mail[l]["initial"]["old"] > 0
  <2>1. CASE k = "followup_1"
    BY <1>5, <2>1 DEF Due, Predecessor
  <2>2. CASE k = "followup_2"
    <3>1. mail[l]["followup_1"]["old"] > 0
      BY <1>5, <2>2 DEF Due, Predecessor
    <3>2. Count(l, "followup_1") > 0
      BY <3>1 DEF Count, Delivered, TypeOK, Stages, Kinds, Followups
    <3> QED BY <3>2 DEF FollowupsFollow, Followups
  <2> QED BY <2>1, <2>2 DEF Followups
<1>6. FollowupsFollow'
  BY <1>3, <1>5 DEF SchedSelect, FollowupsFollow, Kinds
<1> QED BY <1>1, <1>2, <1>4, <1>6

\* The lead that is read for a follow-up is one of the selected.
LEMMA FollowReadFInv == ASSUME FInv, NEW l \in Leads, FollowRead(l) PROVE FInv'
<1> USE DEF FInv
<1>1. due # None /\ l \in due.leads /\ due.kind \in Followups
  BY DEF FollowRead, TypeOK
<1>2. TypeOK'
  <2>1. due' \in [kind: Followups, leads: SUBSET Leads] \cup {None}
    BY DEF FollowRead, TypeOK
  <2>2. made' \in [lead: Leads, kind: Followups, stored: BOOLEAN] \cup {None}
    BY <1>1 DEF FollowRead
  <2> QED BY <2>1, <2>2 DEF FollowRead, TypeOK, generatorVars
<1>3. FlightIsQueued' /\ DraftsAreOld'
  BY DEF FollowRead, FlightIsQueued, DraftsAreOld, generatorVars
<1>4. StatusMatchesMail' /\ FollowupsFollow'
  BY <1>1, SameMail DEF FollowRead
<1> QED BY <1>2, <1>3, <1>4

LEMMA FollowGenerateFInv == ASSUME FInv, FollowGenerate PROVE FInv'
<1> USE DEF FInv
<1>1. PICK l \in Leads, k \in Followups : made.lead = l /\ made.kind = k
  BY DEF FollowGenerate, TypeOK
<1>2. "initial" \in Kinds /\ k \in Kinds /\ "pending" \in Stages
  BY DEF Kinds, Stages
<1>3. /\ mail' \in [Leads -> [Kinds -> [Stages -> Nat]]]
      /\ \A m \in Leads, j \in Kinds :
            /\ Count(m, j)' = IF m = l /\ j = k THEN Count(m, j) + 1 ELSE Count(m, j)
            /\ Delivered(m, j)' = Delivered(m, j)
            /\ mail'[m][j]["old"] = mail[m][j]["old"]
  BY <1>1, <1>2, AddOne, AddCounts DEF FollowGenerate
<1>4. mail[l]["initial"]["old"] > 0
  BY <1>1 DEF FollowGenerate, FollowupsFollow
<1>5. /\ \A m \in Leads, j \in Kinds : Count(m, j) \in Nat
      /\ Count(l, "initial") # 0
  BY <1>2, <1>4 DEF Count, Delivered, TypeOK, Stages
<1>6. TypeOK'
  <2>1. made' \in [lead: Leads, kind: Followups, stored: BOOLEAN] \cup {None}
    BY DEF FollowGenerate, TypeOK
  <2> QED BY <1>3, <2>1 DEF FollowGenerate, TypeOK, generatorVars
<1>7. FlightIsQueued' /\ DraftsAreOld'
  BY DEF FollowGenerate, FlightIsQueued, DraftsAreOld, generatorVars
<1>8. UNCHANGED <<leadStatus, due>> /\ leadStatus[l] # "new"
  BY <1>2, <1>5 DEF FollowGenerate, StatusMatchesMail
<1>9. StatusMatchesMail'
  BY <1>2, <1>3, <1>5, <1>8 DEF StatusMatchesMail
<1>10. FollowupsFollow'
  <2>1. \A j \in Followups : j \in Kinds
    BY DEF Kinds
  <2>2. \A m \in Leads : made' # None /\ made'.lead = m => m = l
    BY <1>1 DEF FollowGenerate, TypeOK
  <2> QED BY <1>2, <1>3, <1>4, <1>8, <2>1, <2>2 DEF FollowupsFollow
<1> QED BY <1>6, <1>7, <1>9, <1>10

LEMMA FollowEnqueueFInv == ASSUME FInv, FollowEnqueue PROVE FInv'
<1> USE DEF FInv
<1>1. PICK l \in Leads, k \in Kinds : made.lead = l /\ made.kind = k
  BY DEF FollowEnqueue, TypeOK, Kinds
<1>2. CASE mail[l][k]["pending"] > 0
  <2>1. Move(l, k, "pending", "queued") /\ <<"pending", "queued">> \in Moves
    BY <1>1, <1>2 DEF FollowEnqueue, EnqueuePending, Moves
  <2>2. /\ mail' \in [Leads -> [Kinds -> [Stages -> Nat]]]
        /\ StatusMatchesMail' /\ FollowupsFollow'
    BY <1>2, <2>1, MovedMail DEF FollowEnqueue
  <2> QED BY <2>2 DEF FollowEnqueue, TypeOK, FlightIsQueued, DraftsAreOld, generatorVars
<1>3. CASE ~(mail[l][k]["pending"] > 0)
  <2>1. UNCHANGED mail
    BY <1>1, <1>3 DEF FollowEnqueue, EnqueuePending
  <2>2. StatusMatchesMail' /\ FollowupsFollow'
    BY <2>1, SameMail DEF FollowEnqueue
  <2> QED BY <2>1, <2>2 DEF FollowEnqueue, TypeOK, FlightIsQueued, DraftsAreOld, generatorVars
<1> QED BY <1>2, <1>3

LEMMA PassFInv ==
    ASSUME FInv, SchedEnd \/ FollowFail \/ \E l \in Leads : FollowSkip(l) PROVE FInv'
<1> USE DEF FInv
<1>1. CASE SchedEnd \/ FollowFail
  <2> USE <1>1 DEF SchedEnd, FollowFail, generatorVars
  <2>1. TypeOK' /\ FlightIsQueued' /\ DraftsAreOld'
    BY DEF TypeOK, FlightIsQueued, DraftsAreOld
  <2> QED BY <2>1, SameMail
<1>2. ASSUME NEW l \in Leads, FollowSkip(l) PROVE FInv'
  <2> USE <1>2 DEF FollowSkip, generatorVars
  <2>1. TypeOK'
    BY DEF TypeOK
  <2>2. FlightIsQueued' /\ DraftsAreOld'
    BY DEF FlightIsQueued, DraftsAreOld
  <2>3. StatusMatchesMail' /\ FollowupsFollow'
    BY SameMail
  <2> QED BY <2>1, <2>2, <2>3
<1> QED BY <1>1, <1>2

LEMMA NextFInv == FInv /\ [Next]_vars => FInv'
<1> SUFFICES ASSUME FInv, [Next]_vars PROVE FInv'
  OBVIOUS
<1>1. ASSUME NEW l \in Leads, LeadStep(l) PROVE FInv'
  BY <1>1, EnrichFInv, FollowReadFInv, PassFInv, ClaimFInv, AgeFInv, AnswerFInv
     DEF LeadStep
<1>2. ASSUME NEW g \in Generators, GeneratorStep(g) PROVE FInv'
  BY <1>2, GeneratorFInv
<1>3. CASE Start
  BY <1>3, StartFInv
<1>4. CASE SendFail \/ SendCommit \/ SendAgain
  BY <1>4, WorkerFInv
<1>5. ASSUME NEW k \in Followups, SchedSelect(k) PROVE FInv'
  BY <1>5, SelectFInv
<1>6. CASE FollowGenerate \/ FollowEnqueue \/ FollowFail \/ SchedEnd
  BY <1>6, FollowGenerateFInv, FollowEnqueueFInv, PassFInv
<1>7. CASE UNCHANGED vars
  BY <1>7 DEF vars, generatorVars, schedulerVars, FInv, TypeOK, FlightIsQueued,
     DraftsAreOld, StatusMatchesMail, FollowupsFollow, Count, Delivered
<1> QED BY <1>1, <1>2, <1>3, <1>4, <1>5, <1>6, <1>7 DEF Next

LEMMA FunnelInvariant == Spec => []FInv
<1>1. Init => FInv
  BY InitFInv
<1>2. FInv /\ [Next]_vars => FInv'
  BY NextFInv
<1> QED BY <1>1, <1>2, PTL DEF Spec

\* The funnel's variables keep their types; in particular no count of records goes below
\* zero, although enqueuing, sending and a start move the same records.
THEOREM FunnelTypeOK == Spec => []TypeOK
<1>1. FInv => TypeOK
  BY DEF FInv
<1> QED BY <1>1, FunnelInvariant, PTL

\* complete_send_job, generate_email_for_lead and enrich_lead write the status in any
\* order and from stale reads, and still it never claims a message that does not exist.
THEOREM StatusIsTrue == Spec => []StatusMatchesMail
<1>1. FInv => StatusMatchesMail
  BY DEF FInv
<1> QED BY <1>1, FunnelInvariant, PTL

\* A follow-up is generated, and selected, only after an initial message that was
\* delivered before the cutoff.
THEOREM FollowupsComeAfter == Spec => []FollowupsFollow
<1>1. FInv => FollowupsFollow
  BY DEF FInv
<1> QED BY <1>1, FunnelInvariant, PTL

-----------------------------------------------------------------------------
(* InitialsBounded: BInv is inductive, given FInv                          *)

LEMMA SomeGenerators ==
    ASSUME NEW S \in SUBSET Generators
    PROVE  /\ IsFiniteSet(S) /\ Cardinality(S) \in Nat
           /\ Cardinality(S) <= Cardinality(Generators)
           /\ Cardinality(Generators) \in Nat
BY FunnelAssumption, FS_Subset, FS_CardinalityType

LEMMA FewerGenerators ==
    ASSUME NEW S \in SUBSET Generators, NEW T \in SUBSET S
    PROVE  Cardinality(T) <= Cardinality(S)
BY SomeGenerators, FS_Subset

LEMMA OneGeneratorLess ==
    ASSUME NEW S \in SUBSET Generators, NEW g \in S
    PROVE  Cardinality(S \ {g}) = Cardinality(S) - 1
BY SomeGenerators, FS_RemoveElement

LEMMA BudgetType ==
    ASSUME TypeOK, NEW l \in Leads
    PROVE  Budget(l) \in Nat /\ Count(l, "initial") \in Nat
<1>1. \A t \in Stages : mail[l]["initial"][t] \in Nat
  BY DEF TypeOK, Kinds
<1>2. Count(l, "initial") \in Nat
  BY <1>1 DEF Count, Delivered, Stages
<1>3. Cardinality(Generators) \in Nat /\ returned[l] \in Nat
  BY SomeGenerators DEF TypeOK
<1> QED BY <1>2, <1>3 DEF Budget

\* A step that adds no initial record of the lead keeps it covered, unless it makes it
\* eligible, a keeper of an eligible lead, or a holder of another one.
LEMMA StillCovered ==
    ASSUME TypeOK, NEW l \in Leads, Covered(l),
           Count(l, "initial")' = Count(l, "initial"), returned'[l] = returned[l],
           leadStatus'[l] \in Eligible => /\ leadStatus[l] \in Eligible
                                         /\ Keepers(l)' \subseteq Keepers(l),
           leadStatus'[l] \notin Eligible => \/ leadStatus[l] \in Eligible
                                           \/ Holders(l)' \subseteq Holders(l)
    PROVE  Covered(l)'
<1> DEFINE n == Cardinality(Generators)
<1>1. /\ Keepers(l) \in SUBSET Generators /\ Holders(l) \in SUBSET Generators
      /\ Keepers(l)' \in SUBSET Generators /\ Holders(l)' \in SUBSET Generators
  BY DEF Keepers, Holders
<1>2. /\ Cardinality(Keepers(l)) \in Nat /\ Cardinality(Holders(l)) \in Nat
      /\ Cardinality(Keepers(l)') \in Nat /\ Cardinality(Holders(l)') \in Nat
      /\ Cardinality(Holders(l)') <= n /\ n \in Nat
  BY <1>1, SomeGenerators
<1>3. Budget(l)' = Budget(l) /\ Budget(l) \in Nat /\ Count(l, "initial") \in Nat
  BY BudgetType DEF Budget
<1>4. CASE leadStatus'[l] \in Eligible
  <2>1. Cardinality(Keepers(l)') <= Cardinality(Keepers(l))
    BY <1>1, <1>4, FewerGenerators
  <2> QED BY <1>2, <1>3, <1>4, <2>1 DEF Covered
<1>5. CASE leadStatus'[l] \notin Eligible
  <2>1. CASE leadStatus[l] \in Eligible
    BY <1>2, <1>3, <1>5, <2>1 DEF Covered
  <2>2. CASE leadStatus[l] \notin Eligible /\ Holders(l)' \subseteq Holders(l)
    <3>1. Cardinality(Holders(l)') <= Cardinality(Holders(l))
      BY <1>1, <2>2, FewerGenerators
    <3> QED BY <1>2, <1>3, <1>5, <2>2, <3>1 DEF Covered
  <2> QED BY <1>5, <2>1, <2>2
<1> QED BY <1>4, <1>5

LEMMA InitBInv == Init => BInv
<1> SUFFICES ASSUME Init PROVE BInv
  OBVIOUS
<1>1. DraftsAreOut
  BY DEF Init, DraftsAreOut
<1>2. ASSUME NEW l \in Leads PROVE Covered(l)
  <2>1. Keepers(l) = {} /\ Count(l, "initial") = 0 /\ leadStatus[l] \in Eligible
    BY DEF Init, Keepers, Count, Delivered, Stages, Kinds, Eligible
  <2>2. Budget(l) = Cardinality(Generators) /\ Cardinality(Generators) \in Nat
    BY SomeGenerators DEF Init, Budget
  <2> QED BY <2>1, <2>2, FS_EmptySet DEF Covered
<1> QED BY <1>1, <1>2 DEF BInv

LEMMA EnrichBInv ==
    ASSUME TypeOK, BInv, NEW l \in Leads, Enrich(l) PROVE BInv'
<1> USE DEF BInv
<1>1. DraftsAreOut'
  BY DEF Enrich, generatorVars, DraftsAreOut
<1>2. ASSUME NEW m \in Leads
      PROVE  /\ Count(m, "initial")' = Count(m, "initial")
             /\ Keepers(m)' = Keepers(m) /\ Holders(m)' = Holders(m)
  BY DEF Enrich, generatorVars, Count, Delivered, Keepers, Holders
<1>3. ASSUME NEW m \in Leads, m # l \/ leadStatus[l] \in Eligible PROVE Covered(m)'
  <2>1. returned'[m] = returned[m]
    BY <1>3 DEF Enrich, TypeOK
  <2>2. leadStatus'[m] \in Eligible <=> leadStatus[m] \in Eligible
    BY <1>3 DEF Enrich, SetStatus, TypeOK, Eligible
  <2> QED BY <1>2, <2>1, <2>2, StillCovered
<1>4. ASSUME leadStatus[l] \notin Eligible PROVE Covered(l)'
  <2> DEFINE n == Cardinality(Generators)
  <2>1. leadStatus'[l] \in Eligible /\ returned'[l] = returned[l] + 1
    BY <1>4 DEF Enrich, SetStatus, TypeOK, Eligible
  <2>2. Keepers(l) \subseteq Holders(l) /\ Holders(l) \subseteq Generators
    BY DEF Keepers, Holders
  <2>3. Cardinality(Keepers(l)) <= Cardinality(Holders(l))
    BY <2>2, FewerGenerators
  <2>4. /\ Cardinality(Keepers(l)) \in Nat /\ Cardinality(Holders(l)) \in Nat
        /\ n \in Nat /\ returned[l] \in Nat
    BY <2>2, SomeGenerators DEF TypeOK
  <2>5. Budget(l)' = Budget(l) + n
    BY <2>1, <2>4 DEF Budget
  <2>6. Budget(l) \in Nat /\ Count(l, "initial") \in Nat
    BY BudgetType
  <2>7. Count(l, "initial") + Cardinality(Holders(l)) <= Budget(l)
    BY <1>4 DEF Covered
  <2> QED BY <1>2, <2>1, <2>3, <2>4, <2>5, <2>6, <2>7 DEF Covered
<1> QED BY <1>1, <1>3, <1>4

\* The generator's steps. A commit takes it out of the lead's holders; a keeper's commit
\* leaves the lead eligible, but with a keeper less; any other ends the eligibility.
LEMMA CommitBInv ==
    ASSUME FInv, BInv, NEW g \in Generators, GenCommit(g) PROVE BInv'
<1> USE DEF FInv, BInv
<1>1. PICK l \in Leads : draft[g].lead = l
  BY DEF GenCommit, TypeOK
<1>2. /\ draft[g] # None /\ draft' = [draft EXCEPT ![g] = None]
      /\ UNCHANGED <<batch, returned>>
  BY DEF GenCommit
<1>3. \A m \in Leads : Count(m, "initial")' = IF m = l THEN Count(m, "initial") + 1
                                              ELSE Count(m, "initial")
  BY <1>1, AddCounts DEF GenCommit, Kinds
<1>4. \A m \in Leads : Holders(m)' \subseteq Holders(m) /\ Keepers(m)' \subseteq Keepers(m)
  BY <1>2 DEF Holders, Keepers, TypeOK
<1>5. g \in Holders(l) /\ Holders(l)' = Holders(l) \ {g}
  BY <1>1, <1>2 DEF Holders, DraftsAreOut, TypeOK
<1>6. DraftsAreOut'
  BY <1>2 DEF DraftsAreOut, TypeOK
<1>7. ASSUME NEW m \in Leads, m # l PROVE Covered(m)'
  <2>1. leadStatus'[m] = leadStatus[m]
    BY <1>1, <1>7 DEF GenCommit, MarkGenerated, SetStatus, TypeOK
  <2> QED BY <1>2, <1>3, <1>4, <1>7, <2>1, StillCovered
<1>8. Covered(l)'
  <2> DEFINE n == Cardinality(Generators)
  <2>1. /\ Holders(l) \in SUBSET Generators /\ Keepers(l) \in SUBSET Generators
    BY DEF Holders, Keepers
  <2>2. /\ n \in Nat /\ Cardinality(Holders(l)) \in Nat
        /\ Cardinality(Keepers(l)) \in Nat /\ Cardinality(Holders(l)) <= n
    BY <2>1, SomeGenerators
  <2>3. Budget(l)' = Budget(l) /\ Budget(l) \in Nat /\ Count(l, "initial") \in Nat
    BY <1>2, BudgetType DEF Budget
  <2>4. Cardinality(Holders(l)') = Cardinality(Holders(l)) - 1
    BY <1>5, <2>1, OneGeneratorLess
  <2>5. Count(l, "initial")' = Count(l, "initial") + 1
    BY <1>3
  <2>6. CASE draft[g].seen = "email_generated"
    <3>1. leadStatus' = leadStatus
      BY <2>6 DEF GenCommit, MarkGenerated
    <3>2. g \in Keepers(l) /\ Keepers(l)' = Keepers(l) \ {g}
      BY <1>1, <1>2, <2>6 DEF Keepers, TypeOK
    <3>3. Cardinality(Keepers(l)') = Cardinality(Keepers(l)) - 1
      BY <2>1, <3>2, OneGeneratorLess
    <3> QED BY <2>2, <2>3, <2>4, <2>5, <3>1, <3>3 DEF Covered
  <2>7. CASE draft[g].seen # "email_generated"
    <3>1. leadStatus'[l] \notin Eligible
      BY <1>1, <2>7 DEF GenCommit, MarkGenerated, SetStatus, TypeOK, Eligible
    <3> QED BY <2>2, <2>3, <2>4, <2>5, <3>1 DEF Covered
  <2> QED BY <2>6, <2>7
<1> QED BY <1>6, <1>7, <1>8

LEMMA GeneratorBInv ==
    ASSUME FInv, BInv, NEW g \in Generators, GeneratorStep(g) PROVE BInv'
<1> USE DEF FInv, BInv
<1>1. CASE GenCommit(g)
  BY <1>1, CommitBInv
<1>2. CASE ~GenCommit(g)
  <2>1. UNCHANGED <<leadStatus, mail, returned>>
    BY <1>2 DEF GeneratorStep, GenSelect, GenSkip, GenRead, GenAbort
  <2>2. \A l \in Leads : Count(l, "initial")' = Count(l, "initial")
    BY <2>1 DEF Count, Delivered
  <2>3. /\ DraftsAreOut'
        /\ \A l \in Leads : /\ leadStatus[l] \in Eligible => Keepers(l)' \subseteq Keepers(l)
                            /\ leadStatus[l] \notin Eligible => Holders(l)' \subseteq Holders(l)
    <3>1. CASE GenSelect(g)
      BY <3>1 DEF GenSelect, DraftsAreOut, Keepers, Holders, TypeOK
    <3>2. ASSUME NEW l \in Leads, GenSkip(g, l) PROVE <2>3
      BY <3>2 DEF GenSkip, DraftsAreOut, Keepers, Holders, TypeOK
    <3>3. ASSUME NEW l \in Leads, GenRead(g, l) PROVE <2>3
      BY <3>3 DEF GenRead, DraftsAreOut, Keepers, Holders, TypeOK, Eligible
    <3>4. ASSUME NEW lost \in SUBSET Leads, GenAbort(g, lost) PROVE <2>3
      BY <3>4 DEF GenAbort, DraftsAreOut, Keepers, Holders, TypeOK
    <3> QED BY <1>2, <3>1, <3>2, <3>3, <3>4 DEF GeneratorStep
  <2>4. ASSUME NEW l \in Leads PROVE Covered(l)'
    BY <2>1, <2>2, <2>3, StillCovered
  <2> QED BY <2>3, <2>4
<1> QED BY <1>1, <1>2

\* All other steps leave the generators and the number of initial records alone, and make
\* no lead eligible.
OtherStep ==
    \/ Start \/ SendFail \/ SendCommit \/ SendAgain
    \/ FollowGenerate \/ FollowEnqueue \/ FollowFail \/ SchedEnd
    \/ \E k \in Followups : SchedSelect(k)
    \/ \E l \in Leads :
          \/ FollowRead(l) \/ FollowSkip(l)
          \/ \E k \in Kinds : SendClaim(l, k) \/ Age(l, k)
          \/ \E status \in Answers : Answer(l, status)
    \/ UNCHANGED vars

\* The number of initial records changes with none of them.
LEMMA OtherCounts ==
    ASSUME FInv, OtherStep
    PROVE  \A m \in Leads : Count(m, "initial")' = Count(m, "initial")
<1> USE DEF FInv
<1>1. "initial" \in Kinds /\ Followups \subseteq Kinds /\ "initial" \notin Followups
  BY DEF Kinds, Followups
<1>2. CASE UNCHANGED mail
  BY <1>2 DEF Count, Delivered
<1>3. CASE Start
  BY <1>1, <1>3, StartCounts
<1>4. CASE FollowGenerate
  <2>1. /\ made.lead \in Leads /\ made.kind \in Followups
        /\ Add(made.lead, made.kind, "pending")
    BY <1>4 DEF FollowGenerate, TypeOK
  <2> QED BY <1>1, <2>1, AddCounts
<1>5. ASSUME NEW l \in Leads, NEW k \in Kinds, NEW from, NEW to, <<from, to>> \in Moves,
             mail[l][k][from] > 0, Move(l, k, from, to)
      PROVE \A m \in Leads : Count(m, "initial")' = Count(m, "initial")
  BY <1>1, <1>5, MoveCounts
<1>6. CASE SendFail \/ SendCommit
  <2>1. PICK to \in {"failed", "sent"} : Move(flight.lead, flight.kind, "queued", to)
    BY <1>6 DEF SendFail, SendCommit
  <2>2. <<"queued", to>> \in Moves
    BY DEF Moves
  <2>3. /\ flight.lead \in Leads /\ flight.kind \in Kinds
        /\ mail[flight.lead][flight.kind]["queued"] > 0
    BY <1>6 DEF SendFail, SendCommit, TypeOK, FlightIsQueued
  <2> QED BY <1>5, <2>1, <2>2, <2>3
<1>7. CASE FollowEnqueue
  <2>1. made.lead \in Leads /\ made.kind \in Kinds
    BY <1>1, <1>7 DEF FollowEnqueue, TypeOK
  <2>2. \/ UNCHANGED mail
        \/ /\ mail[made.lead][made.kind]["pending"] > 0
           /\ Move(made.lead, made.kind, "pending", "queued")
    BY <1>7 DEF FollowEnqueue, EnqueuePending
  <2>3. <<"pending", "queued">> \in Moves
    BY DEF Moves
  <2> QED BY <1>2, <1>5, <2>1, <2>2, <2>3
<1>8. ASSUME NEW l \in Leads, NEW k \in Kinds, Age(l, k)
      PROVE \A m \in Leads : Count(m, "initial")' = Count(m, "initial")
  <2>1. <<"sent", "old">> \in Moves
    BY DEF Moves
  <2> QED BY <1>5, <1>8, <2>1 DEF Age
<1>9. CASE SendAgain \/ FollowFail \/ SchedEnd \/ UNCHANGED vars \/ \E k \in Followups : SchedSelect(k)
  BY <1>2, <1>9 DEF SendAgain, FollowFail, SchedEnd, SchedSelect, vars
<1>10. ASSUME NEW l \in Leads,
              \/ FollowRead(l) \/ FollowSkip(l) \/ \E k \in Kinds : SendClaim(l, k)
              \/ \E status \in Answers : Answer(l, status)
       PROVE  UNCHANGED mail
  BY <1>10 DEF FollowRead, FollowSkip, SendClaim, Answer
<1> QED BY <1>2, <1>3, <1>4, <1>6, <1>7, <1>8, <1>9, <1>10 DEF OtherStep

LEMMA OtherBInv == ASSUME FInv, BInv, OtherStep PROVE BInv'
<1> USE DEF FInv, BInv
<1>1. UNCHANGED <<batch, draft, returned>>
  BY DEF OtherStep, Start, SendFail, SendCommit, SendAgain, FollowEnqueue, SchedEnd,
         SchedSelect, FollowRead, FollowGenerate, FollowFail, FollowSkip, SendClaim, Age, Answer, vars, generatorVars
<1>2. ASSUME NEW m \in Leads
      PROVE leadStatus'[m] = leadStatus[m] \/ leadStatus'[m] \notin Eligible
  <2>1. \/ UNCHANGED leadStatus
        \/ \E l \in Leads, s \in LeadStates \ Eligible : SetStatus(l, s)
    BY DEF OtherStep, Start, SendFail, SendCommit, SendAgain, FollowEnqueue, SchedEnd,
           SchedSelect, FollowRead, FollowGenerate, FollowFail, FollowSkip, SendClaim, Age, Answer, vars,
           LeadStates, Eligible, Answers, TypeOK
  <2> QED BY <2>1 DEF SetStatus, TypeOK
<1>3. DraftsAreOut'
  BY <1>1 DEF DraftsAreOut
<1>4. ASSUME NEW m \in Leads PROVE Covered(m)'
  <2>1. Keepers(m)' = Keepers(m) /\ Holders(m)' = Holders(m)
    BY <1>1 DEF Keepers, Holders
  <2> QED BY <1>1, <1>2, <2>1, OtherCounts, StillCovered
<1> QED BY <1>3, <1>4

LEMMA NextBInv == FInv /\ BInv /\ [Next]_vars => BInv'
<1> SUFFICES ASSUME FInv, BInv, [Next]_vars PROVE BInv'
  OBVIOUS
<1>1. ASSUME NEW l \in Leads, Enrich(l) PROVE BInv'
  BY <1>1, EnrichBInv DEF FInv
<1>2. ASSUME NEW g \in Generators, GeneratorStep(g) PROVE BInv'
  BY <1>2, GeneratorBInv
<1>3. CASE OtherStep
  BY <1>3, OtherBInv
<1> QED BY <1>1, <1>2, <1>3 DEF Next, LeadStep, OtherStep

LEMMA BInvBounds == FInv /\ BInv => InitialsBounded
<1> SUFFICES ASSUME FInv, BInv, NEW l \in Leads PROVE Count(l, "initial") <= Budget(l)
  BY DEF InitialsBounded, Budget
<1>1. Keepers(l) \in SUBSET Generators /\ Holders(l) \in SUBSET Generators
  BY DEF Keepers, Holders
<1> QED BY <1>1, SomeGenerators, BudgetType DEF FInv, BInv, Covered

\* However many generators select a lead and hold a stale read of it, it never gets more
\* initial messages than one for each of them and each return to eligibility.
THEOREM InitialsAreBounded == Spec => []InitialsBounded
<1>1. Init => BInv
  BY InitBInv
<1>2. FInv /\ BInv /\ [Next]_vars => BInv'
  BY NextBInv
<1>3. FInv /\ BInv => InitialsBounded
  BY BInvBounds
<1> QED BY <1>1, <1>2, <1>3, FunnelInvariant, PTL DEF Spec
=============================================================================
