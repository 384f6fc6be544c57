-------------------------- MODULE EnrichmentEffects --------------------------
(***************************************************************************)
(* What enrichment promises to everyone who reads the database: a lead is  *)
(* enriched in one step, together with the audit row of the fetch; a job   *)
(* is finished in one step, as SENT only when its lead is enriched; a      *)
(* deleted lead takes its rows and jobs along.  No reader sees ENRICHING   *)
(* or PROCESSING.                                                          *)
(***************************************************************************)
EXTENDS Integers

CONSTANTS Leads, Sites, Jobs, LeadOf, Populations

VARIABLES lead, results, job

vars == <<lead, results, job>>

NoResults == [scored |-> 0, blank |-> 0]

Init ==
    /\ \E present \in Populations :
          /\ lead = [l \in Leads |->
                [status   |-> IF l \in present THEN "new" ELSE "gone",
                 enriched |-> FALSE]]
          /\ job = [j \in Jobs |->
                IF LeadOf[j] \in present THEN "queued" ELSE "gone"]
    /\ results = [l \in Leads |-> NoResults]

\* A fetch, of a page that was of use or not, with its audit row; a lead
\* without a website has nothing to fetch and gets no row.
Enrich(l) ==
    /\ lead[l].status # "gone"
    /\ IF l \in Sites
       THEN \E kind \in {"scored", "blank"} :
               /\ results' = [results EXCEPT ![l][kind] = @ + 1]
               /\ lead' = [lead EXCEPT ![l] =
                      [status   |-> "enriched",
                       enriched |-> kind = "scored" \/ lead[l].enriched]]
       ELSE /\ lead' = [lead EXCEPT ![l].status = "enriched"]
            /\ UNCHANGED results
    /\ UNCHANGED job

Finish(j) ==
    /\ job[j] = "queued"
    /\ \/ /\ lead[LeadOf[j]].status = "enriched"
          /\ job' = [job EXCEPT ![j] = "sent"]
       \/ job' = [job EXCEPT ![j] = "failed"]
    /\ UNCHANGED <<lead, results>>

Delete(l) ==
    /\ lead[l].status # "gone"
    /\ lead' = [lead EXCEPT ![l] = [status |-> "gone", enriched |-> FALSE]]
    /\ results' = [results EXCEPT ![l] = NoResults]
    /\ job' = [j \in Jobs |-> IF LeadOf[j] = l THEN "gone" ELSE job[j]]

Next ==
    \/ \E l \in Leads : Enrich(l) \/ Delete(l)
    \/ \E j \in Jobs : Finish(j)

Spec == Init /\ [][Next]_vars
=============================================================================
