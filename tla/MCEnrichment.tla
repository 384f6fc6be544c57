---------------------------- MODULE MCEnrichment ----------------------------
(***************************************************************************)
(* A small instance of enrichment: the leads l1, with a website, and l2,   *)
(* without, with a job for each, the older one for l1; or l3 and l4, with  *)
(* websites and no job; or l5, whose website is an empty string.           *)
(***************************************************************************)
EXTENDS Enrichment

CONSTANTS l1, l2, l3, l4, l5

JobPerLead == <<l1, l2>>
FewLeads == {{l1, l2}, {l3, l4}, {l5}}

=============================================================================
