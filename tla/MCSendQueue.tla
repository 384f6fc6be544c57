---------------------------- MODULE MCSendQueue ----------------------------
(***************************************************************************)
(* Small instances of the send queue.  Two records suffice: every race is  *)
(* between two actors over one record, one campaign or one lead.           *)
(*   siblings: both records in c1, for different leads (workers share c1)  *)
(*   rivals:   both records in c1, for one lead, whose opt-out meets two   *)
(*             jobs                                                        *)
(***************************************************************************)
EXTENDS SendQueue, TLC

CONSTANTS c1, l1, l2, e1, e2

InC1       == [e \in Emails |-> c1]
OwnLead    == [e \in Emails |-> IF e = e1 THEN l1 ELSE l2]
SameLead   == [e \in Emails |-> l1]

Interchangeable == Permutations(Workers) \cup Permutations(Requests)
=============================================================================
