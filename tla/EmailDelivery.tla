---------------------------- MODULE EmailDelivery ----------------------------
(***************************************************************************)
(* What the send queue promises, without jobs, workers, leases or          *)
(* transactions: a message is transmitted only while it is queued, so never*)
(* before it was submitted nor after its record says SENT or FAILED; SENT  *)
(* means that the provider took at least one copy; both outcomes are final.*)
(* At-least-once, not exactly-once: Transmit may happen again.             *)
(***************************************************************************)
EXTENDS Naturals

CONSTANT Emails
VARIABLES stage, copies

Init ==
    /\ stage = [e \in Emails |-> "draft"]
    /\ copies = [e \in Emails |-> 0]

Submit(S) ==
    /\ \A e \in S : stage[e] = "draft"
    /\ stage' = [e \in Emails |-> IF e \in S THEN "queued" ELSE stage[e]]
    /\ UNCHANGED copies

Transmit(e) ==
    /\ stage[e] = "queued"
    /\ copies' = [copies EXCEPT ![e] = @ + 1]
    /\ UNCHANGED stage

Confirm(e) ==
    /\ stage[e] = "queued"
    /\ copies[e] > 0
    /\ stage' = [stage EXCEPT ![e] = "sent"]
    /\ UNCHANGED copies

GiveUp(e) ==
    /\ stage[e] = "queued"
    /\ stage' = [stage EXCEPT ![e] = "failed"]
    /\ UNCHANGED copies

Next ==
    \/ \E S \in SUBSET Emails : Submit(S)
    \/ \E e \in Emails : Transmit(e) \/ Confirm(e) \/ GiveUp(e)

Spec == Init /\ [][Next]_<<stage, copies>>
=============================================================================
