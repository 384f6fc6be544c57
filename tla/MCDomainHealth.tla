--------------------------- MODULE MCDomainHealth ---------------------------
(* Instances with three checks and four answers of DNS. *)
EXTENDS DomainHealth, TLC

Answer(mx, spf, dmarc) == [mx |-> mx, spf |-> spf, dmarc |-> dmarc]

\* Everything, nothing to receive mail with, MX alone, and just healthy.
SomeReports ==
    {Answer(TRUE, TRUE, TRUE), Answer(FALSE, TRUE, TRUE), Answer(TRUE, FALSE, FALSE),
     Answer(TRUE, TRUE, FALSE)}

Interchangeable == Permutations(Checkers)
=============================================================================
