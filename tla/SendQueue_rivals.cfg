\* Two jobs of one campaign for one lead, which two workers want to claim; the lead opts
\* out through the suppression list, and every job finishes under the workers' fairness.
SPECIFICATION FairSpec
CONSTANTS
    c1 = c1
    l1 = l1
    l2 = l2
    e1 = e1
    e2 = e2
    None = None
    Campaigns = {c1}
    Leads = {l1}
    Emails = {e1, e2}
    Followups = {}
    CampaignOf <- InC1
    LeadOf <- SameLead
    Workers = {w1, w2}
    Requests = {r1}
    MaxAttempts = 3
    BackoffBase = 1
    PolicyDelays = {2}
    BreakerMin = 1
    OptOutRoutes = {"suppression"}
    MaxClaims = 1
    MaxFaults = 1
INVARIANTS LateMailBounded
PROPERTIES JobsFinish
