\* One worker dies between provider.send and the commit.
SPECIFICATION Spec
SYMMETRY Interchangeable
CONSTANTS
    c1 = c1
    l1 = l1
    l2 = l2
    e1 = e1
    e2 = e2
    None = None
    Campaigns = {c1}
    Leads = {l1, l2}
    Emails = {e1, e2}
    Followups = {}
    CampaignOf <- InC1
    LeadOf <- OwnLead
    Workers = {w1}
    Requests = {r1}
    MaxAttempts = 3
    BackoffBase = 1
    PolicyDelays = {2}
    BreakerMin = 1
    OptOutRoutes = {}
    MaxClaims = 1
    MaxFaults = 2
INVARIANTS NeverDuplicated
