\* A lead is deleted while a worker has claimed its job.
SPECIFICATION FairSpec
CONSTANTS
    l1 = l1
    l2 = l2
    l3 = l3
    l4 = l4
    l5 = l5
    Leads = {l1, l2, l3, l4, l5}
    Sites = {l1, l3, l4}
    Listed = {l1, l3, l4, l5}
    Populations <- FewLeads
    LeadOf <- JobPerLead
    Threads = {t1}
    Workers = {w1}
    Api = Api
    Deleter = Deleter
    None = None
    Permits = 1
    MaxRedirects = 1
    MaxAsked = 1
    MaxCrashes = 1
PROPERTIES JobsAlwaysFinish
CHECK_DEADLOCK FALSE
