\* Two request threads compete with a worker for the leads, and with each other
\* for the one browser of their process.
SPECIFICATION FairSpec
CONSTANTS
    l1 = l1
    l2 = l2
    l3 = l3
    l4 = l4
    l5 = l5
    Leads = {l1, l2, l3, l4, l5}
    Sites = {l1, l3, l4}
    Listed = {l1, l3, l4, l5}
    Populations <- FewLeads
    LeadOf <- JobPerLead
    Threads = {t1, t2}
    Workers = {w1}
    Api = Api
    Deleter = Deleter
    None = None
    Permits = 1
    MaxRedirects = 1
    MaxAsked = 1
    MaxCrashes = 1
INVARIANTS TypeOK PermitsConserved OneFetchPerLead EnrichedIsAudited RefetchesBounded
PROPERTIES ImplementsEffects CallsReturn JobsFinish
CHECK_DEADLOCK FALSE
