\* One lead, one generator, no re-enrichment.
SPECIFICATION Spec
CONSTANTS
    None = None
    Leads = {l1}
    Generators = {g1}
    MaxReturns = 0
    MaxFollowups = 2
INVARIANTS FollowupOnce
