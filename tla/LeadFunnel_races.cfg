\* One lead, two generators and the scheduler.
SPECIFICATION Spec
CONSTANTS
    None = None
    Leads = {l1}
    Generators = {g1, g2}
    MaxReturns = 1
    MaxFollowups = 2
INVARIANTS TypeOK InitialsBounded StatusMatchesMail FollowupsFollow
