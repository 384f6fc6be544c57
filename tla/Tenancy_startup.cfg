\* Three processes that start at once, a login, two requests for the account.
SPECIFICATION FairSpec
CONSTANTS
    Processes = {p1, p2, p3}
    Logins = {l1}
    Requests = {r1, r2}
    Ids = {1, 2}
    None = None
    MaxFaults = 1
    MaxCrashes = 1
INVARIANTS TenantIsWhole ServingMeansSeeded TokensAreOwners CredentialsAreMine
PROPERTIES ProcessesServe
CHECK_DEADLOCK FALSE
