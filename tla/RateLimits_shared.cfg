\* Two workers share the account, no faults: the caps are exceeded.
SPECIFICATION Spec
CONSTANTS
    None = None
    Workers = {w1, w2}
    DailyCaps = {2}
    HourlyLimit = 2
    MinDelay = 1
    TicksPerHour = 2
    HoursPerDay = 2
    MaxTime = 3
    MaxFaults = 0
    MaxRestarts = 0
INVARIANTS EpochCapped
