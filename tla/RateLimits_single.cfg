\* One worker on the account, over two days of two hours.
SPECIFICATION Spec
CONSTANTS
    None = None
    Workers = {w1}
    DailyCaps = {1}
    HourlyLimit = 2
    MinDelay = 1
    TicksPerHour = 2
    HoursPerDay = 2
    MaxTime = 7
    MaxFaults = 1
    MaxRestarts = 1
INVARIANTS CountersCover EpochCapped Paced DayBounded
