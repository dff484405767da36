SPECIFICATION FairSpec
CONSTANTS
    Requests = {good, bad}
    Infected = {bad}
    Workers = {w1, w2}
    QueueCapacity = 1
    MaxClock = 2
    ClockSteps <- FineClock
    DbFaults = FALSE
    Crashes = FALSE
    MaxBoots = 1
    NoFile = NoFile
    NoJob = NoJob
    NoRequest = NoRequest
INVARIANTS FinalVerdictIsPosted
