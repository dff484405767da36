SPECIFICATION Spec
CONSTANTS
    Requests = {good, bad}
    Infected = {bad}
    Workers = {w1, w2}
    QueueCapacity = 1
    MaxClock = 2
    ClockSteps <- CoarseClock
    DbFaults = TRUE
    Crashes = TRUE
    MaxBoots = 2
    NoFile = NoFile
    NoJob = NoJob
    NoRequest = NoRequest
SYMMETRY WorkerSymmetry
INVARIANTS OneHandler CompletedLeavesNoSpool VerdictOfOwnBytes ToldIsRecorded NoSilentLoss StopWaits
PROPERTIES KeepsContract DecidedIsFinal
