SPECIFICATION Spec
CONSTANTS
    Scans = {s1, s2}
    AsyncScans = {s2}
    Bodies = {mal}
    BodyOf <- SameBody
    Infected = {mal}
    Admins = {a1, a2}
    QuarRetention = 7
    DaySteps <- EightDays
    MaxDay = 8
    MaxBoots = 2
    DbFaults = FALSE
    Redeploys = TRUE
    NoFile = NoFile
    Torn = Torn
    NoKey = NoKey
    NoEntry = NoEntry
SYMMETRY AdminSymmetry
INVARIANTS
    TypeOK ReleasedIsOriginal CleanOnlyOnRequest DestroyedStaysDestroyed
