SPECIFICATION FairSpec
CONSTANTS
    Scans = {s1}
    AsyncScans = {}
    Bodies = {mal}
    BodyOf <- SameBody
    Infected = {mal}
    Admins = {a1, a2}
    QuarRetention = 7
    DaySteps <- EightDays
    MaxDay = 8
    MaxBoots = 2
    DbFaults = TRUE
    Redeploys = TRUE
    NoFile = NoFile
    Torn = Torn
    NoKey = NoKey
    NoEntry = NoEntry
INVARIANTS
    RowHasBytes IdNamesRow RestoredIsRecorded
PROPERTIES
    AgedIsRemoved
