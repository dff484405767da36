SPECIFICATION FairSpec
CONSTANTS
    Adds = {a1, a2}
    Deletes = {d1, d2}
    Names = {n}
    NameOf <- OneName
    DbFaults = TRUE
    RemoveFaults = TRUE
    Crashes = TRUE
    MaxBoots = 2
    NoRule = NoRule
    Torn = Torn
    NoRequest = NoRequest
INVARIANTS
    TypeOK CreatedStays FailedAddLeavesNothing FilesAreListed
PROPERTIES
    RequestsEnd CreatedIsLoaded DeletedIsUnloaded
