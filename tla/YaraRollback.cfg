SPECIFICATION Spec
CONSTANTS
    Adds = {a1, a2}
    Deletes = {d1}
    Names = {n}
    NameOf <- OneName
    DbFaults = FALSE
    RemoveFaults = FALSE
    Crashes = FALSE
    MaxBoots = 1
    NoRule = NoRule
    Torn = Torn
    NoRequest = NoRequest
INVARIANTS
    FailedAddIsUnloaded
