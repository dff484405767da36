SPECIFICATION FairSpec
CONSTANTS
    MaxLen = 4
    MaxBytes = 3
    ChunkSize = 2
    Overhead = 1
    MaxRedirects = 3
    RuleNames = {plain, token}
    NamesWithOK = {token}
    Addresses = {public, mirror, private}
    BlockedIPs = {private}
    NoRequest = NoRequest
INVARIANTS VerdictOnWholeBody VerdictIsClamds LimitIsApplied DialsOnlyAllowed
PROPERTIES ScanEnds
