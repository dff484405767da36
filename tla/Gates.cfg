SPECIFICATION MCSpec
CONSTANTS
    Keys = {k}
    Limit = 2
    Minute = 3
    MaxTime = 6
    Alerts = {a1, a2, a3, a4}
    MaxAlerts = 2
    Insides <- SomeInsides
    LineRemarks <- SomeLineRemarks
    BlockRemarks <- SomeBlockRemarks
    MaxLexemes = 3
    MaxLines = 4
    MaxStarts = 3
SYMMETRY AlertSymmetry
INVARIANTS RateIsBounded FloodIsCut BracesAreCounted KeyIsStable
