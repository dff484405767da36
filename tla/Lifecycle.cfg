SPECIFICATION FairSpec
CONSTANTS
    Streams = {stream}
    Jobs = {job}
    Scans = {scan}
INVARIANTS StopIsFinal ExitLeavesNothingOpen
PROPERTIES ChildrenComeBack ShutdownCompletes
