SPECIFICATION FfSpec
CONSTANTS
    FfFiles = {fileA}
    FfLastCluster = 5
    FfUnit = 2
    FfLens = {0, 1, 3}
    FfCalls = 4
    FfFaults = {"walk"}
    FfNone = none
INVARIANT FfAppendAtomic
CHECK_DEADLOCK FALSE
