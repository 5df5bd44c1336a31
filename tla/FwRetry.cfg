SPECIFICATION FwSpec
CONSTANTS
    FwVersions = {v1, v2}
    FwLast = 2
    FwFatWrites = 2
    FwInstalls = 3
    FwFaults = {"read", "write", "power"}
    FwBlank = blank
    FwBad = bad
    FwNoFile = nofile
INVARIANT FwOneSlotWhole
CHECK_DEADLOCK FALSE
