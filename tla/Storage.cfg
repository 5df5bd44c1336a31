SPECIFICATION StorageSpec
CONSTANTS
    FwVersions = {v1, v2}
    FwLast = 2
    FwFatWrites = 2
    FwInstalls = 3
    FwFaults = {"read", "write", "power"}
    FwBlank = blank
    FwBad = bad
    FwNoFile = none
    StRecords = {r1, r2}
    StPayLen = 2
    StSeqMod = 8
    StFirstSeqs <- FirstSeqs
    StSaves = 3
    StFaults = {"error", "bad", "read", "power"}
    StNone = none
    MdBuilds = 4
    MdChunks = 2
    MdFaults = {"io", "read", "power"}
    MdClosed = closed
    FfFiles = {fileA, fileB}
    FfLastCluster = 5
    FfUnit = 2
    FfLens = {0, 1, 3}
    FfCalls = 4
    FfFaults = {"write", "power"}
    FfNone = none
    LgRoom = 2
    LgFileRoom = 4
    LgFileBound = 5
    LgLines = 7
    LgFaults = {"probe", "truncate", "write", "late", "power"}
INVARIANTS
    StorageTypeOK
    FwHeaderLast
    FwOneSlotWholeAtFirst
    MdHandleWhole
    FfChainsApart
    FfNothingLost
    FfAppendAtomic
    LgNoneMissing
PROPERTIES
    FwRetiredIfInstalled
    StRegister
    MdIndex
CHECK_DEADLOCK FALSE
