SPECIFICATION PlaybackSpec
CONSTANTS
    Capacity <- MCCapacity
    Modulus <- MCModulus
    MaxLen <- MCMaxLen
    Values <- MCValues
    Total = 24
    Delay = 3
    Pad = 2
    Known = TRUE
    Chunk = 4
    Seeks <- Anywhere
    ra = ra
    rb = rb
    rc = rc
    rx = rx
    rm = rm
    PqRecords = {ra, rb, rc, rx, rm}
    PqMissing = {rm}
    PqBad = {rx}
    PqFormat <- PqSomeFormats
    PqLists <- PqSomeLists
    PqSkips = 2
    PqFaults = {"start", "open", "dac", "seek", "preopen", "next", "decode"}
    PqNone = none
    adrA = adrA
    adrB = adrB
    adrC = adrC
    BtAddrs = {adrA, adrB, adrC}
    BtDevMax = 2
    BtStored <- PairedOrNot
    BtNone = none
INVARIANTS
    PlaybackTypeOK
    Occupancy
    NoSlotRace
    TrimExact
    PqOrderWhole
    PqAgree
    PqRestartDrainsAtFirst
    BtIndicesRight
    BtToldRight
PROPERTIES
    FifoSpec
    PqOncePerEnd
    BtSavedFollows
    BtOffFirst
SYMMETRY Addresses
CHECK_DEADLOCK FALSE
