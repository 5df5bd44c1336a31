SPECIFICATION TrimSpec
CONSTANTS
    Total = 12
    Delay = 4
    Pad = 2
    Known = TRUE
    Chunk = 4
    Seeks <- Anywhere
INVARIANTS TrimExact
