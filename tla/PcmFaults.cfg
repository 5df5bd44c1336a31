SPECIFICATION FairSpec
CONSTANTS
    TrackFrames = 1
    Chunk = 1
    RingFrames = 2
    Modulus = 4
    LastTrack = 3
    Reformat <- SecondTrack
    TailTrim = FALSE
    SeekTargets = {0}
    MaxStreams = 2
    Preloads = TRUE
    Faults <- CodecFaults
PROPERTIES HeardInOrder OperationsEnd
