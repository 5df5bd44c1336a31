SPECIFICATION Spec
CONSTANTS
    TrackFrames = 6
    Chunk = 2
    RingFrames = 4
    Modulus = 8
    LastTrack = 2
    Reformat <- NoTrack
    TailTrim = TRUE
    SeekTargets <- SeekBack
    MaxStreams = 2
    Preloads = FALSE
    Faults <- NoFault
INVARIANTS TypeOK PcmBounded FetchedRight TrimOfTrack
PROPERTIES HeardInOrder
