SPECIFICATION FairSpec
CONSTANTS
    TrackFrames = 3
    Chunk = 2
    RingFrames = 4
    Modulus = 8
    LastTrack = 1
    Reformat <- NoTrack
    TailTrim = TRUE
    SeekTargets <- NoSeek
    MaxStreams = 1
    Preloads = FALSE
    Faults <- NoFault
PROPERTIES PlaybackEnds
