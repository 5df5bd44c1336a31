CONSTANTS
    f1 = f1
    f2 = f2
    NoFile = NoFile
    NoByte = NoByte
    Files <- OneFile
    NextFiles <- NoNext
    FileSize <- TwoBytes
    RingBytes <- OneByteRings
    RefillChunk = 1
    Sector = 1
    ReadLens <- Lens1
    SeekTargets <- Seeks03
    SeqModulus = 2
    Modulus = 3
    Faults <- AllFaults
SPECIFICATION FairSpec
PROPERTIES
    CallsReturn
