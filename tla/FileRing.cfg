CONSTANTS
    f1 = f1
    f2 = f2
    NoFile = NoFile
    NoByte = NoByte
    Files <- TwoFiles
    NextFiles <- SecondFile
    FileSize <- LongAndShort
    RingBytes <- LongRings
    RefillChunk = 4
    Sector = 2
    ReadLens <- Lens3
    SeekTargets <- Seeks37
    SeqModulus = 2
    Modulus = 16
    Faults <- ReadFaults
SPECIFICATION Spec
INVARIANTS
    TypeOK
    RingHoldsFile
    SeekQuiesced
PROPERTIES
    ReaderSpec
    SeekLands
