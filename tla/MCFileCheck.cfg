CONSTANTS
    Names <- MCNames
    FileName <- MCFileName
    MaxSize = 16
    Alignment = 2
    UncachedChunk = 4
    BufferedChunk = 3
    Sector = 4
    PvdOffset = 4
    AppOffset = 5
    AppSize = 2
    ChunkSize = 8
    PerCommand = 2
    MaxTries = 4
SPECIFICATION Spec
INVARIANTS LinesRead ShaIsWhole DigestIsNormalized 
PROPERTY JobEnds
