\* Four chunks of 1, 1, 2 and 1 bytes; the buffer holds 4, the upload queue 2.
SPECIFICATION FairSpec
CONSTANTS
    Sizes <- FourChunks
    MaxBufferedBytes = 4
    MaxQueuedBytes = 2
    MaxStops = 2
    Eager = {TRUE, FALSE}
INVARIANTS
    BlobIsComplete
    ChunksAccounted
    StateIsHonest
PROPERTIES
    QueueDrains
    StopResolves
