SPECIFICATION ReadPathSpec
CONSTANTS
    c1 = c1
    c2 = c2
    r = r
    p = p
    song = song
    Reader = r
    Workers <- WithPrefetcher
    Files <- OneFile
    Chunks <- TwoChunks
    ChunkOf <- MCChunkOf
    Bytes <- MCBytes
    MaxSize = 2
    Width = 32
    MaxMissed = 1
    Events = {"crash", "power_loss", "io_error", "timeout"}
    Disturbances = {"origin_change", "origin_down"}
CONSTRAINT
    QuietLater
INVARIANTS
    UnchangedReadsSucceed
    FailsAtMostTwice
    ReadsAreRight
CHECK_DEADLOCK FALSE
