SPECIFICATION FairSpec
CONSTANTS
    song = song
    track = track
    Files <- TwoFiles
    Queries = {"all", "second"}
    Matches <- MCMatches
    Receivers = {"indexer", "webhook"}
    Capacity = 1
    Retries = 1
    Limit = 1
    Batches <- MCBatches
    MaxDocuments = 3
    MaxChanges = 2
    MaxFaults = 1
CONSTRAINT
    LinksApart
INVARIANTS
    IndexIsRight
    NothingUncommitted
    LinksKeepTheirHit
PROPERTIES
    ItSettles
CHECK_DEADLOCK FALSE
