CONSTANTS
    r1 = r1
    r2 = r2
    r3 = r3
    Request = {r1, r2}
    Job <- LongSseJobs
    Capacity = 1
    MaxWaiting = 0
    PrefillBatch = 2
    PrefillChunk = 1
    MatchLengths = {0}
SPECIFICATION FairSpec
PROPERTIES
    DisconnectEvicts
CHECK_DEADLOCK FALSE
