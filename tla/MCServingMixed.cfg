CONSTANTS
    r1 = r1
    r2 = r2
    r3 = r3
    Request = {r1, r2, r3}
    Job <- MixedJobs
    Capacity = 1
    MaxWaiting = 0
    PrefillBatch = 2
    PrefillChunk = 0
    MatchLengths = {0, 1}
SPECIFICATION FairSpec
PROPERTIES
    KeepsLifecycle
    RequestEnds
    StopTerminates
