CONSTANTS
    r1 = r1
    r2 = r2
    r3 = r3
    Request = {r1, r2, r3}
    Job <- StreamJobs
    Capacity = 1
    MaxWaiting = 2
    PrefillBatch = 2
    PrefillChunk = 1
    MatchLengths = {0, 1}
SPECIFICATION Spec
INVARIANTS
    ExactlyOnePlace
    LogprobLockstep
    CancelIsPrompt
    MetricsExact
    ExitDrains
PROPERTIES
    KeepsLifecycle
