CONSTANTS
    Request = {r1, r2, r3}
    MaxWaiting = 2
    MaxTake = 2
SPECIFICATION FairSpec
INVARIANTS
    WorkerSleepsOnlyWhenIdle
    LosslessFifo
    ExitOnlyWhenDrained
PROPERTIES
    EarlyRequestIsTaken
    StopEndsWorker
