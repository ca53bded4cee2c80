CONSTANTS
    tokA = tokA
    tokB = tokB
    Item <- MCItem
    Capacity = 2
    MaxPush = 5
SPECIFICATION FairSpec
INVARIANTS
    NoLostWakeup
    LosslessFifo
PROPERTIES
    ImplementsChannel
    BlockedPushReturns
    CloseReachesConsumer
