SPECIFICATION Spec
CONSTANTS
    NumBatches = 5
    QueueSizes <- MCQueueSizes
INVARIANTS
    TypeOK
    DepthBound
    SingleOwner
    NothingLeftBehind
    NoSilentLoss
    CopyIsolation
PROPERTIES
    InOrder
    NoWorkAfterStop
    ConsumerServed
    CleanupEnds
    KeepsPromise
