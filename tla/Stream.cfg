CONSTANTS
    Clients = {c1, c2}
    MaxTasks = 3
SPECIFICATION FairSpec
INVARIANTS TypeOK WaitCovers FirstFailure DestroyDrains
PROPERTIES NoLostWakeUp ImplementsOrderedStream
