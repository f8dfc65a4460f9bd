CONSTANTS
    Iters = 2
    MaxRuns = 2
    World = 4
SPECIFICATION ORSpec
INVARIANTS CommAfterCompute DrainedOnReturn OwnFailure AllReduced QueueBound
PROPERTIES RunEnds
CHECK_DEADLOCK FALSE
