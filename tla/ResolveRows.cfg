CONSTANTS
    Layers <- OneLayer
    PAGE = 2
    PAGES = 2
    K = 4
    H = 3
    HotSlots <- Hot
    GpuPages = 3
    HostPages = 3
    Picks <- Selections
    Stacks <- SameStacks
    MaxGen = 1
    MaxClock = 2
SPECIFICATION Spec
CHECK_DEADLOCK FALSE
INVARIANTS RowsHold MatchesReference NothingDropped
