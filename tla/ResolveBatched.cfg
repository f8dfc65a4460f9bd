CONSTANTS
    Layers <- TwoLayers
    PAGE = 2
    PAGES = 2
    K = 2
    H = 3
    HotSlots <- Hot
    GpuPages = 3
    HostPages = 3
    Picks <- Selections
    Stacks <- AnyStacks
    MaxGen = 1
    MaxClock = 2
SPECIFICATION Spec
CHECK_DEADLOCK FALSE
INVARIANT BatchedPerState
