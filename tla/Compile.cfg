CONSTANTS
    Tasks <- FourTasks
    Workers <- TwoWorkers
    Graphs <- AllGraphs
    Programs <- SomePrograms
    Position <- Ragged
    N = 4
    ALIGN = 2
    Sizes = {1, 3}
    MaxPhase = 3
SPECIFICATION CompileSpec
INVARIANTS NoLiveOverlap LowestOffset ReuseSafe CycleVerdict ClaimsSound SerialReads
PROPERTIES Progress
CHECK_DEADLOCK FALSE
