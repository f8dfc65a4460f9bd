CONSTANTS
    Workload <- Traffic
    Seeders <- First
    Buckets = {"decode", "prefill"}
    Winners = {"w1"}
    Identity <- OneBuild
    Store <- Leftover
    OffProcs <- OneOff
    Capturers <- First
    ReadsFail = TRUE
    MaxSeeds = 1
    MaxCrashes = 1
SPECIFICATION FairSpec
INVARIANTS Frozen OwnSource
PROPERTIES RecordsSurvive CallsReturn
