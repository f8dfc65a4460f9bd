CONSTANTS
    Workload <- Decode
    Seeders <- Second
    Buckets = {"decode"}
    Winners = {"w1"}
    Identity <- OneBuild
    Store <- Empty
    OffProcs <- Nobody
    Capturers <- First
    ReadsFail = FALSE
    MaxSeeds = 1
    MaxCrashes = 0
SPECIFICATION Spec
PROPERTY NeverDowngraded
