CONSTANTS
    P = 3
    NB = 3
    TaskCount <- MCTaskCount
    Reads <- MCReads
    Offset <- MCOffset
    WsTotal = 8
    MaxResident = 3
    MaxLaunches = 2
    Vendor = "sm"
    Half = 64
SPECIFICATION FairSpec
INVARIANTS TypeOK PhaseOrder FreshReads BaseAgreed LaunchSound
PROPERTIES LaunchesRetire BarrierRefinement
CHECK_DEADLOCK FALSE
