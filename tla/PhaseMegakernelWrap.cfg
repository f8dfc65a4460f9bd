CONSTANTS
    P = 2
    NB = 1
    TaskCount <- MCTaskCount2
    Reads <- MCReads2
    Offset <- MCOffset2
    WsTotal = 3
    MaxResident = 2
    MaxLaunches = 4
    Vendor = "cdna"
    Half = 4
SPECIFICATION Spec
INVARIANT PhaseOrder
CHECK_DEADLOCK FALSE
