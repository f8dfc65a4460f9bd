CONSTANTS
    Requests <- TwoRequests
    POOL = 2
    RING = 4
    NextN = 4
    TopK = 4
    PageSize = 2
    BLOCK_N = 4
    Programs = 8
    MaxPrompt = 3
    MaxLen = 7
    MaxEpoch = 1
SPECIFICATION Spec
CHECK_DEADLOCK FALSE
INVARIANTS PoolsExact VisibleAgrees TablesFresh
