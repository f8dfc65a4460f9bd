CONSTANTS
    P = 3
    ROUNDS = 3
    Invocations = 2
    B = 2
    SCAP = 3
    PoolSlots = 7
    Offered <- Fitting
SPECIFICATION SessionSpec
INVARIANTS ReadWindow PaddingUnread NoAlias
PROPERTIES VerdictReached
CHECK_DEADLOCK FALSE
