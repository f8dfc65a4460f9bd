CONSTANTS
    B = 2
    SCAP = 3
    PoolSlots = 7
    Offered <- All
SPECIFICATION Spec
INVARIANT PaddingUnread
