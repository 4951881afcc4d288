CONSTANTS
    w1 = w1
    w2 = w2
    r1 = r1
    Nobody = Nobody
    Watchers <- TwoWatchers
    Requests <- OneRequest
    MaxDebug = 1
    MaxRecords = 3
SPECIFICATION FairSpec
INVARIANTS DeliveredExactly NewestDebugKept
PROPERTY PendingReturns
CHECK_DEADLOCK FALSE
