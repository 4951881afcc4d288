CONSTANTS
    c1 = c1
    c2 = c2
    f1 = f1
    s1 = s1
    Changes <- TwoChanges
    Flushes <- OneFlush
    Shows <- OneShow
    ThreadPoolSize = 3
    PoolSize = 2
SPECIFICATION Spec
INVARIANTS AuditComplete OutsideIsTold SerialAgreement
PROPERTY LockFreeReturns
CHECK_DEADLOCK FALSE
