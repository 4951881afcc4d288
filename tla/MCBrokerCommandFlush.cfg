CONSTANTS
    c1 = c1
    c2 = c2
    f1 = f1
    s1 = s1
    Changes <- OneChange
    Flushes <- OneFlush
    Shows <- None
    ThreadPoolSize = 2
    PoolSize = 2
SPECIFICATION Spec
INVARIANT FlushRefreshes
CHECK_DEADLOCK FALSE
