SPECIFICATION Spec
CONSTANTS
    h1 = h1
    h2 = h2
    i1 = i1
    i2 = i2
    t1 = t1
    t2 = t2
    None = None
    Hosts = {h1, h2}
    Cluster = c
    Instances = {i1, i2}
    Threads = {t1}
    MaxHosts = 2
    Limits = {None, 1, 2}
    MaxCommands = 3
SYMMETRY Symmetric
INVARIANT
    PastUseKept
CHECK_DEADLOCK FALSE
