SPECIFICATION SessionsSpec
CONSTANTS
    h1 = h1
    h2 = h2
    c1 = c1
    t1 = t1
    t2 = t2
    NoCluster = NoCluster
    Idle = Idle
    Keep = Keep
    Hosts = {h1, h2}
    Clusters = {c1}
    VMs = {}
    Threads = {t1, t2}
    HostRequests <- MCHostRequests
    NewHostStatus = {"build"}
    DelHostStatus <- MCDelHostStatus
    MaxHosts = 2
    DownHosts = 0
    AllowCascadedDeco = TRUE
SYMMETRY Symmetric
PROPERTY SerialUnlessStale
PROPERTY NoMembershipOverwritten
