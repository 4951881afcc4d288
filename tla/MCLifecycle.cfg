SPECIFICATION Spec
CONSTANTS
    h1 = h1
    h2 = h2
    c1 = c1
    c2 = c2
    v1 = v1
    NoCluster = NoCluster
    Hosts = {h1, h2}
    Clusters = {c1, c2}
    VMs = {v1}
    HostRequests <- MCHostRequests
    NewHostStatus = {"build", "ready"}
    DelHostStatus <- MCDelHostStatus
    MaxHosts = 2
    DownHosts = 0
    AllowCascadedDeco = TRUE
SYMMETRY Symmetric
INVARIANT Barrier
INVARIANT Capacity
INVARIANT NodeIndexUnique
PROPERTY LegalHostSteps
PROPERTY ReadyKeepsAdvertised
