SPECIFICATION Spec
CONSTANTS
    prod = prod
    test = test
    box = box
    x = x
    y = y
    t1 = t1
    t2 = t2
    None = None
    Domains = {prod, test}
    Sandboxes = {box}
    Changes = {x, y}
    Threads = {t1, t2}
    Trunk = prod
    MaxCommands = 3
    MaxFaults = 1
SYMMETRY Symmetric
INVARIANTS
    PlacesAgree
    TrackersBehind
    ApprovalIsCurrent
PROPERTIES
    DeployedStays
    RollbackStands
    DeployBringsOwn
CHECK_DEADLOCK FALSE
