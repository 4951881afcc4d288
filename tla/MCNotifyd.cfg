SPECIFICATION NotifydFairSpec
CONSTANTS
    o1 = o1
    Objects = {o1}
    MaxTime = 3
    MaxFaults = 1
    MaxHeld = 2
INVARIANTS
    NothingMissed
PROPERTIES
    CleanupKeepsNewest
    CatchUp
    StopsWhenAsked
