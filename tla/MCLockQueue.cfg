CONSTANTS
  k1 = k1
  k2 = k2
  k3 = k3
  NoName = NoName
  Key <- Keys
  Name <- Names
  Shape <- Shapes
SPECIFICATION Spec
INVARIANTS MutualExclusion NoLostWakeup NotQueuedTwice GrantedInOrder
PROPERTIES EveryRequestGranted ImplementsFairKeyedLock
