CONSTANTS
  p1 = p1
  p2 = p2
  NoFile = NoFile
  Plenary <- Plenaries
  Kind <- Kinds
  MaxTime = 6
SPECIFICATION Spec
INVARIANTS DiskMatchesOutcome FlushRepairs NextCompileServesDatabase ProfileComesBack
CHECK_DEADLOCK FALSE
