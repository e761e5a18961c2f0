SPECIFICATION LtSpec
CONSTANTS
  Listing <- Namesake
  TreeInodes = {1, 2}
  Tagged = {1}
  TreeTimes = {1, 2}
  RecentLimit = 1
  MaxTreeChanges = 4
  MaxTreePasses = 3
CHECK_DEADLOCK FALSE
INVARIANTS
  EveryFileBrowsable
