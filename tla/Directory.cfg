SPECIFICATION MCSpec
CONSTANTS
  Nil = Nil
  fa = fa
  fb = fb
  fc = fc
  d1 = d1
  d2 = d2
  p1 = p1
  p2 = p2
  Videos = {fa, fb, fc}
  Folder <- MCFolder
  Physical <- MCPhysical
  Rank <- MCRank
  Texts = {"x"}
  MaxEdits = 3
  PlPaths = {1, 2, 3}
  PlRoot <- MCPlRoot
  PlInodes = {11, 12}
  Tracks = {"s", "v"}
  PlEntries <- MCPlEntries
  KindOf <- MCKindOf
  MaxPlEdits = 4
  Listing <- Spread
  TreeInodes = {1, 2}
  Tagged = {1}
  TreeTimes = {1, 2}
  RecentLimit = 1
  MaxTreeChanges = 4
  MaxTreePasses = 3
  o1 = o1
  o2 = o2
  j1 = j1
  j2 = j2
  TcDests = {o1, o2}
  TcJobs = {j1, j2}
  TcSize = 2
  cache_max = 2
  TcSpace = 5
  cache_min_free = 2
  cache_max_age = 1
  TcClock = 2
  MAX_PENDING = 1
  MAX_RETIRED = 2
  TcPolls = 1
  TcErrors = 1
CHECK_DEADLOCK FALSE
INVARIANTS
  EventsSuffice
  TreeSound
  CacheKept
PROPERTIES
  PassesApply
  CacheServes
