SPECIFICATION MCSpec
CONSTANTS
  RootNames = {n, t}
  SubNames = {w}
  Unfinished = {t}
  Inodes = {i1, i2}
  None = None
  MaxOps = 3
  MaxFail = 1
  QueueLimit = 3
  ReconcileAfter = 3
  MaxPendingPaths = 2
  rMovies = rMovies
  rKids = rKids
  fa = fa
  fb = fb
  fs = fs
  Roots = {rMovies, rKids}
  Files = {fa, fb}
  Shortcut = fs
  Target = fa
  LsInodes = {j1, j2}
  Nil = Nil
  RootOf <- MCRootOf
  MaxChanges = 2
  MaxFaults = 1
  OrResumers = {"r"}
  OrSeekers = {"s"}
  OrSizes = {0, 2, 3}
  RAM_CAP = 1
  OrReaders = 1
  OrChanges = 2
  OrRequests = 2
SYMMETRY Symmetry
CHECK_DEADLOCK FALSE
INVARIANTS
  WatcherKeepsUp
  RowsTruthful
  OriginalsWhole
PROPERTIES
  PassesSound
