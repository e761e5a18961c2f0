SPECIFICATION Spec
CONSTANTS
  k1 = k1
  k2 = k2
  None = None
  Key = {k1, k2}
  Kind <- SeekAndProfile8
  Reader = {r1, r2}
  Session = {s1}
  MaxGen = 1
  MaxJobs = 2
  MaxActive = 2
  MaxFallback = 1
  KeepModes = {FALSE}
  Forgettable = {}
  r1 = r1
  r2 = r2
  s1 = s1
SYMMETRY ReaderSymmetry
INVARIANTS
  OutputsHeld
