SPECIFICATION MCSpec
CONSTANTS
  k1 = k1
  k2 = k2
  None = None
  Key = {k1, k2}
  Kind <- SeekAndCache
  Reader = {r1, r2}
  Session = {s1, s2}
  MaxGen = 2
  MaxJobs = 2
  MaxActive = 1
  MaxFallback = 0
  KeepModes = {TRUE, FALSE}
  Forgettable = {s2}
  r1 = r1
  r2 = r2
  s1 = s1
  s2 = s2
SYMMETRY SceneSymmetry
INVARIANTS
  SessionsAgree
