SPECIFICATION Spec
CONSTANTS
  k1 = k1
  k2 = k2
  None = None
  Key = {k1}
  Kind <- SeekKey
  Reader = {r1}
  Session = {s1}
  MaxGen = 1
  MaxJobs = 2
  MaxActive = 1
  MaxFallback = 0
  KeepModes = {TRUE, FALSE}
  Forgettable = {}
  r1 = r1
  s1 = s1
INVARIANTS
  ExpiryArmed
