SPECIFICATION GenaSpec
CONSTANTS
  Sids = {s1, s2}
  Containers = {a, b}
  Workers = {w1, w2}
  capacity = 1
  MAX_SUBSCRIBERS = 2
  MAX_CONSECUTIVE_FAILURES = 2
  MAX_PENDING_CONTAINER_IDS = 1
  MAX_PENDING_CONTAINER_BYTES = 10
  IdLen <- UnitLen
  SeqModulus = 2
  Attempts = 1
  MaxUpdates = 2
SYMMETRY Symmetry
INVARIANTS
  SubscribersInformed
PROPERTIES
  InOrder
