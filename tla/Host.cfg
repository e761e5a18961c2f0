SPECIFICATION MCSpec
CONSTANTS
  Threads = {t1, t2, t3}
  max_active = 2
  queue_capacity = 2
  MaxGroup = 3
  MaxCalls = 4
  Item = {i1, i2}
  Caller = {c1, c2}
  Worker = {w1, w2}
  Sids = {s1}
  Containers = {a}
  Workers = {n1, n2}
  capacity = 1
  MAX_SUBSCRIBERS = 1
  MAX_CONSECUTIVE_FAILURES = 1
  MAX_PENDING_CONTAINER_IDS = 1
  MAX_PENDING_CONTAINER_BYTES = 10
  IdLen <- UnitLen
  SeqModulus = 3
  Attempts = 1
  MaxUpdates = 2
  HcConns = {"a", "b"}
  HcScripts <- MCScripts
  max_connections = 1
  HcRequestLimit = 2
  HcMaxErrors = 1
  HpLimits = {2}
  HpRetentions = {"Head", "Tail"}
  HpChunk = 2
  HpPipe = 2
  HpStopReads = 1
  HpBytes = 3
CHECK_DEADLOCK FALSE
INVARIANTS
  SlotsAccounted
  ExpiryWatched
  ResponsesInOrder
  ConnectionsCounted
  HelpersKept
PROPERTIES
  NoBypass
  ImplementsAdmission
  SchedulersProgress
