SPECIFICATION MCSpec
CONSTANTS
  t1 = t1
  Items = {i1}
  Version = {1, 2}
  Mark = {0, 7}
  Scanners = {t1, t2}
  Clients = {c1, c2}
  Readers = {r1}
  Budget <- AnswerBudget
  None = None
  p1 = p1
  p2 = p2
  CdRenderers = {p1, p2}
  CdShelves <- TwoShelves
  CdRecents <- TwoRecents
  RecentId = 2
  CdAsks <- RendererAsks
  Alias <- ShortIds
  MaxActive = 1
  MaxAttempts = 2
  PageObjects = 3
  Room = 2
  MaxCalls <- RendererCalls
  Clauses = {"p", "q"}
  LiteralBytes <- OneByte
  ScMax <- ScBounds
  Inputs <- CriteriaTexts
  Texts <- FreeTexts
  ClassNames <- ClassTexts
  Headers = {"none", "browse", "search"}
  Bodies <- SoapBodies
  Players = {"p", "m"}
  InMillis = {"m"}
  Seconds = {10, 45, 90}
  MaxUpdates = 2
  SdWidth = 5
  SdSetups <- Hosts
  SdSearchers = {18, 10, 31}
  SdPackets <- Searches
  WINDOW = 2
  MAX_DATAGRAMS = 7
  ReplyWorkers = 2
  SdPeers = {18, 10}
  SdMacs = {"m1", "m2"}
  SdProfiles = {"samsungA", "samsungB", "generic"}
  CLIENT_CACHE_SLOTS = 1
  CLIENT_CACHE_TTL = 1
  KEY_TTL = 3
  SENDER_WINDOW = 2
  MAX_PER_SENDER = 1
  RendererWorkers = 1
  SdTicks = 3
INVARIANTS
  AskedAndAnswered
  SearchesAnswered
PROPERTIES
  HonestAnswers
  LocksReleased
  ClientsKnown
CHECK_DEADLOCK FALSE
