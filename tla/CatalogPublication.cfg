SPECIFICATION PubSpec
CONSTANTS
  Items = {i1, i2}
  Version = {1}
  Mark = {0, 7}
  Scanners = {t1, t2}
  Clients = {c1}
  Readers = {}
  Budget <- PublicationBudget
  None = None
  WlContents <- WebContents
  WlFolder = 2
  WlSaved <- SavedTitles
  WlViews = {"library", "folders", "continue"}
  WlSlots = {s1, s2}
  WlLimit = 1
  WlBatch = 1
  WlModulus = 2
  MaxPublications = 2
  MaxLoads = 2
  MaxWlFaults = 1
  WlNone = WlNone
SYMMETRY PubSymmetry
CHECK_DEADLOCK FALSE
INVARIANTS
  PublicationSafe
  WebListsWhole
PROPERTIES
  ChangesSeenMarksKept
