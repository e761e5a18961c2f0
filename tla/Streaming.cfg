SPECIFICATION MCSpec
CONSTANTS
    Movies <- MCMovies
    Gens = {"g1", "g2"}
    MsePlayers = {"m1"}
    PageMax = 2
    ResourceMax = 3
    MaxGenerations = 1
    MaxTampers = 1
    MaxJobs = 2
    Readers = {"r1"}
    Downloader = "d"
    Wanted <- MCWanted
    Total = 2
    Batch = 1
    MaxInodes = 2
    MaxActive = 1
    MaxAsks = 2
    MaxCuts = 1
    Sources <- MCSources
    Plans <- MCPlans
    Losses = {0, 50000, 250000}
    Defects = {"none", "gap", "late_start", "no_entry", "lost_track", "wrong_codec", "bad_config", "no_media", "regressed"}
    MaxChanges = 1
    Films <- MCFilms
    Ahead = 3
    Behind = 2
    BehindLeast = 1
    BufferMax = 6
    Quotas = {5, 9}
    Margin = 2
    MaxTries = 1
    MaxSeeks = 1
    MaxPauses = 1
CHECK_DEADLOCK FALSE
INVARIANTS
  IndexSound
  AnswersWhole
  OutputsChecked
  PumpSafe
PROPERTIES
  PlaylistsSound
  StreamsEnd
