SPECIFICATION MCSpec
CONSTANTS
    Titles <- MCTitles
    Requests <- MCRequests
    Encoders = {"h264_nvenc", "libx264"}
    MaxAsks = 2
    Envs <- MCEnvs
    Probes <- MCProbes
    Starts = {2}
    Dur = 3
    MaxRetries = 1
    MaxBusy = 1
    MaxReloads = 1
    MaxActs = 2
    q1 = q1
    q2 = q2
    ImgRequests = {q1, q2}
    ImgKeys = {"x", "y", "z"}
    ImgStripe <- MCStripe
    ImgSize = 2
    ImgQuota = 3
    ImgSpace = 5
    ImgMinFree = 2
    ImgMaxAge = 1
    ImgClock = 2
    ImgFound <- MCFound
CONSTRAINT Again
CHECK_DEADLOCK FALSE
INVARIANTS
  PlansSound
  PlayerDriven
PROPERTIES
  ViewerKept
  RecoveryEnds
  PicturesSound
