SPECIFICATION FairSessionSpec
CONSTANTS
  m1 = m1
  m2 = m2
  NoMirror = NoMirror
  Mirrors = {m1, m2}
  MirrorListOf <- SharedMirrors
  NTargets = 2
  MaxDownloadsPerMirror = 2
  MaxParallel = 2
  AllowedMirrorFailures = 2
  AdaptiveSorting = TRUE
  Offline = FALSE
  FileUrlMirrors = {}
  PrepSteps <- NoPreparation
  Messages <- FatalMessages
  CbReturnCodes = {"OK"}
  Faults = {"open_file"}
  UninitFinished = {}
  MayStick = {}
  Checks = {"checksum"}
  InitialTemp = {"absent"}
  InitialDest = {"absent"}
  MaxIgnoredAnswers = 0
  NDownloads = 2
INVARIANTS
  LeakedByInterrupted
PROPERTIES
  EveryDownloadStops
  EveryTargetSettles
