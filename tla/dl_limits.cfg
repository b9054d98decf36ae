SPECIFICATION Spec
CONSTANTS
  m1 = m1
  m2 = m2
  NoMirror = NoMirror
  Mirrors = {m1, m2}
  MirrorListOf <- SharedMirrors
  NTargets = 3
  MaxDownloadsPerMirror = 3
  MaxParallel = 3
  AllowedMirrorFailures = 2
  AdaptiveSorting = TRUE
  Offline = FALSE
  FileUrlMirrors = {}
  PrepSteps <- NoPreparation
  Messages <- FewMessages
  CbReturnCodes = {"OK"}
  Faults = {}
  UninitFinished = {1}
  MayStick = {}
  Checks = {"checksum"}
  InitialTemp = {"absent"}
  InitialDest = {"absent"}
  MaxIgnoredAnswers = 0
INVARIANTS
  RunningTransfersCounted
  ConnectionLimit
  FailuresIsolated
PROPERTIES
  LimitOnlyLowered
