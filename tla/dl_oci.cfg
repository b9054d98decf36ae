SPECIFICATION Spec
CONSTANTS
  m1 = m1
  m2 = m2
  NoMirror = NoMirror
  Mirrors = {m1, m2}
  MirrorListOf <- SharedMirrors
  NTargets = 3
  MaxDownloadsPerMirror = 2
  MaxParallel = 2
  AllowedMirrorFailures = 2
  AdaptiveSorting = TRUE
  Offline = FALSE
  FileUrlMirrors = {}
  PrepSteps <- FirstMirrorPrepared
  Messages <- AllMessages
  CbReturnCodes = {"OK", "ERROR"}
  Faults = {"bad_json", "add_handle", "open_file"}
  UninitFinished = {}
  MayStick = {}
  Checks = {"size"}
  InitialTemp = {"absent"}
  InitialDest = {"absent"}
  MaxIgnoredAnswers = 1
INVARIANTS
  TypeOK
  MessagesMatchRunning
  ParallelLimit
  NeverOverstated
PROPERTIES
  ImplementsService
