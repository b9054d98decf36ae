SPECIFICATION Spec
CONSTANTS
  m1 = m1
  m2 = m2
  NoMirror = NoMirror
  Mirrors = {m1, m2}
  MirrorListOf <- BothMirrors
  NTargets = 2
  MaxDownloadsPerMirror = 2
  MaxParallel = 2
  AllowedMirrorFailures = 3
  AdaptiveSorting = TRUE
  Offline = FALSE
  FileUrlMirrors = {}
  PrepSteps <- NoPreparation
  Messages <- AllMessages
  CbReturnCodes = {"OK", "ERROR"}
  Faults = {"add_handle", "open_file"}
  UninitFinished = {}
  MayStick = {1}
  Checks = {"checksum", "size"}
  InitialTemp = {"absent"}
  InitialDest = {"absent", "good"}
  MaxIgnoredAnswers = 0
INVARIANTS
  EndCallbackMatchesState
  FilesMatchState
PROPERTIES
  FinalTargetsStable
  FreshMirrorsFirst
  DestinationSafe
