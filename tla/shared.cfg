SPECIFICATION Spec
CONSTANTS
  NTargets = 2
  Suffixes = 1
  Requests <- MCRequests
  OutFiles = {"", "o"}
  OutDirs = {"", "d"}
  NoName = ""
  Files = 2
  Blocks = 2
  MaxRetries = 1
INVARIANTS
  DiskInv
  AloneIsWhole
PROPERTIES
  ReportedIsThere
