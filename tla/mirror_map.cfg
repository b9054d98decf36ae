SPECIFICATION Spec
CONSTANTS
  server = server
  fileHost = fileHost
  http = http
  https = https
  FileBase = FileBase
  NoBase = NoBase
  Hosts = {server, fileHost}
  Bases <- AllBases
  HostOf <- HostOfAll
  Kinds = {"http", "oci"}
  Slashes = {FALSE}
  Repos = {"prefix"}
  MaxObjects = 2
  MaxTargets = 2
  MaxEpochs = 1
INVARIANTS
  MapInv
  UrlIsServed
  TargetsShareMirrors
CHECK_DEADLOCK FALSE
