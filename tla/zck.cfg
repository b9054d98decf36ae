SPECIFICATION FairSpec
CONSTANTS
  NChunks = 3
  m1 = m1
  m2 = m2
  Mirrors = {m1, m2}
  Serves <- OneAndNone
  MaxRanges = 2
  AllowedMirrorFailures = 2
  OldChunks = {2}
  InitialDests = {"absent", "garbage", "cut", "old", "damaged", "whole"}
INVARIANTS
  ZckInv
  BodyRequestExact
  CrashNeedsNoRanges
PROPERTIES
  DownloadSettles
