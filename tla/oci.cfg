SPECIFICATION FairSpec
CONSTANTS
  Targets = {1, 2, 3}
  Repos = {"xtensor", "numpy"}
  Tags = {"1.0", "2.0"}
  Repo <- TwoAndOne
  Tag <- TwoTags
  AllowedMirrorFailures = 1
INVARIANTS
  OciInv
  BlobIsOwnIfAlone
PROPERTIES
  PreparedForGood
  TargetsSettle
