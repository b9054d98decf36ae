SPECIFICATION Spec
CONSTANTS
  NLayers = 2
  NUploads = 3
  Tags = {"latest", "1.0"}
  TagOf <- FirstTagAgain
INVARIANTS
  UploadInv
PROPERTIES
  ResultTellsPublication
