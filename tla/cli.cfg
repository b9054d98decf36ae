SPECIFICATION Spec
CONSTANTS
  a = a
  b = b
  c = c
  Files = {a, b, c}
  Lists <- ThreeNames
  PlaceOf <- TwoPlaces
  MaxActive = 2
INVARIANTS
  CommandInv
  OciUploadTold
  DownloadSettled
