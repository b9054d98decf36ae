SPECIFICATION Spec
CONSTANTS
  Blocks = 3
  MaxResumeCount = 3
  AllowedMirrorFailures = 3
  MaxRestarts = 2
INVARIANTS
  ResumeInv
  OnlyRetriedResumesGoWrong
