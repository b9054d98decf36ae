SPECIFICATION ContextSpec
CONSTANTS
  Threads = {t1, t2, t3}
INVARIANTS
  OneCurlSetup
  OneContextHeld
