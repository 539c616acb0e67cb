CONSTANTS
  Channels = {c1}
  Nobody = Nobody
  HeadMax = 2
  Attempts = 2
  MaxPauses = 1
SPECIFICATION Spec
INVARIANTS
  DeadlineIsSignalled
