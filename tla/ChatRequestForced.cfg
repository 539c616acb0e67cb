\* One channel and one attempt: a stream aggregated for a client that wants JSON.
CONSTANTS
  Channels = {c1}
  Nobody = Nobody
  HeadMax = 2
  Attempts = 1
  MaxPauses = 0
SPECIFICATION Spec
INVARIANTS
  PiecedIsWhole
