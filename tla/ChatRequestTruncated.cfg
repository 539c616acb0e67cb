CONSTANTS
  Channels = {c1}
  Nobody = Nobody
  HeadMax = 2
  Attempts = 1
  MaxPauses = 0
SPECIFICATION Spec
PROPERTIES
  TruncatedHeadIsNotCommitted
