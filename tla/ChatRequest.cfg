\* Two channels and two attempts each: a retry, a switch, an injected channel,
\* a second round, and a head buffer that fills with two items.
CONSTANTS
  Channels = {c1, c2}
  Nobody = Nobody
  HeadMax = 2
  Attempts = 2
  MaxPauses = 2
SPECIFICATION FairSpec
INVARIANTS
  SuccessIsComplete
  EveryExitSettles
PROPERTIES
  RefinesAnswerContract
  SwitchesOnlyBeforeFirstByte
  DeadStaysDead
  EveryRequestEnds
