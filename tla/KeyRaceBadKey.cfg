CONSTANTS
  Reqs = {r1}
  KeyCount = 2
  NoOne = NoOne
  Racers = {r1}
SPECIFICATION KeysSpec
INVARIANTS
  OneBadKeyIsNotTheChannel
