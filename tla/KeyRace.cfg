\* Two requests over three keys: either scan can overtake the other inside a
\* lap, the ring may be entered at any key, and a race has a winner, a loser
\* and one that is late.
CONSTANTS
  Reqs = {r1, r2}
  KeyCount = 3
  NoOne = NoOne
  Racers = {r1}
SPECIFICATION FairKeysSpec
INVARIANTS
  UndisturbedLapIsFull
  RaceKeepsTheBest
PROPERTIES
  KeysAreLeft
