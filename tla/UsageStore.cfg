\* Three days, of which memory holds two and the window two; one query after the
\* other beside records and prune().
CONSTANTS
  LastDay = 3
  KeepDays = 1
  MaxLines = 2
  Queries = {q1}
  MaxFails = 1
SPECIFICATION UsageSpec
INVARIANTS
  NothingIsCountedTwice
  ExactUnlessTorn
PROPERTIES
  FlushReachesDisk
