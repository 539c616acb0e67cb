\* Two queries on the day of a restart.
CONSTANTS
  LastDay = 1
  KeepDays = 1
  MaxLines = 2
  Queries = {q1, q2}
  MaxFails = 0
SPECIFICATION UsageSpec
INVARIANTS
  QueryNotBehindRecord
