\* Three files of one line each: both a move between archives and the one of
\* the current file happen.  Two flushes can meet, two objects can share the
\* files, and the process can die once at any point.
CONSTANTS
  MaxLine = 5
  MaxLogs = 2
  MaxRestarts = 1
  Flushes = {f1, f2}
  MaxFileBytes = 1
  KeepFiles = 3
  Absent = Absent
SPECIFICATION Spec
INVARIANTS
  EveryLineIsInOnePlace
  PendingIsScheduled
PROPERTIES
  AloneRotationDropsOldest
