\* Four calls: one can hold, two wait and one arrive late, so that a handoff,
\* a timeout in the middle of the queue and a pump of several waiters happen.
CONSTANTS
  Reqs = {r1, r2, r3, r4}
  MaxLimit = 3
SPECIFICATION FairSpec
INVARIANTS
  QueueIsTheWaiters
  ActiveIsTheHolders
  NoStrandedWaiter
PROPERTIES
  FirstComeFirstServed
  EveryWaiterIsSettled
  RefinesPermitPool
