\* Three calls, of one agent or of none, through one channel, and one reload
\* of any of the limits at any moment.  Two channels that are equally limited
\* only add calls that never meet.  Queue timers may go off, but nothing makes
\* them: what is promised without fairness of Timeout holds without timers.
CONSTANTS
  Reqs = {r1, r2, r3}
  Agents = {a1}
  Channels = {c1}
  MaxIds = 6
  GlobalLimits = {0, 1, 2}
  ChannelLimits = {0, 1}
  AgentLimits = {0, 1}
  MaxReloads = 1
  QueueTimeouts = {1}
  Budgets = {9}
  Infinity = 9
SPECIFICATION FairSpec
INVARIANTS
  NoSlotLeaks
  BacklogHoldsNothingShared
  OneQuotaPerAgent
PROPERTIES
  ReloadKeepsCount
  EveryCallIsSettled
