CONSTANTS
  Reqs = {r1, r2, r3}
  MaxObjects = 2
  FailThreshold = 2
  Cooldown = 1
  MaxCooldown = 2
  HalfOpenMs = 1
  BalanceCooldown = 3
  AuthCooldown = 2
  ProbeCooldownMax = 1
  FailDedup = 1
  HalfOpenMaxInFlight = 1
  ChannelLimited = TRUE
  ForceStream = FALSE
  HasModel = TRUE
SPECIFICATION Spec
SYMMETRY Symmetry
INVARIANTS
  TrialsAreCounted
  CooldownLeadsToHalfOpen
PROPERTIES
  NoShortcutBack
