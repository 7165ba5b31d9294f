SPECIFICATION FactorsSpec
CONSTANTS
  None = None
  Codes = {c1, c2}
  SetSize = 3
  Threshold = 1
  Window = 1
  MaxStep = 3
  MaxSets = 2
  Tasks = {k1, k2}
  States = {s1, s2}
  Handles = {h1, h2}
  Serialized = TRUE
  MaxAge = 1
  MaxNow = 3
  MaxFaults = 2
  TTL = 1
  MaxAttempts = 2
  MaxWall = 2
  MaxIoFaults = 1
  MaxCrashes = 2
SYMMETRY Symmetry
CHECK_DEADLOCK FALSE
INVARIANTS
  FirstAdministrator
  OneFirstAccount
  RecoveryOwnsStores
  ToldIsDurable
  CodesSpent
