SPECIFICATION MCSpec
CONSTANTS
  u1 = u1
  Users = {u1, u2}
  Clients = {c1, c2}
  Nobody = Nobody
  Roles = {0}
  Strategy = "bounded"
  MaxConcurrent = 2
  SessionMaxAge = 1
  MaxAge = 1
  ActivityThreshold = 1
  ActivityExtension = 1
  MinRenewalInterval = 1
  Calls = {"createSession", "removeUserSessions", "cleanupExpiredSessions"}
  Ids = {1, 2, 3}
  MaxNow = 2
  MaxFaults = 1
PROPERTIES
  KeepsContract
  EvictionPolicy
