SPECIFICATION Spec
CONSTANTS
  Users = {u1}
  Clients = {c1, c2}
  Nobody = Nobody
  Roles = {0}
  Strategy = "single"
  MaxConcurrent = 2
  SessionMaxAge = 1
  MaxAge = 1
  ActivityThreshold = 1
  ActivityExtension = 1
  MinRenewalInterval = 1
  Calls = {"createSession", "removeSession"}
  Ids = {1, 2}
  MaxNow = 1
  MaxFaults = 0
INVARIANTS
  SingleSession
