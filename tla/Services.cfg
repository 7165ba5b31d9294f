SPECIFICATION MCSpec
CONSTANTS
  None = None
  Calls = {r1, r2, r3, r4}
  Gate = Gate
  Reentrant = TRUE
  Loggers = {t1, t2}
  MaxBufferSize = 2
  MaxStored = 2
  MaxEvents = 4
  MaxFaults = 2
  MaxFileFaults = 1
  QueryEvents = 3
  DefaultLimit = 2
  MaxTime = 1
  MaxLogged = 4
  People = {1, 2}
  Places = 2
  Grants = {"content.own.publish", "admin.users.manage"}
CHECK_DEADLOCK FALSE
INVARIANTS
  Exclusive
  EventsKept
  QueriesExact
  
PROPERTIES
  NothingWaitsForEver
