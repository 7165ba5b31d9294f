SPECIFICATION Spec
CONSTANTS
  b1 = b1
  b2 = b2
  b3 = b3
  i1 = i1
  i2 = i2
  Bindings = {b1, b2}
  Identities = {i1, i2}
  IdentityOf <- MCIdentityOf
  TTL = 1
  MaxRecords = 1
  MaxFailures = 2
  MaxChallenges = 2
  MaxNow = 2
  MaxFaults = 1
  MaxCrashes = 1
INVARIANTS
  FailureBudget
  CapacityBound
  ReceiptDurable
PROPERTIES
  KeepsContract
