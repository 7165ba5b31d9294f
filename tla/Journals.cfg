SPECIFICATION JournalsSpec
CONSTANTS
  alice = alice
  bob = bob
  s1 = s1
  s2 = s2
  r1 = r1
  r2 = r2
  r3 = r3
  Nobody = Nobody
  Users = {alice}
  Sessions = {s1}
  Owner <- MCOwner
  Receipts = {r1, r2, r3}
  Actor <- MCActor
  MaxRecords = 2
  Uncertain = TRUE
  MaxGens = 3
  MaxStep = 0
  MaxCred = 1
  MaxNow = 1
  MaxFaults = 1
  MaxCrashes = 1
INVARIANTS
  JournalReadable
  RetirementFinal
  NeverHalfRetired
PROPERTIES
  DeletionAuthorised
