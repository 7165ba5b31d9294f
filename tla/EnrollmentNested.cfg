SPECIFICATION Spec
CONSTANTS
  u1 = u1
  s1 = s1
  p1 = p1
  p2 = p2
  Users = {u1}
  Sessions = {s1}
  Proofs = {p1, p2}
  Handles = {h1}
  Nobody = Nobody
  NoProof = NoProof
  Owner <- MCOwner
  Authorization <- MCAuthorization
  TTL = 1
  ProofTTL = 2
  MaxUses = 2
  MaxAttempts = 2
  MaxNow = 1
  MaxCred = 0
  MaxFaults = 1
  MaxCrashes = 1
  Nested = TRUE
INVARIANTS
  DisclosedIsDurable
