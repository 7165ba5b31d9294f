SPECIFICATION FaultsSpec
CONSTANTS
  u1 = u1
  u2 = u2
  s1 = s1
  s2 = s2
  p1 = p1
  p2 = p2
  h1 = h1
  Users = {u1}
  Sessions = {s1}
  Proofs = {p1, p2}
  Handles = {h1}
  Nobody = Nobody
  NoProof = NoProof
  Owner <- MCOwner
  Authorization <- MCAuthorization
  TTL = 1
  ProofTTL = 3
  MaxUses = 1
  MaxAttempts = 2
  MaxNow = 1
  MaxCred = 1
  MaxFaults = 0
  MaxCrashes = 0
  Nested = FALSE
INVARIANTS
  CompletionRightful
  AnswersDurable
  AccountsReady
  JournalParses
PROPERTIES
  NothingComesBack
  CredentialCurrent
