SPECIFICATION StoresSpec
CONSTANTS
  a1 = a1
  a2 = a2
  a3 = a3
  a4 = a4
  t1 = t1
  t2 = t2
  k1 = k1
  k2 = k2
  h1 = h1
  h2 = h2
  i1 = i1
  i2 = i2
  None = None
  Apps = {a1, a2, a3, a4}
  Uuids = {t1, t2}
  Settings <- Configured
  Keys = {"k"}
  Values = {1, 2}
  Tasks = {k1, k2}
  Spellings <- Spelt
  MaxUsers = 3
  MaxRacing = 2
  Tokens = {i1, i2}
  RolesUsed = {"super_admin", "admin", "member"}
  Lifetime = 1
  MaxNow = 2
  MaxExpiry = 3
  Handles = {h1, h2}
  GitHubIds = {7}
  LookupKeys = {h1, 1}
  AccountIds = {1, 2}
  RacingIds = {1}
  MaxFaults = 1
SYMMETRY Symmetry
CHECK_DEADLOCK FALSE
INVARIANTS
  TenantsApart
  
  InvitedRankBelow
  OneOwner
  CacheForgetsReplaced
PROPERTIES
  InvitationSpent
