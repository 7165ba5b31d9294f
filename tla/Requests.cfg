SPECIFICATION SignedInSpec
CONSTANTS
  None = None
  Users = {u1, u2}
  Tasks = {k1, k2}
  Fields = {"role"}
  Values = {0}
  Strategy = "bounded"
  MaxConcurrent = 2
  SevenDays = 1
  MaxAge = 1
  Ids = {1, 2, 3}
  MaxNow = 1
  SingleUsers = {u1}
  People = {u1}
  Requests = {k1, k2}
  Cookies = {c1}
  RolesUsed = {"admin", "member"}
  Asked = {"admin.users.manage"}
  RenewThreshold = 1
  MaxClock = 2
  MaxChanges = 1
  Calls = {k1, k2}
  Roles = {admin, editor}
  Tokens = {t1, t2, t3}
  Lifetime = 2
  Threshold = 1
  MaxPage = 4
SYMMETRY Symmetry
INVARIANTS
  AllowedRightly
PROPERTIES
  KeepsContract
  PageInStep
