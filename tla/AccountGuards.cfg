CONSTANTS
  u1 = u1  u2 = u2  r1 = r1  r2 = r2  r3 = r3  r4 = r4
  Nobody = Nobody
  Users = {u1, u2}
  Forgetful = u1
  Requests = {r1, r2, r3, r4}
  MaxAttempts = 2  MaxCodes = 2
SPECIFICATION Spec
CHECK_DEADLOCK FALSE
INVARIANTS AnAdminRemains TriesBounded CodeSpentOnceAnswered
SYMMETRY Symmetry
