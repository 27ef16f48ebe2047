CONSTANTS
  r1 = r1  r2 = r2  s1 = s1  e1 = e1
  NoExt = NoExt  Nobody = Nobody
  Requests = {r1, r2}
  Sessions = {s1}
  ExtIds = {e1}
  Files <- SomeFiles
  Listed = 2
  MaxLapses = 1  MaxDeaths = 1
SPECIFICATION Spec
CHECK_DEADLOCK FALSE
INVARIANTS OrdersDistinct ImportsUpsert OwnLockKept NeededTargetsKept ErrorsOfLastImport
           LocksEndWithTransactions
SYMMETRY Symmetry
