CONSTANTS
  j1 = j1  j2 = j2  j3 = j3
  h1 = h1  h2 = h2
  NoJti = NoJti
  Jtis = {j1, j2, j3}
  Slots = {h1, h2}
  MaxSweeps = 2  MaxLogouts = 1  MaxMishaps = 1
SPECIFICATION Spec
CHECK_DEADLOCK FALSE
INVARIANTS OneUsablePerChain SweptStaysDead LogoutSticks RevocationReachesAll NoFalseAlarm
           FloorMovesForward
PROPERTIES TokensMoveOnce
SYMMETRY Symmetry
