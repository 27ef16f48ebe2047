CONSTANTS
  r1 = r1  r2 = r2  r3 = r3  r4 = r4
  Nobody = Nobody
  Requests = {r1, r2, r3, r4}
  MaxAttempts = 3
  Recorded = 2
SPECIFICATION Spec
CHECK_DEADLOCK FALSE
INVARIANTS LastChoicePlays RefusedOnlyIfBeaten
PROPERTIES StatusMovesValidly
SYMMETRY Symmetry
