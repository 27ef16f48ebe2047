SPECIFICATION Spec
CONSTANTS
  r1 = r1  r2 = r2
  Runners = {r1, r2}
  MaxRuns = 6
  Nobody = Nobody
INVARIANTS Rerunnable
SYMMETRY Symmetry
CHECK_DEADLOCK FALSE
