CONSTANTS
  c1 = c1  c2 = c2
  h1 = h1  h2 = h2
  NoCall = NoCall  NoState = NoState  NoSlot = NoSlot
  Calls = {c1, c2}  Matching = {c1, c2}
  Slots = {h1, h2}
  NumTargets = 2
  Webrtc = TRUE
  MaxFaults = 1  MaxLate = 0  MaxSkips = 0  MaxDeletes = 0  MaxLulls = 1
SPECIFICATION Spec
CHECK_DEADLOCK FALSE
INVARIANTS ServesOneCall OneRowPerLeg RowNamesDialedTarget NeverRedials CompletedLegsLogged CompletedMeansCalled
SYMMETRY Symmetry
