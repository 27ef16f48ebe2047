CONSTANTS
  c1 = c1  c2 = c2
  h1 = h1  h2 = h2
  NoCall = NoCall  NoState = NoState  NoSlot = NoSlot
  Calls = {c1}  Matching = {c1}
  Slots = {h1, h2}
  NumTargets = 2
  Webrtc = TRUE
  MaxFaults = 1  MaxLate = 1  MaxSkips = 1  MaxDeletes = 0  MaxLulls = 0
SPECIFICATION Spec
CHECK_DEADLOCK FALSE
INVARIANTS TypeOK SkippedAsAsked FewRedials
SYMMETRY Symmetry
CONSTRAINT OneDisturbance
