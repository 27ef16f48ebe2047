CONSTANTS
  c1 = c1  c2 = c2
  h1 = h1  h2 = h2
  NoCall = NoCall  NoState = NoState  NoSlot = NoSlot
  Calls = {c1}  Matching = {c1}
  Slots = {h1, h2}
  NumTargets = 2
  Webrtc = FALSE
  MaxFaults = 1  MaxLate = 0  MaxSkips = 0  MaxDeletes = 1  MaxLulls = 0
SPECIFICATION FairSpec
CHECK_DEADLOCK FALSE
PROPERTIES AnsweredCallEnds OnlyVoiceReopens
