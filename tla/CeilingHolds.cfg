CONSTANTS
  s1 = s1  s2 = s2  s3 = s3  s4 = s4
  NoSession = NoSession
  Sessions = {s1, s2, s3, s4}
  CallMaximum = 1
SPECIFICATION FairSpec
CHECK_DEADLOCK FALSE
INVARIANTS SettlesWithinSlack
PROPERTIES EveryRequestAnswered
