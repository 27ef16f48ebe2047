SPECIFICATION FairSpec
CONSTANTS
  c1 = c1  c2 = c2  q1 = q1  q2 = q2  w1 = w1  w2 = w2
  Campaigns = {c1, c2}
  Reps <- MCReps
  LevelOf <- MCLevelOf
  Dialable = {"senator"}
  Providers = {"federal", "state"}
  LevelSets <- MCLevelSets
  Requests = {q1, q2}
  Workers = {w1, w2}
  MaxEdits = 1
  MaxDeaths = 1
  Nobody = Nobody
INVARIANTS CacheServesWhole CallsOwnReps LoggedRepsKept
PROPERTIES StaleRepsGo
CHECK_DEADLOCK FALSE
