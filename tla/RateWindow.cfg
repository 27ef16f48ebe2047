CONSTANTS
  Limit = 0  Default = 2
  Window = 4  MaxLag = 1
  MaxTime = 9  MaxTries = 6
SPECIFICATION BucketSpec
CHECK_DEADLOCK FALSE
INVARIANTS NeverOverAdmits RefusedOnlyWhenFull
