\* When every job is over and no start is left, nothing happens.
CHECK_DEADLOCK FALSE
SPECIFICATION FairSpec
CONSTANTS
  i1 = i1 i2 = i2 i3 = i3
  Items = {i1, i2}
  MaxJobs = 1
  Width = 2
  Keep = 1
  MaxRestarts = 1
  MaxFailures = 0
PROPERTIES JobsSettle
