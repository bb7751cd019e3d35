\* When no start is left and every review is over, nothing happens.
CHECK_DEADLOCK FALSE
SPECIFICATION FairSpec
CONSTANTS
  k1 = k1 k2 = k2
  Keys = {k1, k2}
  WithPdf = {k2}
  PoolSize = 2
  BatchWait = 1
  MaxStarts = 1
  MaxRuns = 1
  MaxEdits = 1
  MaxSetupFailures = 1
INVARIANT OneReviewPerPaper
PROPERTIES DigestsAreKept FleetEnds
