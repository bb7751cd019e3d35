\* When the session is reviewed or deleted and no click is left, nothing happens.
CHECK_DEADLOCK FALSE
SPECIFICATION FairSpec
CONSTANTS
  c1 = c1 c2 = c2 c3 = c3 w1 = w1 w2 = w2 a1 = a1 a2 = a2
  Candidates = {c1, c2, c3}
  Screened = {c1, c2}
  InLibrary = {c3}
  Twins <- OneWork
  Workers = {w1, w2}
  Clicks = {a1, a2}
  Nobody = Nobody
  TopN = 1
  DeepSize = 1
  MaxRounds = 2
  MaxRestarts = 1
INVARIANT OneItemPerCandidate
PROPERTIES NothingSavedIsLost ReviewEnds
