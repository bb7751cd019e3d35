\* A commit beyond MaxRevision is not taken: a request or a pass may stop there.
CHECK_DEADLOCK FALSE
SPECIFICATION Spec
CONSTANTS
  v1 = v1 v2 = v2 r1 = r1 r2 = r2 p1 = p1
  Priorities = {v1, v2}
  NoLabel = NoLabel
  Lib = Lib
  Feed = Feed
  Requests = {r1, r2}
  Passes = {p1}
  Nobody = Nobody
  MaxRevision = 4
  MaxEdits = 2
  MaxRestarts = 1
SYMMETRY Symmetry
PROPERTY TypedVerdictsStay
