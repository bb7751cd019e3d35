\* Every request may be over.
CHECK_DEADLOCK FALSE
SPECIFICATION Spec
CONSTANTS
  Rows = {r1, r2}
  Keys = {k1, k2}
  Requests = {q1, q2, q3}
  MaxAtOnce = 2
  MaxFailures = 1
  None = None
SYMMETRY Symmetry
INVARIANT ScheduledOutcomesAreDue
