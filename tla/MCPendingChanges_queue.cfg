\* With every row closed and every request finished nothing is left to do.
CHECK_DEADLOCK FALSE
SPECIFICATION Spec
CONSTANTS
  i1 = i1 i2 = i2 n1 = n1 n2 = n2 t1 = t1 w1 = w1 w2 = w2
  Items = {i1, i2}
  Payloads = {n1, n2, t1}
  Notes = {n1, n2}
  Appliers = {w1, w2}
  MaxRows = 2
  MaxCrashes = 1
SYMMETRY Symmetry
INVARIANTS AppliedRowsWereDelivered DeliveriesAreRecorded InboxCheckedAgainstQueue
PROPERTIES FinalStatusesStick
