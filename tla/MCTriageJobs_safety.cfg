\* When every job is over and no start is left, nothing happens.
CHECK_DEADLOCK FALSE
SPECIFICATION Spec
CONSTANTS
  i1 = i1 i2 = i2 i3 = i3
  Items = {i1, i2}
  MaxJobs = 2
  Width = 2
  Keep = 1
  MaxRestarts = 1
  MaxFailures = 1
SYMMETRY Symmetry
INVARIANTS TypeOK OneJobAtATime ReportsAreBacked
PROPERTIES NoLateResult ResultsAreNotRepeated EndedJobsStay CancellationHolds
