SPECIFICATION Spec
CONSTANTS
  Size = 2
  Wrap = 3
  Submitters = {s1}
  MaxJobs = 4
  MaxStarts = 2
  MaxStops = 1
INVARIANTS FlagsAgree Balanced PoolFreedLast
PROPERTIES AcceptedRuns DestroyEnds
