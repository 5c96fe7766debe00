SPECIFICATION FairSpec
CONSTANTS
  Jobs = {j1, j2}
  Submitters = {s1, s2}
  Controllers = {c1, c2}
  MaxStarts = 2
  MaxStops = 1
  NoJob = NoJob
INVARIANTS NoLostWakeup DestroyIsLast
PROPERTIES StopEndsJoin ImplementsExecutor
