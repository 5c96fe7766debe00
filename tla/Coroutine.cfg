SPECIFICATION FairSpec
CONSTANTS
  Workers = {w1, w2}
  Plain = {m}
  Coroutines = {c1, c2}
  Null = Null
INVARIANTS ResumedAtHome SchedulerIsCurrent DestroyedOnce
PROPERTY QueuedRuns
