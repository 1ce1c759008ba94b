\* Two managers registered and unregistered at will, a worker and flushAll().
SPECIFICATION FairSpec
CONSTANTS
  m1 = m1
  m2 = m2
  Managers = {m1, m2}
  MaxEnables = 2
  MaxEdits = 2
  MaxFaults = 1
  MaxFlushes = 1
INVARIANTS ReleasedAfterDisable WorkerServes
PROPERTIES EditsAreSaved LifecycleReturns
CHECK_DEADLOCK FALSE
