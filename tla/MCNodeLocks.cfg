CONSTANTS
  Node = {1, 2, 3}
  Task = {t1, t2, t3}
  NoTask = NoTask
SPECIFICATION FairLocksSpec
INVARIANT AscendingWaits
PROPERTIES ImplementsSections LockEventuallyGranted
