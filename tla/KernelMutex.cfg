CONSTANTS
  Threads = {t1, t2, t3}
  Readers = {t1, t2}
  Condvars = {c1}
  None = None
SPECIFICATION FairSpec
INVARIANTS MutexInvariant NoLostWakeup
PROPERTIES ImplementsRwLock EveryWaiterIsChosen
CHECK_DEADLOCK FALSE
