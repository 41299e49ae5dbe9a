SPECIFICATION Spec
CONSTANTS
  t1 = t1
  t2 = t2
  t3 = t3
  t4 = t4
  t5 = t5
  Threads = {t1, t2, t3, t4, t5}
  Prio <- MCPrio
  Protocol = "PRIORITY"
  Bits = {1, 2, 3}
  Waits <- RetryWaits
  Tries <- RetryTries
  Sets <- RetrySets
  Keeps <- RetryKeeps
  Cancelers = {}
  Stoppable = {}
  None = None
CHECK_DEADLOCK FALSE
PROPERTIES
  ServedAtomically
