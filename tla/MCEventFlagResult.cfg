SPECIFICATION Spec
CONSTANTS
  t1 = t1
  t2 = t2
  t3 = t3
  t4 = t4
  t5 = t5
  Threads = {t1, t2, t3, t4}
  Prio <- MCPrio
  Protocol = "PRIORITY"
  Bits = {1, 2}
  Waits <- MCWaits
  Tries <- MCTries
  Sets <- MCSets
  Keeps <- MCKeeps
  Cancelers = {t4}
  Stoppable = {t1, t3}
  None = None
CHECK_DEADLOCK FALSE
PROPERTIES
  ResultIsAtomic
