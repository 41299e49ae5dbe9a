SPECIFICATION Spec
CONSTANTS
  t1 = t1
  t2 = t2
  t3 = t3
  Threads = {t1, t2, t3}
  Prio <- MCPrio
  Kinds = {"PRIORITY", "RETRY"}
  MaxCount = 1
  Timed = {t3}
  Destroyers = {t3}
  Stoppable = {t1, t2, t3}
  Saved = {"aborted"}
  MaxLoads = 1
SYMMETRY MCSymmetry
CHECK_DEADLOCK FALSE
INVARIANTS
  ReservedHasHeir
  WaiterHasWaker
  WaitersCounted
PROPERTIES
  ImplementsMutex
