SPECIFICATION Spec
CONSTANTS
  t1 = t1
  t2 = t2
  t3 = t3
  Threads = {t1, t2, t3}
  Prio <- MCPrio
  Kinds = {"FIFO"}
  MaxCount = 0
  Timed = {}
  Destroyers = {}
  Stoppable = {t1, t2, t3}
  Saved = {"aborted", "unlock"}
  MaxLoads = 1
CHECK_DEADLOCK FALSE
INVARIANTS
  ReservedHasHeir
