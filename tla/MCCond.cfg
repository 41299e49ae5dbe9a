SPECIFICATION CondSpec
CONSTANTS
  t1 = t1
  t2 = t2
  t3 = t3
  Threads = {t1, t2, t3}
  Prio <- MCPrio
  Protocol = "PRIORITY"
  Recursive = TRUE
  MaxCount = 1
  None = None
SYMMETRY MCSymmetry
CHECK_DEADLOCK FALSE
INVARIANTS
  LocksRestored
  CondWakeupsMatch
PROPERTIES
  ImplementsMonitor
