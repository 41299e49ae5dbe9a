SPECIFICATION FairSpec
CONSTANTS
  t1 = t1
  t2 = t2
  t3 = t3
  Threads = {t1, t2, t3}
  Prio <- MCPrio
  Protocol = "FIFO"
  Recursive = TRUE
  MaxCount = 1
  None = None
CHECK_DEADLOCK FALSE
PROPERTIES
  HandOverCompletes
INVARIANTS
  OwnershipAgrees
  WakeupsMatch
