SPECIFICATION Spec
CONSTANTS
  t1 = t1
  t2 = t2
  t3 = t3
  Threads = {t1, t2, t3}
  Id <- MCId
  Prio <- MCPrio
  Protocol = "PRIORITY"
  MaxSize = 3
  None = None
CHECK_DEADLOCK FALSE
INVARIANTS
  OwnerAgrees
  WaitBitAgrees
  WakeupsMatch
PROPERTIES
  ImplementsReadersWriter
