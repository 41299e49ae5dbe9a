SPECIFICATION Spec
CONSTANTS
  t1 = t1
  t2 = t2
  t3 = t3
  t4 = t4
  Threads = {t1, t2, t3}
  Prio <- MCPrio
  Protocol = "FIFO"
  Size = 1
  PortTypes = {"LOCAL"}
  MaxEvents = 2
  Receivers = {t1}
  Senders = {t3}
  Managers = {t2}
  Stoppable = {t1, t2, t3}
  MaxLoads = 1
  None = None
CHECK_DEADLOCK FALSE
INVARIANTS
  SentOnce
