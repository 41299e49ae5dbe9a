SPECIFICATION Spec
CONSTANTS
  t1 = t1
  t2 = t2
  t3 = t3
  t4 = t4
  Threads = {t1, t2, t3}
  Prio <- MCPrio
  Protocol = "PRIORITY"
  Size = 2
  PortTypes = {"LOCAL", "IPC"}
  MaxEvents = 3
  Receivers = {t1, t3}
  Senders = {t1, t2}
  Managers = {t3}
  Stoppable = {t1, t2, t3}
  MaxLoads = 1
  None = None
CHECK_DEADLOCK FALSE
INVARIANTS
  ReceiversServed
  BusyPortConnected
  SavestateKeepsEvents
PROPERTIES
  ImplementsBoundedQueue
