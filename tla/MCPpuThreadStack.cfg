SPECIFICATION Spec
CONSTANTS
  t1 = t1
  t2 = t2
  t3 = t3
  Threads = {t1, t2, t3}
  Main = t1
  ContainerMax = 3
  Stoppable = {t1, t2}
  None = None
CHECK_DEADLOCK FALSE
INVARIANTS
  StackAreasPaid
