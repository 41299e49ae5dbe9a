SPECIFICATION FairSpec
CHECK_DEADLOCK FALSE
CONSTANTS
  t1 = t1
  t2 = t2
  t3 = t3
  Threads = {t1, t2}
  Prios = {1, 2}
  ppu_threads = 1
  MaxAwake = 1
  None = None
PROPERTIES
  HardwareThreadRuns
