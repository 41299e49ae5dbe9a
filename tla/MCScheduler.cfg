SPECIFICATION Spec
CHECK_DEADLOCK FALSE
CONSTANTS
  t1 = t1
  t2 = t2
  t3 = t3
  Threads = {t1, t2, t3}
  Prios = {1, 2}
  ppu_threads = 1
  MaxAwake = 2
  None = None
SYMMETRY MCSymmetry
INVARIANTS
  HardwareThreads
  MostUrgentRun
  AwakenedExactly
