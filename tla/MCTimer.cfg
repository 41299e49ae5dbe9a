SPECIFICATION LiveSpec
CONSTANTS
  t1 = t1
  t2 = t2
  c1 = c1
  c2 = c2
  Timers = {t1, t2}
  Callers = {c1}
  Starts <- MCStarts
  Times = {4, 6}
  UMax = 7
  Polled = {t1}
  Guessed = {}
CHECK_DEADLOCK FALSE
INVARIANTS
  ExpiriesExact
PROPERTIES
  StartAligned
  TimersFire
