SPECIFICATION Spec
CONSTANTS
  t1 = t1
  t2 = t2
  c1 = c1
  c2 = c2
  Timers = {t1}
  Callers = {c1, c2}
  Starts <- MCStarts
  Times = {4, 6}
  UMax = 7
  Polled = {}
  Guessed = {t1}
CHECK_DEADLOCK FALSE
INVARIANTS
  NoTimerLeft
