SPECIFICATION Spec
CONSTANTS
  t1 = t1
  t2 = t2
  t3 = t3
  Threads = {t1, t2, t3}
  Prio <- MCPrio
  Protocol = "PRIORITY"
  MaxVal = 3
  InitVal = 1
  Modulus = 8
  Counts = {0, 1, 3}
  None = None
SYMMETRY MCSymmetry
CHECK_DEADLOCK FALSE
INVARIANTS
  TokensConserved
  ValAgrees
  WakeupsMatch
  SavestateKeepsTokens
