SPECIFICATION Spec
CONSTANTS
  t1 = t1
  t2 = t2
  t3 = t3
  t4 = t4
  t5 = t5
  Threads = {t1, t2, t3, t4, t5}
  c_one = 4
  c_sig = 24
SYMMETRY MCSymmetry
INVARIANTS
  ValueAgrees
  MutualExclusion
  NoLostSignal
PROPERTIES
  PassWaits
