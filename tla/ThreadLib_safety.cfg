SPECIFICATION Spec
CONSTANTS
  Threads = {t1, t2, t3, t4}
  Locks = {l1, l2}
  Conds = {c1, c2}
  NULL = NULL
  Disciplined = TRUE
SYMMETRY Symmetry
INVARIANTS TypeOK OnePlace HolderKnows NoIdleLock
PROPERTIES NoBarging ReadyInOrder ImplementsMonitor
