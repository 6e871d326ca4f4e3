SPECIFICATION Spec
CONSTANTS
  Threads = {t1, t2}
  Locks = {l1}
  Conds = {c1}
  NULL = NULL
  Disciplined = FALSE
INVARIANT RefusedOnlyIfHeld
