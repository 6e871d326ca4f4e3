SPECIFICATION FairSpec
CONSTANTS
  Threads = {t1, t2, t3, t4}
  Locks = {l1}
  Conds = {c1}
  NULL = NULL
  Disciplined = TRUE
PROPERTIES ReadyRuns BlockedAcquires
