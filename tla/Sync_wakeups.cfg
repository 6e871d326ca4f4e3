SPECIFICATION FairSpec
CONSTANTS
  Subjects = {"rwlock", "latch", "buffer", "pool", "queue"}
  Threads = {t1, t2, t3, t4}
  NULL = NULL
  Count = 2
  MaxDown = 3
  cap_ = 2
  Tasks = {k1, k2, k3}
  MaxItems = 3
INVARIANTS Exclusion ReleaseWakes OneIsWoken EnoughAwake TasksOnce WorkersWoken PoppersWoken
PROPERTIES  PoolEnds
CHECK_DEADLOCK FALSE
