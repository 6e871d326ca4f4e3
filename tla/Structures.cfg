SPECIFICATION FairSpec
CONSTANTS
  Subjects = {"stocks", "list", "table", "skiplist", "minipool"}
  Threads = {t1, t2, t3}
  NULL = NULL
  Keys = {hj}
  Stocks = {s1, s2, s3}
  Nodes = {n1, n2, n3}
  HeadNode = HeadNode
  MapKeys = {1, 2, 3, 4}
  hasher <- MCHash
  MapVals = {v}
  bucket_size = 3
  Vals = {1, 2}
  NumNodes = 6
  arena_size = 2
  MaxArenas = 3
  Object = Object
INVARIANTS OneStock WalkersSafe VisitsAll SnapshotAtomic RowsNested SlotsOnce
PROPERTIES WalksEnd ImplementsBag
CHECK_DEADLOCK FALSE
