SPECIFICATION Spec
CONSTANTS
  Procs = {p1, p2}
  Nodes = {n1, n2, n3}
  NULL = NULL
  Junk = Junk
  MaxOps = 4
  KeepsCounter = FALSE
  Garbage = {0, 1}
  WholeCopies = TRUE
  ReadsAgain = TRUE
PROPERTY ImplementsFifo
