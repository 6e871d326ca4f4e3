SPECIFICATION Spec
CONSTANTS
  Procs = {p1, p2}
  Nodes = {n1, n2, n3}
  NULL = NULL
  Junk = Junk
  MaxOps = 4
  KeepsCounter = TRUE
  Garbage = {0, 1}
  WholeCopies = FALSE
  ReadsAgain = TRUE
PROPERTY ImplementsFifo
