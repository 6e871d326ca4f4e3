SPECIFICATION Spec
CONSTANTS
  DEFAULT_COROUTINE = 1
  STACK_SIZE = 2
  Values = {0, 1}
  MaxCap = 4
  NULL = NULL
INVARIANTS NcoCounts OneRunning FramesIntact
PROPERTY OthersUntouched
