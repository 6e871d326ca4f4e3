SPECIFICATION Spec
CONSTANTS
  ALIGNMENT = 8
  METADATA_T_ALIGNED = 32
  FOOTER_T_ALIGNED = 16
  ENTRY_SIZE = 10
  MAX_HEAP_SIZE = 344
  SIZE_BITS = 10
  Requests = {1, 20, 296, 600, 1020}
  NULL = NULL
  Junk = Junk
INVARIANTS BlocksTile  Coalesced FindsFit AbortsOnlyOnWhole
PROPERTY ImplementsAllocator
