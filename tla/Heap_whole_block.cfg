SPECIFICATION Spec
CONSTANTS
  ALIGNMENT = 8
  METADATA_T_ALIGNED = 32
  FOOTER_T_ALIGNED = 16
  ENTRY_SIZE = 10
  MAX_HEAP_SIZE = 104
  SIZE_BITS = 10
  Requests = {8, 50}
  NULL = NULL
  Junk = Junk
INVARIANT CoalescedIsFree
