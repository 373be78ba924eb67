\* Two processes with heaps of up to two pages, in bytes, which run out of pages and of
\* frames.
SPECIFICATION Spec
CONSTANTS
  NR_TASKS = 3
  NUM_PAG_CODE = 1
  NUM_PAG_DATA = 1
  PAG_LOG_INIT_HEAP = 4
  PAGE_SIZE = 2
  NUM_PAG_KERNEL = 1
  TOTAL_PAGES = 8
  Increments <- BytesAndPages
  Clones = FALSE
  SyscallPages = {}
  TouchFirst = TRUE
  Value = {0}
INVARIANTS MemoryTypeOK RefCountsExact WritableIsPrivate TLBCoherent
PROPERTIES StopsOnlyForMemory
\* The machine stops for good in pf_rsi.
CHECK_DEADLOCK FALSE
