\* System calls that write to pages a fork has just made read-only.
SPECIFICATION Spec
CONSTANTS
  NR_TASKS = 3
  NUM_PAG_CODE = 1
  NUM_PAG_DATA = 1
  PAG_LOG_INIT_HEAP = 3
  PAGE_SIZE = 2
  NUM_PAG_KERNEL = 1
  TOTAL_PAGES = 10
  Increments = {}
  Clones = FALSE
  SyscallPages <- UserPages
  TouchFirst = FALSE
  Value = {0, 1}
PROPERTIES Isolation
\* The machine stops for good in pf_rsi.
CHECK_DEADLOCK FALSE
