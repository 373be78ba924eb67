\* Processes and threads that write, fork, exit, resize their heaps and make system calls that
\* write to their memory.
SPECIFICATION Spec
CONSTANTS
  NR_TASKS = 3
  NUM_PAG_CODE = 1
  NUM_PAG_DATA = 1
  PAG_LOG_INIT_HEAP = 3
  PAGE_SIZE = 2
  NUM_PAG_KERNEL = 1
  TOTAL_PAGES = 8
  Increments <- WholePages
  Clones = TRUE
  SyscallPages <- UserPages
  TouchFirst = TRUE
  Value = {0, 1}
INVARIANTS DirectoryCountsExact OneHeapPerProcess
PROPERTIES Isolation
\* The machine stops for good in pf_rsi.
CHECK_DEADLOCK FALSE
