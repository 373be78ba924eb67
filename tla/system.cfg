\* Processes and threads that read, fork, exit and are preempted, with the page tables they
\* run in.
SPECIFICATION SystemSpec
CONSTANTS
  NR_TASKS = 4
  DEFAULT_QUANTUM = 1
  Sem = {}
  MaxPID = 4
  NiceQuanta = {}
  INT_MAX = 1
  InitValues = {}
  MaxCount = 0
  KEYBOARD_BUFFER_SIZE = 2
  ReadSizes = {1}
  NUM_PAG_CODE = 1
  NUM_PAG_DATA = 1
  PAG_LOG_INIT_HEAP = 3
  PAGE_SIZE = 2
  NUM_PAG_KERNEL = 1
  TOTAL_PAGES = 8
  Increments = {}
  Clones = TRUE
  SyscallPages <- DataPages
  TouchFirst = FALSE
  Value = {0}
INVARIANTS FreeTasksHaveDirectories AddressSpaceWhileUsed FramesAreCounted
PROPERTIES MemoryImplemented
\* The machine stops for good in pf_rsi.
CHECK_DEADLOCK FALSE
