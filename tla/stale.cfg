\* The pages an exit leaves in its page table.
SPECIFICATION Spec
CONSTANTS
  NR_TASKS = 4
  NUM_PAG_CODE = 1
  NUM_PAG_DATA = 1
  PAG_LOG_INIT_HEAP = 4
  PAGE_SIZE = 2
  NUM_PAG_KERNEL = 1
  TOTAL_PAGES = 12
  Increments <- WholePages
  Clones = FALSE
  SyscallPages = {}
  TouchFirst = TRUE
  Value = {0}
INVARIANTS NoForeignPages
\* The machine stops for good in pf_rsi.
CHECK_DEADLOCK FALSE
