\* Blocks at the borders of the pages, in a memory with gaps.
CONSTANTS
  NUM_COLUMNS = 3
  NUM_ROWS = 2
  ADDRESSES = 40
  PAGE_SIZE = 4
  USER_FIRST_PAGE = 2
  NUM_PAG_CODE = 1
  NUM_PAG_DATA = 2
  PAG_LOG_INIT_HEAP = 7
  KernelPages = {1}
  CHUNK_SIZE = 3
  StatsSize = 5
  memory <- MemoryImage
  error_message <- Messages
  pf_message <- FaultMessages
  ClockCell <- MCClockCell
  ClockFaces = {58}
  Buffers <- MCBuffers
  Sizes <- MCSizes
  Descriptors = {0, 1}
  Numbers <- MCNumbers
  HeapPages = {0, 2}
  MaxCalls = 2
SPECIFICATION Spec
INVARIANTS
  WriteShowsBuffer
  GoodBlocksAccepted
  KernelStaysUntouched
PROPERTIES
  ScreenShowsText
\* The machine stops when the kernel touches a page that is not there.
CHECK_DEADLOCK FALSE
