\* Two processes that block, wake, preempt and ask about each other, in one unit of time.
SPECIFICATION CountedSpec
CONSTANTS
  NR_TASKS = 4
  DEFAULT_QUANTUM = 2
  Sem = {s1}
  MaxPID = 3
  NiceQuanta = {2}
  INT_MAX = 1
  InitValues = {0}
  MaxCount = 0
  KEYBOARD_BUFFER_SIZE = 2
  ReadSizes = {1}
  MaxTicks = 1
PROPERTIES TicksGoWhereSpent
