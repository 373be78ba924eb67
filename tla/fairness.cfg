\* Round robin with readers that jump the queue; reads of less and of more than the buffer
\* holds.
SPECIFICATION FairSpec
CONSTANTS
  NR_TASKS = 4
  DEFAULT_QUANTUM = 1
  Sem = {}
  MaxPID = 4
  NiceQuanta = {}
  INT_MAX = 1
  InitValues = {}
  MaxCount = 0
  KEYBOARD_BUFFER_SIZE = 2
  ReadSizes = {1, 2}
PROPERTIES ReadyTaskRuns ReadEnds
