\* Two processes with quanta of four ticks, of which any number are used when a key preempts
\* them or set_quantum leaves them two.
SPECIFICATION FairSpec
CONSTANTS
  NR_TASKS = 4
  DEFAULT_QUANTUM = 4
  Sem = {}
  MaxPID = 3
  NiceQuanta = {2}
  INT_MAX = 1
  InitValues = {}
  MaxCount = 0
  KEYBOARD_BUFFER_SIZE = 2
  ReadSizes = {1}
INVARIANTS RemainingIsExact
PROPERTIES ReadyTaskRuns
