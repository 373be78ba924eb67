\* All components together, on one process table.
SPECIFICATION Spec
CONSTANTS
  NR_TASKS = 4
  DEFAULT_QUANTUM = 1
  Sem = {s1}
  MaxPID = 4
  NiceQuanta = {}
  INT_MAX = 1
  InitValues = {0}
  MaxCount = 1
  KEYBOARD_BUFFER_SIZE = 3
  ReadSizes = {1, 3}
INVARIANTS TypeOK LinkedOnce NoLostTask RunningIsUnlinked StateMatchesQueue IdleOnlyWhenNothingReady
           BufferInOrder OneReadInProgress ReadersNeverReady CountdownIsOfFirstReader
PROPERTIES NoOvertaking StreamImplemented

