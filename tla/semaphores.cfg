\* Two semaphores, two processes besides the first, and one who reuses the PCB of an owner.
SPECIFICATION Spec
CONSTANTS
  NR_TASKS = 5
  DEFAULT_QUANTUM = 1
  Sem = {s1, s2}
  MaxPID = 5
  NiceQuanta = {}
  INT_MAX = 2
  InitValues = {0, 1}
  MaxCount = 1
  KEYBOARD_BUFFER_SIZE = 1
  ReadSizes = {}
SYMMETRY SemSymmetry
INVARIANTS WaitersOnlyAtZero OwnerIsAlive FlagMeansDestroyed LivePIDsUnique
PROPERTIES ServiceImplemented

