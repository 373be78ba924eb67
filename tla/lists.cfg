\* Four tasks in any order on four lists, one of them a semaphore's.
SPECIFICATION Spec
CONSTANTS
  NR_TASKS = 4
  Sem = {s1}
INVARIANTS LinksAgree
PROPERTIES ListsAreSequences
