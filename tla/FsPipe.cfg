CONSTANTS
  NR_PROCS = 3
  OPEN_MAX = 2
  NR_FILPS = 2
  NR_INODES = 1
  PIPE_SIZE = 2
  MaxDrift = 1
  Slot = 1
  Mixes <- FsMixes
SPECIFICATION Spec
INVARIANTS Suspension Counts NobodyStranded
PROPERTIES IsStream TakesWorkAgain
CHECK_DEADLOCK FALSE
