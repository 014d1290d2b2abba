CONSTANTS
  NR_PROCS = 2
  Consoles = {1}
  Serials = {2}
  TTY_IN_BYTES = 2
  RS_BUF_SIZE = 2
  SPARE = 1
  THRESHOLD = 2
  BufMax = 2
  DoneMax = 1
  Mixes <- TtyMixes
SPECIFICATION Spec
INVARIANTS BothKnow LinesKept
PROPERTIES OwnAnswer FsReturns WritesEnd
CHECK_DEADLOCK FALSE
