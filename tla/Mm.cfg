CONSTANTS
  NR_PROCS = 6
  Mixes <- MmMixes
SPECIFICATION Spec
INVARIANTS WaitAnswered MmAgrees Family WaitersKnown SignalsFinished
PROPERTIES Interrupts
CHECK_DEADLOCK FALSE
