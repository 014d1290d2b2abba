CONSTANTS
  NR_PROCS = 4
  Tasks <- SigTasks
  IrqTasks <- SigIrqs
  Mixes <- LockMixes
  Sigs = {2}
SPECIFICATION Spec
PROPERTIES MessageKept
