CONSTANTS
  NR_PROCS = 4
  Tasks <- SigTasks
  IrqTasks <- SigIrqs
  Mixes <- SigMixes
  Sigs = {2, 16}
SPECIFICATION Spec
INVARIANTS TypeOK SignalsCounted Queued NoSignalForgotten
