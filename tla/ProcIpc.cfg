CONSTANTS
  NR_PROCS = 4
  Tasks <- IpcTasks
  IrqTasks <- IpcIrqs
  Mixes <- IpcMixes
  Sigs = {}
SPECIFICATION Spec
INVARIANTS Scheduled Queued
PROPERTIES Delivered
