CONSTANTS
  NR_PROCS = 3
  Tasks <- IrqsTasks
  IrqTasks <- IrqsIrqs
  Mixes <- IrqsMixes
  Sigs = {}
SPECIFICATION Spec
PROPERTIES HeldServed
