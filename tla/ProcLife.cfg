CONSTANTS
  NR_PROCS = 5
  Tasks <- LifeTasks
  IrqTasks <- LifeIrqs
  Mixes <- LifeMixes
  Sigs = {}
SPECIFICATION Spec
INVARIANTS FamilyPlaced
PROPERTIES PhysioFixed
CHECK_DEADLOCK FALSE
