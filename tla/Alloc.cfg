CONSTANTS
  NR_HOLES = 5
  NR_PROCS = 6
  TOTAL = 14
  MINIX = 1
  RAM = 1
  MaxSize = 4
SPECIFICATION Spec
INVARIANTS HolesKept NoPanic
PROPERTIES PromiseKept
