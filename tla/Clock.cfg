CONSTANTS
  Users = {1, 2, 3}
  IDLE = 0
  SCHED_RATE = 2
  FLIPWAIT = 3
  Sleepers = {1, 2}
  Deltas = {0, 2}
  MaxPending = 2
  MaxLate = 1
SPECIFICATION Spec
INVARIANTS AlarmsKept SchedSane
PROPERTIES AlarmSounds Turns
CHECK_DEADLOCK FALSE
