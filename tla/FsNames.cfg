CONSTANTS
  Procs = {p1}
  Inodes = {1, 2, 3}
  NR_LINKS = 8
  LINK_MAX = 3
  NR_DIR_ENTRIES = 2
  Strings = {"a", "b"}
  Paths <- NamesPaths
  DirModes <- NamesDirModes
  Rooms = {2, 8}
  Wild = FALSE
SPECIFICATION Spec
INVARIANTS Referenced LinksCounted Tree
PROPERTIES FailsWhole
CHECK_DEADLOCK FALSE
