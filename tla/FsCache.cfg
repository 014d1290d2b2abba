CONSTANTS
  Bufs = {b1, b2, b3, b4}
  NR_DEVS = 3
  NR_SUPERS = 3
  NR_BLOCKS = 3
  MARGIN = 1
  MaxHeld = 2
  MayFail <- CacheMayFail
  Used <- CacheUsed
  BadAddress = FALSE
SYMMETRY BufSymmetry
SPECIFICATION Spec
INVARIANTS BufsKept Consistent
PROPERTIES IsStore
CHECK_DEADLOCK FALSE
