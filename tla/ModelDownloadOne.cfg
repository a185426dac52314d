CONSTANTS
  Threads = {t1, t2}
  Tiers = {fast, average, best}
  Pinned = {fast, average}
  Inodes = {i1, i2, i3}
  NoInode = NoInode
  Length = 2
  Overlap = "handoff"
  Faults = {"crash", "drop", "ignore_range"}
  MaxStarts = 3
SPECIFICATION Spec
INVARIANTS
  ModelsVerified
  DoneIsRemembered
PROPERTY PartKept
CHECK_DEADLOCK FALSE
