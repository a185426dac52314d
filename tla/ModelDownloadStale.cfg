CONSTANTS
  Threads = {t1, t2}
  Tiers = {fast, average, best}
  Pinned = {fast, average, best}
  Inodes = {i1, i2, i3}
  NoInode = NoInode
  Length = 2
  Overlap = "none"
  Faults = {}
  MaxStarts = 3
SPECIFICATION Spec
INVARIANT DoneIsRemembered
CHECK_DEADLOCK FALSE
