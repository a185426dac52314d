CONSTANTS
  Threads = {t1, t2}
  Tiers = {fast, average}
  Pinned = {fast, average}
  Inodes = {i1, i2, i3}
  NoInode = NoInode
  Length = 2
  Overlap = "none"
  Faults = {"save"}
  MaxStarts = 3
SPECIFICATION Spec
INVARIANT DoneIsRemembered
CHECK_DEADLOCK FALSE
