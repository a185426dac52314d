CONSTANTS
  Threads = {t1, t2}
  Tiers = {fast, average}
  Pinned = {fast, average}
  Inodes = {i1, i2, i3}
  NoInode = NoInode
  Length = 2
  Overlap = "none"
  Faults = {"short"}
  MaxStarts = 3
SPECIFICATION Spec
PROPERTY PartKept
CHECK_DEADLOCK FALSE
