CONSTANTS
  Threads = {t1, t2}
  Tiers = {fast}
  Pinned = {fast}
  Inodes = {i1, i2, i3}
  NoInode = NoInode
  Length = 2
  Overlap = "any"
  Faults = {"crash", "drop", "short", "ignore_range", "save"}
  MaxStarts = 3
SPECIFICATION FairSpec
INVARIANT TypeOK
PROPERTY PickerEnds
CHECK_DEADLOCK FALSE
