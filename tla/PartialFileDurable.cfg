CONSTANTS
  Writers = {w1, w2}
  Inodes = {i1}
  NoInode = NoInode
  Byte <- MCByte
  Chunks <- MCChunks
  CheckpointInterval = 2
  MaxBytes = 5
SPECIFICATION Spec
INVARIANT OffsetIsDurable
CHECK_DEADLOCK FALSE
