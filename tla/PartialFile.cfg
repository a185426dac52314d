CONSTANTS
  Writers = {w1, w2}
  Inodes = {i1, i2}
  NoInode = NoInode
  Byte <- MCByte
  Chunks <- MCChunks
  CheckpointInterval = 2
  MaxBytes = 4
SYMMETRY MCSymmetry
SPECIFICATION Spec
INVARIANTS
  TypeOK
  AckedSurvives
  AtRiskBounded
PROPERTY ImplementsUploadLog
CHECK_DEADLOCK FALSE
