CONSTANTS
  Handlers = {h1, h2}
  Inodes = {i1, i2, i3}
  NoInode = NoInode
  Byte <- MCByte
  Chunks <- MCChunks
  CheckpointInterval = 2
  MaxBytes = 6
  Shas = {A}
  NoSha = NoSha
  NotText = NotText
  NoSidecar = NoSidecar
  Unreadable = Unreadable
  QueueMax = 1
  MaxInbound = 1
  Inbox <- PlainInbox
  MaxDeliveries = 3
  Admission = "always"
  Faults = {"close_raises", "drop", "disk", "full"}
SYMMETRY MCSymmetry
SPECIFICATION Spec
INVARIANTS
  TypeOK
  OneVerdict
  FinalOwned
CHECK_DEADLOCK FALSE
