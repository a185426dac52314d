CONSTANTS
  Handlers = {h1}
  Inodes = {i1, i2, i3, i4}
  NoInode = NoInode
  Byte <- MCByte
  Chunks <- MCChunks
  CheckpointInterval = 2
  MaxBytes = 6
  Shas = {A}
  NoSha = NoSha
  NotText = NotText
  NoSidecar = NoSidecar
  Unreadable = Unreadable
  QueueMax = 1
  MaxInbound = 2
  Inbox <- OneFileInbox
  MaxDeliveries = 3
  Admission = "always"
  Faults = {"drop", "close"}
SPECIFICATION Spec
INVARIANT FinalOwned
CHECK_DEADLOCK FALSE
