CONSTANTS
  Handlers = {h1}
  Inodes = {i1, i2}
  NoInode = NoInode
  Byte <- MCByte
  Chunks <- MCChunks
  CheckpointInterval = 2
  MaxBytes = 8
  Shas = {A}
  NoSha = NoSha
  NotText = NotText
  NoSidecar = NoSidecar
  Unreadable = Unreadable
  QueueMax = 1
  MaxInbound = 2
  Inbox <- PlainInbox
  MaxDeliveries = 2
  Admission = "when_done"
  Faults = {"unheard"}
SPECIFICATION LiveSpec
PROPERTY
  BackToIdle
CHECK_DEADLOCK FALSE
