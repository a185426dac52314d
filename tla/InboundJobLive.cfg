CONSTANTS
  Handlers = {h1}
  Inodes = {i1, i2, i3, i4}
  NoInode = NoInode
  Byte <- MCByte
  Chunks <- MCChunks
  CheckpointInterval = 2
  MaxBytes = 8
  Shas = {A}
  NoSha = NoSha
  NotText = NotText
  NoSidecar = NoSidecar
  Unreadable = Unreadable
  QueueMax = 2
  MaxInbound = 2
  Inbox <- FullInbox
  MaxDeliveries = 4
  Admission = "when_done"
  Faults = {"close_raises", "drop", "disk"}
SPECIFICATION LiveSpec
PROPERTIES
  EofAnswered
  BackToIdle
CHECK_DEADLOCK FALSE
