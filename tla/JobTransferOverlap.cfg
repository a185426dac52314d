CONSTANTS
  A = A
  B = B
  a1 = a1
  a2 = a2
  a3 = a3
  b1 = b1
  b2 = b2
  Handlers = {h1, h2}
  Inodes = {i1, i2, i3}
  NoInode = NoInode
  Byte <- MCByte
  Chunks <- MCChunks
  CheckpointInterval = 2
  MaxBytes = 6
  Shas = {A}
  NoSha = NoSha
  NotText = NotText
  NoSidecar = NoSidecar
  Unreadable = Unreadable
  QueueMax = 1
  MaxInbound = 3
  Inbox <- MCInbox
  MaxDeliveries = 6
  Source <- OneFile
  InitFirst = FALSE
  Admission = "when_closed"
  Faults = {"drop"}
SPECIFICATION FairTransfer
PROPERTY EofAnswered
CHECK_DEADLOCK FALSE
