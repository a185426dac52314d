CONSTANTS
  A = A
  B = B
  a1 = a1
  a2 = a2
  a3 = a3
  b1 = b1
  b2 = b2
  Handlers = {h1, h2, h3}
  Inodes = {i1, i2, i3}
  NoInode = NoInode
  Byte <- MCByte
  Chunks <- MCChunks
  CheckpointInterval = 2
  MaxBytes = 2
  Shas = {A, B}
  NoSha = NoSha
  NotText = NotText
  NoSidecar = NoSidecar
  Unreadable = Unreadable
  QueueMax = 2
  MaxInbound = 3
  Inbox <- MCInbox
  MaxDeliveries = 5
  Source <- TwoFiles
  InitFirst = FALSE
  Admission = "when_done"
  Faults = {"drop", "close", "crash"}
SYMMETRY MCSymmetry
SPECIFICATION TransferSpec
INVARIANTS
  PipelineGetsSource
  PartialIsPrefix
CHECK_DEADLOCK FALSE
