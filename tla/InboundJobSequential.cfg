CONSTANTS
  Handlers = {h1, h2}
  Inodes = {i1, i2}
  NoInode = NoInode
  Byte <- MCByte
  Chunks <- MCChunks
  CheckpointInterval = 2
  MaxBytes = 6
  Shas = {A}
  NoSha = NoSha
  NotText = NotText
  NoSidecar = NoSidecar
  Unreadable = Unreadable
  QueueMax = 1
  MaxInbound = 1
  Inbox <- PlainInbox
  MaxDeliveries = 3
  Admission = "when_done"
  Faults = {"drop", "close", "disk", "crash", "power"}
SYMMETRY MCSymmetry
SPECIFICATION Spec
INVARIANTS
  WritesLand
  IdleMeansIdle
PROPERTIES
  ImplementsJobOutcome
  ResumeWithinFile
  ResumeKeepsCheckpoint
  UploadIsLog
CHECK_DEADLOCK FALSE
