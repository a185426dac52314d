CONSTANTS
  Audios = {a1, a2}
  NoAudio = NoAudio
  Labels = {A, B}
  Unknown = Unknown
  Transcripts <- MCTranscripts
  Diarizations <- MCDiarizations
  Builds <- Repaired
  Faults = {}
  AwaitStrays = TRUE
  MaxCalls = 1
  MaxTime = 2
  MaxSegments = 1
  MaxTurns = 3
SPECIFICATION Spec
INVARIANT TagTalksMost
CHECK_DEADLOCK FALSE
