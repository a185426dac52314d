CONSTANTS
  Audios = {a1, a2}
  NoAudio = NoAudio
  Labels = {A, B}
  Unknown = Unknown
  Transcripts <- MCTranscripts
  Diarizations <- MCDiarizations
  Builds <- Repaired
  Faults = {"spawn", "ffmpeg", "whisper", "json", "pyannote", "cancel"}
  AwaitStrays = TRUE
  MaxCalls = 2
  MaxTime = 2
  MaxSegments = 2
  MaxTurns = 2
SPECIFICATION Spec
INVARIANT IntermediatesGo
CHECK_DEADLOCK FALSE
